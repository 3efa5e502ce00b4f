-------------------------- MODULE MCBridgeRequests --------------------------
(* BridgeRequests with the keeper's Chrome, the user's and one relay.        *)
EXTENDS BridgeRequests
==============================================================================
