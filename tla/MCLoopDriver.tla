---------------------------- MODULE MCLoopDriver ----------------------------
(* LoopDriver with the limits scaled down.                                  *)
EXTENDS LoopDriver, TLC

TimeoutLimits == (Primary :> 3) @@ (Secondary :> 2)
==============================================================================
