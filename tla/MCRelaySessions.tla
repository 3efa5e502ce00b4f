--------------------------- MODULE MCRelaySessions ---------------------------
(* RelaySessions with two relays, started in one project or in two.          *)
EXTENDS RelaySessions
==============================================================================
