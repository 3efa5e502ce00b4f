----------------------------- MODULE MCFileLocks -----------------------------
(* FileLocks on small sets of agents and files.                              *)
EXTENDS FileLocks
==============================================================================
