-------------------------- MODULE MCCompletionWait --------------------------
(* CompletionWait in all three modes; the thresholds, in ticks, are in .cfg. *)
EXTENDS CompletionWait
==============================================================================
