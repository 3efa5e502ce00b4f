--------------------------- MODULE MCResearchQueue ---------------------------
(* ResearchQueue on small sets of sessions.                                *)
EXTENDS ResearchQueue, TLC

Symmetry == Permutations(Session)
==============================================================================
