-------------------------- MODULE MCExtendedRunner --------------------------
(* ExtendedRunner on its kinds of runs: left alone, with failing answers,   *)
(* stopped and resumed more than once, in advisory mode, and with the cap 0, *)
(* which is none.                                                            *)
EXTENDS ExtendedRunner

With(advisory, override, failing, stops, resumed) ==
    [advisory |-> advisory, override |-> override, failures |-> failing,
     crashes |-> stops, interrupts |-> stops, resumes |-> resumed]

MCSettings ==
    {With(FALSE, None, 1, 0, 0), With(FALSE, 6, 3, 0, 1), With(FALSE, 6, 0, 1, 2),
     With(TRUE, 6, 0, 0, 0), With(FALSE, 0, 0, 0, 0)}
==============================================================================
