---------------------------- MODULE MCCouncilRun ----------------------------
(* CouncilRun with few sessions and the settings that differ in what they    *)
(* promise: all sessions in the queue, none or one without it, and the       *)
(* stop-gap, on Windows and on POSIX.                                        *)
EXTENDS CouncilRun

Loose == CHOOSE s \in Session : TRUE

With(queued, stopgap, posix) ==
    [queued |-> queued, stopgap |-> stopgap, posix |-> posix]

MCSettings ==
    {With(Session, FALSE, TRUE), With({}, FALSE, FALSE),
     With(Session \ {Loose}, FALSE, FALSE), With({}, TRUE, FALSE), With({}, TRUE, TRUE)}
==============================================================================
