------------------------------- MODULE RunSlot -------------------------------
(***************************************************************************)
(* What research_queue.acquire_slot promises CouncilBrowser.run: a caller  *)
(* waits, and then it is the sole active Perplexity run until it leaves.   *)
(***************************************************************************)
CONSTANT Session
VARIABLE phase

Init == phase = [p \in Session |-> "out"]

Move(p, from, to) == phase[p] = from /\ phase' = [phase EXCEPT ![p] = to]

Enqueue(p) == Move(p, "out", "waiting")

\* Only into an empty slot
Promote(p) ==
    /\ \A q \in Session : phase[q] # "active"
    /\ Move(p, "waiting", "active")

\* QueueTimeout, an error while waiting, or death
GiveUp(p) == Move(p, "waiting", "out")

\* Completion, an error of the run, or death
Finish(p) == Move(p, "active", "out")

\* A step changes the phase of one session.  (The first conjunct follows from the
\* second; it decides at once that most steps of the queue are none of these.)
Next == \E p \in Session :
    /\ phase'[p] # phase[p]
    /\ Enqueue(p) \/ Promote(p) \/ GiveUp(p) \/ Finish(p)

Spec == Init /\ [][Next]_phase
==============================================================================
