--------------------------- MODULE LoopDriverProofs ---------------------------
(***************************************************************************)
(* Theorems about LoopDriver, for any limits, any turns and costs, and any *)
(* number of runs, kills and failed saves.                                 *)
(*                                                                         *)
(* The sums over the history (TotalCost, SessionTurns, SessionCost) and    *)
(* the window of _check_stagnation (Barren) are not expanded: what matters *)
(* is which history each decision looks at, and what has changed since.    *)
(***************************************************************************)
EXTENDS LoopDriver, TLAPS

SessionOrNone == Session \cup {NoSession}
State == [iteration : Nat, status : Status, cycles : Seq(Cycle), last : SessionOrNone]

\* The variables other than the histories and sessions have their types.
PlainTypes ==
    /\ pc \in Location /\ i \in 0 .. MaxIterations
    /\ configured \in Model /\ model \in {configured, Secondary}
    /\ timeouts \in Nat /\ rejections \in Nat
    /\ reset \in BOOLEAN /\ gated \in BOOLEAN
    /\ out \in Outcome
    /\ end \in {"none"} \cup DOMAIN ExitCode
    /\ count \in [runs : Nat, crash : Nat, session : Nat]

\* So have these, and a recorded history has one cycle for every counted
\* iteration.
TypeInv ==
    /\ PlainTypes
    /\ disk \in {Absent, Torn} \cup State
    /\ mem \in State /\ mem.iteration = Len(mem.cycles)
    /\ Loaded.iteration = Len(Loaded.cycles)
    /\ sid \in SessionOrNone
    /\ cleared \subseteq Session

\* Where the run is decides whether it has an end
EndInv ==
    /\ pc \in {"down", "preflight", "invoke", "rotate", "judge", "next"} => end = "none"
    /\ pc = "over" => end # "none"
    /\ pc = "preflight" => i = 1
    /\ pc # "down" => i > 0 /\ count.runs > 0

\* Calls of the CLI by the present process, and by all
Calls == IF pc \in {"preflight", "invoke"} THEN i - 1 ELSE i
AllCalls == IF pc = "down" THEN count.runs * MaxIterations
            ELSE (count.runs - 1) * MaxIterations + Calls

\* The last rejection ends the run.
GateInv == IF end = "gate" THEN rejections <= MaxRejections ELSE rejections < MaxRejections

\* Each call draws one session and records one cycle at most; the bounds on
\* processes, kills and rejections are kept.
CountInv ==
    /\ count.runs <= MaxRuns /\ count.crash <= MaxCrash
    /\ count.session <= AllCalls
    /\ mem.iteration <= AllCalls
    /\ Loaded.iteration <= AllCalls
    /\ GateInv

\* The session that would be resumed next is one the driver has had and, unless
\* something was killed or not saved, has not left.
SessionInv ==
    /\ sid = mem.last
    /\ \A s \in cleared \cup {sid, Loaded.last} : s # NoSession => s <= count.session
    /\ count.crash = 0 =>
         /\ sid \notin cleared
         /\ pc \in {"down", "over", "preflight"} => Loaded.last \notin cleared

\* The same of a session that has used up its turns, once _should_rotate_session
\* has looked
Spent(st) == st.last # NoSession /\ UsedUp(st.cycles, st.last)
Looked ==
    \/ pc \in {"preflight", "invoke", "judge", "next"}
    \/ pc \in {"save", "saving"} /\ end # "none"
RotationInv ==
    count.crash = 0 =>
        /\ Looked => ~Spent(mem)
        /\ pc \in {"down", "over", "preflight"} => ~Spent(Loaded)

\* check_budget has been asked about all that is recorded before a run goes on.
BudgetInv == pc = "next" \/ (pc = "invoke" /\ i > 1) => ~OverTotal

\* The last call's outcome is recorded and, but for its cost, not judged
Unjudged == end = "budget" \/ (end = "none" /\ pc \in {"save", "saving", "rotate", "judge"})

OutInv ==
    /\ silent \subseteq 1 .. Len(mem.cycles)
    /\ Unjudged =>
         LET n == Len(mem.cycles) IN
         /\ n > 0 /\ (n \in silent <=> ~out.result)
         /\ mem.cycles[n].turns = out.turns /\ mem.cycles[n].error = out.error

\* How many of the latest cycles may all be silent
Silence ==
    (IF model = configured THEN 0 ELSE FallbackAfter) + timeouts
        + (IF Unjudged /\ ~out.result THEN 1 ELSE 0)
TimeInv ==
    /\ \E j \in 0 .. Silence : Len(mem.cycles) - j \notin silent
    /\ model = Primary => timeouts < FallbackAfter
    /\ IF end = "timeouts" THEN timeouts <= TimeoutLimit[model]
                           ELSE timeouts < TimeoutLimit[model]

\* The first strike, and since then no productive iteration that was judged
Excused(m) ==
    StagnantAt(m) \/ m \in silent \/ mem.cycles[m].error \/ mem.cycles[m].turns <= LowTurns
First == Len(mem.cycles) - Calls + 1
Judged == IF Unjudged THEN Len(mem.cycles) - 1 ELSE Len(mem.cycles)
StrikeInv ==
    /\ reset =>
         \E k \in First .. Judged :
            StagnantAt(k) /\ \A m \in k + 1 .. Judged : Excused(m)
    /\ TwoStrikes

------------------------------------------------------------------------------

\* A recorded state is told from a file that is absent or torn.
LEMMA StateIsReadable == \A st \in State : st \notin {Absent, Torn}
<1> SUFFICES ASSUME NEW st \in State PROVE st # Absent /\ st # Torn
  OBVIOUS
<1>1. "iteration" \in DOMAIN st
  BY DEF State
<1>2. "iteration" \notin DOMAIN Absent /\ "iteration" \notin DOMAIN Torn
  BY DEF Absent, Torn
<1> QED BY <1>1, <1>2

\* What a new process loads is a state.
LEMMA LoadedType == TypeInv => Loaded \in State
<1>1. Fresh \in State
  BY DEF Fresh, State, Status, SessionOrNone
<1> QED BY <1>1 DEF TypeInv, Loaded

\* What the file holds after a save is what the next process loads.
LEMMA LoadedSaved ==
    /\ UNCHANGED disk => UNCHANGED Loaded
    /\ disk' = Torn => Loaded' = Fresh
    /\ mem \in State /\ disk' = mem => Loaded' = mem
BY StateIsReadable DEF Loaded

\* An output without anything is an outcome.
LEMMA OutcomeType ==
    /\ NoOutcome \in Outcome
    /\ \A o \in Outcome :
         /\ o.turns \in Turns /\ o.cost \in Costs
         /\ {o.result, o.named, o.error, o.marker} \subseteq BOOLEAN
BY DataAssumption DEF NoOutcome, Outcome

\* Changes of the status and the session keep a state a state, and its history.
LEMMA StateChange ==
    ASSUME NEW st \in State, NEW s \in Status, NEW l \in SessionOrNone
    PROVE  /\ [st EXCEPT !.status = s] \in State
           /\ [st EXCEPT !.last = l] \in State
           /\ [st EXCEPT !.last = l, !.status = s] \in State
           /\ \A t \in {[st EXCEPT !.status = s], [st EXCEPT !.last = l],
                        [st EXCEPT !.last = l, !.status = s]} :
                 t.cycles = st.cycles /\ t.iteration = st.iteration
           /\ [st EXCEPT !.status = s].last = st.last
           /\ [st EXCEPT !.last = l].last = l
           /\ [st EXCEPT !.last = l, !.status = s].last = l
BY DEF State

\* The numbers of sessions, and of the calls of all runs.
LEMMA Products ==
    /\ MaxIterations \in Nat \ {0} /\ MaxRuns \in Nat
    /\ \A n \in Nat :
         /\ n * MaxIterations \in Nat
         /\ (n + 1) * MaxIterations = n * MaxIterations + MaxIterations
         /\ n <= MaxRuns => n * MaxIterations <= MaxRuns * MaxIterations
<1>1. MaxIterations \in Nat \ {0} /\ MaxRuns \in Nat
  BY LimitAssumption, BoundAssumption
<1>2. ASSUME NEW n \in Nat
      PROVE  /\ n * MaxIterations \in Nat
             /\ (n + 1) * MaxIterations = n * MaxIterations + MaxIterations
  BY <1>1
<1>3. ASSUME NEW n \in Nat, n <= MaxRuns
      PROVE  n * MaxIterations <= MaxRuns * MaxIterations
  BY <1>1, <1>3
<1> QED BY <1>1, <1>2, <1>3

\* Where the call has room for a session of its own, it draws one.
LEMMA NextSession ==
    TypeInv /\ EndInv /\ CountInv /\ pc = "invoke" => count.session + 1 \in Session
<1> SUFFICES ASSUME TypeInv, EndInv, CountInv, pc = "invoke" PROVE count.session + 1 \in Session
  OBVIOUS
<1> DEFINE before == (count.runs - 1) * MaxIterations
<1>1. /\ count.runs \in Nat /\ count.runs > 0 /\ count.runs <= MaxRuns
      /\ count.session \in Nat /\ i \in 1 .. MaxIterations
  BY DEF TypeInv, PlainTypes, EndInv, CountInv
<1>2. /\ before \in Nat
      /\ before + MaxIterations = count.runs * MaxIterations
      /\ count.runs * MaxIterations <= MaxRuns * MaxIterations
      /\ MaxRuns * MaxIterations \in Nat
  <2>1. count.runs - 1 \in Nat /\ (count.runs - 1) + 1 = count.runs
    BY <1>1
  <2> QED BY <1>1, <2>1, Products
<1>3. count.session <= before + (i - 1)
  BY DEF CountInv, AllCalls, Calls
<1> HIDE DEF before
<1> QED BY <1>1, <1>2, <1>3, Products DEF Session

\* One call appends the cycle it has recorded.
LEMMA InvokeType ==
    ASSUME NEW o \in Outcome, TypeInv, EndInv, CountInv, Invoke(o)
    PROVE  /\ sid' \in SessionOrNone
           /\ \E c \in Cycle : /\ mem'.cycles = Append(mem.cycles, c)
                               /\ c.turns = o.turns /\ c.error = o.error
           /\ mem'.iteration = mem.iteration + 1
           /\ mem' \in State
           /\ mem'.last = IF sid' # NoSession THEN sid' ELSE mem.last
           /\ sid' = sid \/ (sid = NoSession /\ sid' = count.session + 1)
           /\ count' = [count EXCEPT !.session = IF sid' = sid THEN count.session ELSE sid']
<1> DEFINE s == IF ~o.named THEN sid ELSE IF sid # NoSession THEN sid ELSE count.session + 1
           c == [session |-> s, turns |-> o.turns, cost |-> o.cost, error |-> o.error]
           last == IF s # NoSession THEN s ELSE mem.last
           st == [iteration |-> mem.iteration + 1, status |-> mem.status,
                  cycles |-> Append(mem.cycles, c), last |-> last]
<1>1. count.session + 1 \in Session /\ NoSession \notin Nat
  BY NextSession, DataAssumption DEF Invoke
<1>2. s \in SessionOrNone
  BY <1>1 DEF SessionOrNone, TypeInv
<1>3. s = sid \/ (sid = NoSession /\ s = count.session + 1)
  OBVIOUS
<1>4. sid' = s
  BY DEF Invoke
<1>5. c \in Cycle /\ c.turns = o.turns /\ c.error = o.error
  BY <1>2, OutcomeType DEF Cycle, SessionOrNone
<1>6. mem \in State
  BY DEF TypeInv
<1>7. mem' = st
  <2>1. mem' = [mem EXCEPT !.iteration = mem.iteration + 1,
                           !.cycles = Append(mem.cycles, c), !.last = last]
    BY DEF Invoke
  <2> HIDE DEF c, last
  <2> QED BY <2>1, <1>6 DEF State
<1>8. st \in State
  <2>1. Append(mem.cycles, c) \in Seq(Cycle) /\ mem.iteration + 1 \in Nat /\ mem.status \in Status
    <3> HIDE DEF c
    <3> QED BY <1>5, <1>6 DEF State
  <2>2. last \in SessionOrNone
    BY <1>2, <1>6 DEF State
  <2> HIDE DEF c, last
  <2> QED BY <2>1, <2>2 DEF State
<1>9. count' = [count EXCEPT !.session = IF s = sid THEN count.session ELSE s]
  <2>1. count' = [count EXCEPT !.session = IF s \in {sid, NoSession} THEN count.session ELSE s]
    BY DEF Invoke
  <2>2. s = NoSession => s = sid
    BY <1>1, <1>3 DEF TypeInv
  <2> QED BY <2>1, <2>2
<1>10. /\ st.cycles = Append(mem.cycles, c) /\ st.iteration = mem.iteration + 1
       /\ st.last = last
  OBVIOUS
<1> HIDE DEF c, st, last
<1>11. /\ mem'.cycles = Append(mem.cycles, c) /\ mem'.iteration = mem.iteration + 1
       /\ mem' \in State /\ mem'.last = last
  BY <1>7, <1>8, <1>10
<1>12. mem'.last = IF sid' # NoSession THEN sid' ELSE mem.last
  BY <1>4, <1>11 DEF last
<1> QED BY <1>2, <1>3, <1>4, <1>5, <1>9, <1>11, <1>12

\* The steps between two calls of the CLI
Between ==
    \/ Preflight \/ SaveOpen \/ SaveWrite \/ SaveFails \/ Rotate \/ ExceedBudget
    \/ TimedOut \/ Errored \/ Stagnate \/ Progress \/ Complete \/ NextIteration

\* They leave the session, or stay with it.
Leaves ==
    /\ sid' = NoSession /\ mem'.last = NoSession
    /\ cleared' = cleared \cup ({sid, mem.last} \ {NoSession})
Stays == sid' = sid /\ mem'.last = mem.last /\ cleared' = cleared

\* Between two calls the history stays as it is, and a session is left on the
\* disk-bound state and in the driver's variable together.
LEMMA BetweenStep ==
    TypeInv /\ Between =>
        /\ mem' \in State /\ mem'.cycles = mem.cycles /\ mem'.iteration = mem.iteration
        /\ Leaves \/ Stays
<1> DEFINE Goal == /\ mem' \in State /\ mem'.cycles = mem.cycles
                   /\ mem'.iteration = mem.iteration
                   /\ Leaves \/ Stays
<1> SUFFICES ASSUME TypeInv, Between PROVE Goal
  OBVIOUS
<1>1. mem \in State /\ NoSession \in SessionOrNone
  BY DEF TypeInv, SessionOrNone
<1>2. ASSUME UNCHANGED <<mem, sid, cleared>> PROVE Goal
  BY <1>1, <1>2 DEF Stays
<1>3. ASSUME ClearSession PROVE Goal
  <2>1. mem' = [mem EXCEPT !.last = NoSession]
    BY <1>3 DEF ClearSession
  <2>2. "idle" \in Status
    BY DEF Status
  <2>3. /\ mem' \in State /\ mem'.cycles = mem.cycles /\ mem'.iteration = mem.iteration
        /\ mem'.last = NoSession
    BY <1>1, <2>1, <2>2, StateChange
  <2> QED BY <1>3, <2>3 DEF ClearSession, Leaves
<1>4. ASSUME NEW why, Finish(why), UNCHANGED <<sid, cleared>> PROVE Goal
  <2> DEFINE s == IF why = "complete" THEN "completed" ELSE "failed"
  <2>1. s \in Status /\ mem' = [mem EXCEPT !.status = s]
    BY <1>4 DEF Finish, Status
  <2> HIDE DEF s
  <2> QED BY <1>1, <1>4, <2>1, StateChange DEF Stays, State
<1> HIDE DEF Goal
<1>5. CASE Preflight \/ SaveOpen \/ SaveWrite \/ SaveFails
  BY <1>2, <1>5 DEF Preflight, SaveOpen, SaveWrite, SaveFails, history
<1>6. CASE Rotate
  BY <1>2, <1>3, <1>6 DEF Rotate
<1>7. CASE ExceedBudget
  BY <1>4, <1>7 DEF ExceedBudget, history
<1>8. CASE TimedOut
  <2>1. ASSUME sid' = NoSession,
               mem' = [mem EXCEPT !.last = NoSession, !.status = "failed"],
               cleared' = cleared \cup ({sid, mem.last} \ {NoSession})
        PROVE  Goal
    BY <1>1, <2>1, StateChange DEF Leaves, Status, Goal
  <2> QED BY <1>3, <1>8, <2>1 DEF TimedOut, FallBack
<1>9. CASE Errored
  BY <1>3, <1>9 DEF Errored
<1>10. CASE Stagnate
  BY <1>3, <1>4, <1>10 DEF Stagnate
<1>11. CASE Progress
  BY <1>2, <1>11 DEF Progress
<1>12. CASE Complete
  BY <1>2, <1>4, <1>12 DEF Complete
<1>13. CASE NextIteration
  BY <1>2, <1>4, <1>13 DEF NextIteration, history
<1> QED BY <1>5, <1>6, <1>7, <1>8, <1>9, <1>10, <1>11, <1>12, <1>13 DEF Between

\* A new process continues from what it loads; a killed one leaves nothing in
\* memory.
LEMMA LaunchType ==
    TypeInv /\ Launch =>
        /\ mem' \in State /\ mem'.cycles = Loaded.cycles
        /\ mem'.iteration = Loaded.iteration /\ mem'.last = Loaded.last
        /\ sid' = Loaded.last
<1> SUFFICES ASSUME TypeInv, Launch
             PROVE  /\ mem' \in State /\ mem'.cycles = Loaded.cycles
                    /\ mem'.iteration = Loaded.iteration /\ mem'.last = Loaded.last
                    /\ sid' = Loaded.last
  OBVIOUS
<1>1. Loaded \in State
  BY LoadedType
<1>2. NoSession \in SessionOrNone /\ "running" \in Status
  BY DEF SessionOrNone, Status
<1>3. mem' = [Loaded EXCEPT !.status = "running"] /\ sid' = Loaded.last
  BY DEF Launch
<1> QED BY <1>1, <1>2, <1>3, StateChange

\* A state without a history is a state.
LEMMA FreshType ==
    /\ Fresh \in State /\ Fresh.cycles = <<>> /\ Fresh.iteration = 0
    /\ Fresh.last = NoSession /\ Len(Fresh.cycles) = 0
BY DEF Fresh, State, Status, SessionOrNone

\* What the next process would load is what it would have been, nothing, or what
\* the driver has in memory.
LEMMA LoadedStep == TypeInv /\ [Next]_vars =>
        Loaded' \in {Loaded, Fresh, mem} /\ disk' \in {Absent, Torn} \cup State
<1> SUFFICES ASSUME TypeInv, [Next]_vars
             PROVE  Loaded' \in {Loaded, Fresh, mem} /\ disk' \in {Absent, Torn} \cup State
  OBVIOUS
<1>1. disk' \in {disk, Torn, mem}
  BY DEF Next, Iterate, vars, history, Launch, Preflight, Invoke, SaveOpen, SaveWrite,
       SaveFails, Rotate,
         ExceedBudget, TimedOut, Errored, Stagnate, Progress, Complete, NextIteration, Crash
<1> QED BY <1>1, LoadedSaved DEF TypeInv

\* The ways a run may end.
LEMMA ExitCodes ==
    DOMAIN ExitCode = {"complete", "iterations", "budget", "timeouts", "stagnation", "gate",
                       "preflight"}
BY DEF ExitCode

\* The plain variables keep their types.
LEMMA PlainStep == TypeInv /\ EndInv /\ CountInv /\ [Next]_vars => PlainTypes'
<1> SUFFICES ASSUME TypeInv /\ EndInv /\ CountInv, [Next]_vars PROVE PlainTypes'
  OBVIOUS
<1>0. PlainTypes
  BY DEF TypeInv
<1>1. ASSUME Launch PROVE PlainTypes'
  <2>1. reset' \in BOOLEAN /\ gated' \in BOOLEAN
    BY <1>1 DEF Launch
  <2>2. count' \in [runs : Nat, crash : Nat, session : Nat]
    BY <1>1 DEF Launch, TypeInv, PlainTypes
  <2>3. /\ pc' \in Location /\ i' \in 0 .. MaxIterations
        /\ configured' \in Model /\ model' \in {configured', Secondary}
        /\ timeouts' \in Nat /\ rejections' \in Nat
        /\ out' \in Outcome /\ end' \in {"none"} \cup DOMAIN ExitCode
    BY <1>1, LimitAssumption, ExitCodes, OutcomeType DEF Launch, Goto, Location, Model
  <2> QED BY <2>1, <2>2, <2>3 DEF PlainTypes

<1>2. ASSUME Preflight PROVE PlainTypes'
  BY <1>2, <1>0, LimitAssumption, ExitCodes, OutcomeType DEF Preflight, Goto, history,
     PlainTypes, Location, Model, driver
<1>3. ASSUME NEW o \in Outcome, Invoke(o) PROVE PlainTypes'
  <2>1. count.session \in Nat /\ sid' \in SessionOrNone /\ count.session + 1 \in Nat
    BY <1>3, InvokeType DEF TypeInv, PlainTypes
  <2>2. count' \in [runs : Nat, crash : Nat, session : Nat]
    BY <1>3, <2>1, InvokeType DEF TypeInv, PlainTypes
  <2> QED BY <1>3, <1>0, <2>2 DEF Invoke, Goto, PlainTypes, Location, driver

<1>4. ASSUME SaveOpen PROVE PlainTypes'
  BY <1>4, <1>0, LimitAssumption, ExitCodes, OutcomeType DEF SaveOpen, Goto, history,
     PlainTypes, Location, Model, driver
<1>5. ASSUME SaveWrite PROVE PlainTypes'
  BY <1>5, <1>0, LimitAssumption, ExitCodes, OutcomeType DEF SaveWrite, Goto, PlainTypes,
     Location, Model, driver
<1>6. ASSUME SaveFails PROVE PlainTypes'
  BY <1>6, <1>0, LimitAssumption, ExitCodes, OutcomeType DEF SaveFails, Goto, history,
     PlainTypes, Location, Model, driver
<1>7. ASSUME Rotate PROVE PlainTypes'
  BY <1>7, <1>0, LimitAssumption, ExitCodes, OutcomeType DEF Rotate, ClearSession, Goto,
     PlainTypes, Location, Model, driver
<1>8. ASSUME ExceedBudget PROVE PlainTypes'
  BY <1>8, <1>0, LimitAssumption, ExitCodes, OutcomeType DEF ExceedBudget, Finish, history,
     Goto, PlainTypes, Location, Model, driver
<1>9. ASSUME TimedOut PROVE PlainTypes'
  BY <1>9, <1>0, LimitAssumption, ExitCodes, OutcomeType DEF TimedOut, FallsBack, FallBack, Goto,
     ClearSession, PlainTypes, Location, Model, driver
<1>10. ASSUME Errored PROVE PlainTypes'
  BY <1>10, <1>0, LimitAssumption, ExitCodes, OutcomeType DEF Errored, Recover,
       ClearSession,
     Goto, PlainTypes, Location, Model, driver
<1>11. ASSUME Stagnate PROVE PlainTypes'
  BY <1>11, <1>0, LimitAssumption, ExitCodes, OutcomeType DEF Stagnate, Recover,
       ClearSession,
     Goto, Finish, PlainTypes, Location, Model, driver
<1>12. ASSUME Progress PROVE PlainTypes'
  BY <1>12, <1>0, LimitAssumption, ExitCodes, OutcomeType DEF Progress, Recover,
       Forgive, Goto,
     PlainTypes, Location, Model, driver
<1>13. ASSUME Complete PROVE PlainTypes'
  BY <1>13, <1>0, LimitAssumption, ExitCodes, OutcomeType DEF Complete, Recover, Forgive,
     Finish, Goto, PlainTypes, Location, Model, driver
<1>14. ASSUME NextIteration PROVE PlainTypes'
  BY <1>14, <1>0, LimitAssumption, ExitCodes, OutcomeType DEF NextIteration, Goto, Finish,
     history, PlainTypes, Location, Model, driver
<1>15. ASSUME Crash PROVE PlainTypes'
  <2>1. reset' \in BOOLEAN /\ gated' \in BOOLEAN
    BY <1>15 DEF Crash
  <2>2. count' \in [runs : Nat, crash : Nat, session : Nat]
    BY <1>15 DEF Crash, TypeInv, PlainTypes
  <2>3. /\ pc' \in Location /\ i' \in 0 .. MaxIterations
        /\ configured' \in Model /\ model' \in {configured', Secondary}
        /\ timeouts' \in Nat /\ rejections' \in Nat
        /\ out' \in Outcome /\ end' \in {"none"} \cup DOMAIN ExitCode
    BY <1>15, LimitAssumption, ExitCodes, OutcomeType DEF Crash, Goto, Location, Model
  <2> QED BY <2>1, <2>2, <2>3 DEF PlainTypes

<1>16. CASE UNCHANGED vars
  BY <1>0, <1>16 DEF vars, driver, history, PlainTypes, Location, Model
<1> QED
  BY <1>1, <1>2, <1>3, <1>4, <1>5, <1>6, <1>7, <1>8, <1>9, <1>10, <1>11, <1>12,
     <1>13, <1>14, <1>15, <1>16
     DEF Next, Iterate

\* A step is a start, a call of the CLI, one between calls, or a kill.
LEMMA Steps ==
    [Next]_vars => Launch \/ (\E o \in Outcome : Invoke(o)) \/ Between \/ Crash \/ UNCHANGED vars
BY DEF Next, Iterate, Between

\* Histories and sessions keep their types, and the history its length.
LEMMA TypeStep == TypeInv /\ EndInv /\ CountInv /\ [Next]_vars => TypeInv'
<1> SUFFICES ASSUME TypeInv, EndInv, CountInv, [Next]_vars PROVE TypeInv'
  OBVIOUS
<1> DEFINE Goal == /\ mem' \in State /\ mem'.iteration = Len(mem'.cycles)
                   /\ sid' \in SessionOrNone /\ cleared' \subseteq Session
<1>1. /\ mem \in State /\ Loaded \in State /\ mem.last \in SessionOrNone
      /\ Loaded.last \in SessionOrNone /\ NoSession \in SessionOrNone
  BY LoadedType DEF TypeInv, State, SessionOrNone
<1>2. Goal
  <2>1. CASE Launch
    BY <1>1, <2>1, LaunchType DEF TypeInv, Launch
  <2>2. ASSUME NEW o \in Outcome, Invoke(o) PROVE Goal
    <3>1. PICK c \in Cycle : mem'.cycles = Append(mem.cycles, c)
      BY <2>2, InvokeType
    <3>2. mem.cycles \in Seq(Cycle)
      BY <1>1 DEF State
    <3>3. Len(mem'.cycles) = Len(mem.cycles) + 1
      BY <3>1, <3>2
    <3> QED BY <2>2, <3>3, InvokeType DEF TypeInv, Invoke
  <2>3. CASE Between
    <3>1. /\ mem' \in State /\ mem'.cycles = mem.cycles /\ mem'.iteration = mem.iteration
          /\ Leaves \/ Stays
      BY <2>3, BetweenStep
    <3>2. sid' \in SessionOrNone /\ cleared' \subseteq Session
      BY <1>1, <3>1 DEF Leaves, Stays, TypeInv, SessionOrNone
    <3> QED BY <3>1, <3>2 DEF TypeInv
  <2>4. CASE Crash
    BY <1>1, <2>4, FreshType DEF Crash, TypeInv
  <2>5. CASE UNCHANGED vars
    BY <2>5 DEF vars, driver, history, TypeInv
  <2> QED BY <2>1, <2>2, <2>3, <2>4, <2>5, Steps
<1>3. PlainTypes'
  BY PlainStep
<1>4. Loaded' \in {Loaded, Fresh, mem} /\ disk' \in {Absent, Torn} \cup State
  BY LoadedStep
<1>5. Loaded'.iteration = Len(Loaded'.cycles)
  BY <1>4, FreshType DEF TypeInv
<1> QED BY <1>2, <1>3, <1>4, <1>5 DEF TypeInv

\* A run ends once, and a process has begun an iteration.
LEMMA EndStep == TypeInv /\ EndInv /\ [Next]_vars => EndInv'
<1> SUFFICES ASSUME TypeInv /\ EndInv, [Next]_vars PROVE EndInv'
  OBVIOUS
<1>0. /\ i \in Nat /\ count \in [runs : Nat, crash : Nat, session : Nat]
  BY DEF TypeInv, PlainTypes
<1>1. ASSUME Launch PROVE EndInv'
  BY <1>1, <1>0 DEF Launch, Goto, EndInv, driver
<1>2. ASSUME Preflight PROVE EndInv'
  BY <1>2, <1>0 DEF Preflight, Goto, history, EndInv, driver
<1>3. ASSUME NEW o \in Outcome, Invoke(o) PROVE EndInv'
  BY <1>3, <1>0 DEF Invoke, Goto, EndInv, driver
<1>4. ASSUME SaveOpen PROVE EndInv'
  BY <1>4, <1>0 DEF SaveOpen, Goto, history, EndInv, driver
<1>5. ASSUME SaveWrite PROVE EndInv'
  BY <1>5, <1>0 DEF SaveWrite, Goto, EndInv, driver
<1>6. ASSUME SaveFails PROVE EndInv'
  BY <1>6, <1>0 DEF SaveFails, Goto, history, EndInv, driver
<1>7. ASSUME Rotate PROVE EndInv'
  BY <1>7, <1>0 DEF Rotate, ClearSession, Goto, EndInv, driver
<1>8. ASSUME ExceedBudget PROVE EndInv'
  BY <1>8, <1>0 DEF ExceedBudget, Finish, history, Goto, EndInv, driver
<1>9. ASSUME TimedOut PROVE EndInv'
  BY <1>9, <1>0 DEF TimedOut, FallsBack, FallBack, Goto, ClearSession, EndInv, driver
<1>10. ASSUME Errored PROVE EndInv'
  BY <1>10, <1>0 DEF Errored, Recover, ClearSession, Goto, EndInv, driver
<1>11. ASSUME Stagnate PROVE EndInv'
  BY <1>11, <1>0 DEF Stagnate, Recover, ClearSession, Goto, Finish, EndInv, driver
<1>12. ASSUME Progress PROVE EndInv'
  BY <1>12, <1>0 DEF Progress, Recover, Forgive, Goto, EndInv, driver
<1>13. ASSUME Complete PROVE EndInv'
  BY <1>13, <1>0 DEF Complete, Recover, Forgive, Finish, Goto, EndInv, driver
<1>14. ASSUME NextIteration PROVE EndInv'
  BY <1>14, <1>0 DEF NextIteration, Goto, Finish, history, EndInv, driver
<1>15. ASSUME Crash PROVE EndInv'
  BY <1>15, <1>0 DEF Crash, Goto, EndInv, driver
<1>16. CASE UNCHANGED vars
  BY <1>0, <1>16 DEF vars, driver, history, EndInv
<1> QED
  BY <1>1, <1>2, <1>3, <1>4, <1>5, <1>6, <1>7, <1>8, <1>9, <1>10, <1>11, <1>12,
     <1>13, <1>14, <1>15, <1>16
     DEF Next, Iterate

\* Rejections end the run when they are too many.
LEMMA RejectionStep == TypeInv /\ EndInv /\ CountInv /\ [Next]_vars => GateInv'
<1> SUFFICES ASSUME TypeInv /\ EndInv /\ CountInv, [Next]_vars PROVE GateInv'
  OBVIOUS
<1>0. /\ rejections \in Nat /\ MaxRejections \in Nat \ {0}
      /\ IF end = "gate" THEN rejections <= MaxRejections ELSE rejections < MaxRejections
  BY LimitAssumption DEF TypeInv, PlainTypes, CountInv, GateInv
<1>a. pc \in {"down", "preflight", "invoke", "rotate", "judge", "next"} => end = "none"
  BY DEF EndInv
<1>1. ASSUME Launch PROVE GateInv'
  BY <1>1, <1>0, <1>a DEF Launch, Goto, GateInv, driver
<1>2. ASSUME Preflight PROVE GateInv'
  BY <1>2, <1>0, <1>a DEF Preflight, Goto, history, GateInv, driver
<1>3. ASSUME NEW o \in Outcome, Invoke(o) PROVE GateInv'
  BY <1>3, <1>0, <1>a DEF Invoke, Goto, GateInv, driver
<1>4. ASSUME SaveOpen PROVE GateInv'
  BY <1>4, <1>0, <1>a DEF SaveOpen, Goto, history, GateInv, driver
<1>5. ASSUME SaveWrite PROVE GateInv'
  BY <1>5, <1>0, <1>a DEF SaveWrite, Goto, GateInv, driver
<1>6. ASSUME SaveFails PROVE GateInv'
  BY <1>6, <1>0, <1>a DEF SaveFails, Goto, history, GateInv, driver
<1>7. ASSUME Rotate PROVE GateInv'
  BY <1>7, <1>0, <1>a DEF Rotate, ClearSession, Goto, GateInv, driver
<1>8. ASSUME ExceedBudget PROVE GateInv'
  BY <1>8, <1>0, <1>a DEF ExceedBudget, Finish, history, Goto, GateInv, driver
<1>9. ASSUME TimedOut PROVE GateInv'
  BY <1>9, <1>0, <1>a DEF TimedOut, FallsBack, FallBack, Goto, ClearSession, GateInv, driver
<1>10. ASSUME Errored PROVE GateInv'
  BY <1>10, <1>0, <1>a DEF Errored, Recover, ClearSession, Goto, GateInv, driver
<1>11. ASSUME Stagnate PROVE GateInv'
  BY <1>11, <1>0, <1>a DEF Stagnate, Recover, ClearSession, Goto, Finish, GateInv, driver
<1>12. ASSUME Progress PROVE GateInv'
  BY <1>12, <1>0, <1>a DEF Progress, Recover, Forgive, Goto, GateInv, driver
<1>13. ASSUME Complete PROVE GateInv'
  BY <1>13, <1>0, <1>a DEF Complete, Recover, Forgive, Finish, Goto, GateInv, driver
<1>14. ASSUME NextIteration PROVE GateInv'
  BY <1>14, <1>0, <1>a DEF NextIteration, Goto, Finish, history, GateInv, driver
<1>15. ASSUME Crash PROVE GateInv'
  BY <1>15, <1>0, <1>a DEF Crash, Goto, GateInv, driver
<1>16. CASE UNCHANGED vars
  BY <1>0, <1>16 DEF vars, driver, history, GateInv
<1> QED
  BY <1>1, <1>2, <1>3, <1>4, <1>5, <1>6, <1>7, <1>8, <1>9, <1>10, <1>11, <1>12,
     <1>13, <1>14, <1>15, <1>16
     DEF Next, Iterate

\* The calls of all processes only grow, by one with each call.
LEMMA CallsStep ==
    TypeInv /\ EndInv /\ CountInv /\ [Next]_vars =>
        /\ AllCalls \in Nat /\ AllCalls' \in Nat /\ AllCalls' >= AllCalls
        /\ \A o \in Outcome : Invoke(o) => AllCalls' = AllCalls + 1
<1> SUFFICES ASSUME TypeInv, EndInv, CountInv, [Next]_vars
             PROVE  /\ AllCalls \in Nat /\ AllCalls' \in Nat /\ AllCalls' >= AllCalls
                    /\ \A o \in Outcome : Invoke(o) => AllCalls' = AllCalls + 1
  OBVIOUS
<1>1. TypeInv' /\ EndInv'
  BY TypeStep, EndStep
<1> DEFINE runs == count.runs
           before == (runs - 1) * MaxIterations
<1>2. /\ runs \in Nat /\ runs' \in Nat /\ i \in 0 .. MaxIterations /\ i' \in 0 .. MaxIterations
      /\ pc # "down" => runs > 0 /\ i > 0
      /\ pc' # "down" => runs' > 0 /\ i' > 0
  BY <1>1 DEF TypeInv, PlainTypes, EndInv
<1>3. /\ runs * MaxIterations \in Nat
      /\ pc # "down" => before \in Nat /\ before + MaxIterations = runs * MaxIterations
  <2>1. runs > 0 => runs - 1 \in Nat /\ (runs - 1) + 1 = runs
    BY <1>2
  <2> QED BY <1>2, <2>1, Products
<1>4. /\ AllCalls = IF pc = "down" THEN runs * MaxIterations ELSE before + Calls
      /\ AllCalls' = IF pc' = "down" THEN runs' * MaxIterations ELSE before' + Calls'
      /\ Calls = IF pc \in {"preflight", "invoke"} THEN i - 1 ELSE i
      /\ Calls' = IF pc' \in {"preflight", "invoke"} THEN i' - 1 ELSE i'
  BY DEF AllCalls, Calls
<1>5. pc # "down" => Calls \in 0 .. MaxIterations
  <2> HIDE DEF before, runs
  <2> QED BY <1>2, <1>4, Products
<1>6. AllCalls \in Nat /\ AllCalls <= runs * MaxIterations
  <2> HIDE DEF before, runs
  <2> QED BY <1>3, <1>4, <1>5, Products
<1>7. CASE Launch
  <2>1. runs' = runs + 1 /\ pc' = "preflight" /\ i' = 1
    BY <1>7, <1>2 DEF Launch, Goto, TypeInv, PlainTypes
  <2>2. before' = runs * MaxIterations
    BY <1>2, <2>1
  <2>3. AllCalls' = runs * MaxIterations
    <3> HIDE DEF before, runs
    <3> QED BY <1>3, <1>4, <2>1, <2>2
  <2>4. \A o \in Outcome : ~Invoke(o)
    BY <1>7 DEF Launch, Invoke
  <2> HIDE DEF before, runs
  <2> QED BY <1>3, <1>6, <2>3, <2>4
<1>8. ASSUME NEW o \in Outcome, Invoke(o) PROVE AllCalls' = AllCalls + 1
  <2>1. runs' = runs /\ pc = "invoke" /\ pc' = "save" /\ i' = i
    BY <1>8 DEF Invoke, Goto, TypeInv, PlainTypes
  <2>2. before' = before
    BY <2>1
  <2> HIDE DEF before, runs
  <2> QED BY <1>2, <1>3, <1>4, <2>1, <2>2
<1>9. CASE Between
  <2>1. runs' = runs /\ pc # "down" /\ pc' # "down" /\ Calls' >= Calls
    BY <1>2, <1>9 DEF Between, Calls, Goto, Finish, Recover, FallBack, ClearSession,
         history, TypeInv, PlainTypes,
       Preflight, SaveOpen, SaveWrite, SaveFails, Rotate, ExceedBudget, TimedOut, Errored,
       Stagnate, Progress, Complete, NextIteration
  <2>2. before' = before
    BY <2>1
  <2>3. \A o \in Outcome : ~Invoke(o)
    <3>1. pc # "invoke"
      BY <1>9 DEF Between, Recover, Preflight, SaveOpen, SaveWrite, SaveFails, Rotate,
           ExceedBudget, TimedOut, Errored, Stagnate,
       Progress, Complete, NextIteration
    <3> QED BY <3>1 DEF Invoke
  <2>4. Calls' \in Nat
    <3>1. \A n \in Nat : n > 0 => n - 1 \in Nat
      OBVIOUS
    <3>2. i' \in Nat /\ i' > 0
      BY <1>2, <2>1, Products
    <3> HIDE DEF before, runs
    <3> QED BY <1>4, <3>1, <3>2
  <2> HIDE DEF before, runs
  <2> QED BY <1>3, <1>4, <1>5, <1>6, <2>1, <2>2, <2>3, <2>4
<1>10. CASE Crash
  <2>1. runs' = runs /\ pc' = "down"
    BY <1>10 DEF Crash, Goto, TypeInv, PlainTypes
  <2>2. \A o \in Outcome : ~Invoke(o)
    BY <1>10, <2>1 DEF Crash, Goto, Invoke
  <2> HIDE DEF before, runs
  <2> QED BY <1>3, <1>4, <1>6, <2>1, <2>2
<1>11. CASE UNCHANGED vars
  <2>1. runs' = runs /\ pc' = pc /\ i' = i
    BY <1>11 DEF vars, driver
  <2>2. before' = before
    BY <2>1
  <2>3. \A o \in Outcome : ~Invoke(o)
    BY <1>11 DEF vars, driver, Invoke, Goto
  <2> HIDE DEF before, runs
  <2> QED BY <1>4, <1>6, <2>1, <2>2, <2>3
<1> QED
  <2> HIDE DEF before, runs
  <2> QED BY <1>6, <1>7, <1>8, <1>9, <1>10, <1>11, Steps

\* No process is started, killed or hindered beyond the bounds, and what is
\* recorded or drawn belongs to a call.
LEMMA CountStep == TypeInv /\ EndInv /\ CountInv /\ [Next]_vars => CountInv'
<1> SUFFICES ASSUME TypeInv, EndInv, CountInv, [Next]_vars PROVE CountInv'
  OBVIOUS
<1>1. /\ AllCalls \in Nat /\ AllCalls' \in Nat /\ AllCalls' >= AllCalls
      /\ \A o \in Outcome : Invoke(o) => AllCalls' = AllCalls + 1
  BY CallsStep
<1>2. /\ count.runs \in Nat /\ count.crash \in Nat /\ count.session \in Nat
      /\ mem.iteration \in Nat /\ Loaded.iteration \in Nat
      /\ count.session <= AllCalls /\ mem.iteration <= AllCalls /\ Loaded.iteration <= AllCalls
      /\ count.runs <= MaxRuns /\ count.crash <= MaxCrash /\ MaxRuns \in Nat /\ MaxCrash \in Nat
  BY LoadedType, BoundAssumption DEF TypeInv, PlainTypes, CountInv, State
<1>3. count'.runs <= MaxRuns /\ count'.crash <= MaxCrash
  <2>1. CASE Launch
    BY <1>2, <2>1 DEF Launch, TypeInv, PlainTypes
  <2>2. ASSUME NEW o \in Outcome, Invoke(o) PROVE UNCHANGED <<count.runs, count.crash>>
    <3>1. count' = [count EXCEPT !.session = IF sid' = sid THEN count.session ELSE sid']
      BY <2>2, InvokeType
    <3> QED BY <3>1 DEF TypeInv, PlainTypes
  <2>3. CASE Between
    <3>1. \/ UNCHANGED count
          \/ count.crash < MaxCrash /\ count' = [count EXCEPT !.crash = @ + 1]
      BY <2>3 DEF Between, Preflight, SaveOpen, SaveWrite, SaveFails, Rotate,
           ExceedBudget, TimedOut, Errored,
       Stagnate, Progress, Complete, NextIteration
    <3> QED BY <1>2, <3>1 DEF TypeInv, PlainTypes
  <2>4. CASE Crash
    BY <1>2, <2>4 DEF Crash, TypeInv, PlainTypes
  <2>5. CASE UNCHANGED vars
    BY <1>2, <2>5 DEF vars, driver
  <2> QED BY <1>2, <2>1, <2>2, <2>3, <2>4, <2>5, Steps
<1>4. count'.session <= AllCalls' /\ mem'.iteration <= AllCalls'
  <2>1. CASE Launch
    BY <1>1, <1>2, <2>1, LaunchType DEF Launch, TypeInv, PlainTypes
  <2>2. ASSUME NEW o \in Outcome, Invoke(o)
        PROVE  count'.session <= AllCalls' /\ mem'.iteration <= AllCalls'
    <3>1. AllCalls' = AllCalls + 1
      BY <1>1, <2>2
    <3>2. mem'.iteration = mem.iteration + 1
      BY <2>2, InvokeType
    <3>3. count'.session \in {count.session, count.session + 1}
      <4>1. count' = [count EXCEPT !.session = IF sid' = sid THEN count.session ELSE sid']
        BY <2>2, InvokeType
      <4>2. sid' = sid \/ sid' = count.session + 1
        BY <2>2, InvokeType
      <4> QED BY <4>1, <4>2 DEF TypeInv, PlainTypes
    <3> QED BY <1>1, <1>2, <3>1, <3>2, <3>3
  <2>3. CASE Between
    <3>1. count'.session = count.session
      BY <2>3 DEF TypeInv, PlainTypes, Between, Preflight, SaveOpen, SaveWrite,
           SaveFails, Rotate, ExceedBudget, TimedOut, Errored,
       Stagnate, Progress, Complete, NextIteration
    <3> QED BY <1>1, <1>2, <2>3, <3>1, BetweenStep
  <2>4. CASE Crash
    BY <1>1, <1>2, <2>4, FreshType DEF Crash, TypeInv, PlainTypes
  <2>5. CASE UNCHANGED vars
    BY <1>1, <1>2, <2>5 DEF vars, driver
  <2> QED BY <2>1, <2>2, <2>3, <2>4, <2>5, Steps
<1>5. Loaded'.iteration <= AllCalls'
  BY <1>1, <1>2, LoadedStep, FreshType
<1> QED BY <1>3, <1>4, <1>5, RejectionStep DEF CountInv

\* Between two calls no session is drawn; a run ends with what it has just saved,
\* or before it has called the CLI at all; and it does not go on with a session
\* without having looked at it.
LEMMA BetweenEnds ==
    TypeInv /\ EndInv /\ Between =>
        /\ count'.session = count.session
        /\ count'.crash = 0 => count.crash = 0
        /\ pc' \notin {"down", "preflight"}
        /\ pc' = "over" =>
              \/ pc = "preflight" /\ UNCHANGED disk
              \/ pc = "saving" /\ disk' = mem /\ end # "none"
              \/ count'.crash # 0
        /\ Looked' => Looked \/ Leaves \/ (~ShouldRotate /\ Stays)
<1> DEFINE Goal ==
        /\ count'.session = count.session
        /\ count'.crash = 0 => count.crash = 0
        /\ pc' \notin {"down", "preflight"}
        /\ pc' = "over" =>
              \/ pc = "preflight" /\ UNCHANGED disk
              \/ pc = "saving" /\ disk' = mem /\ end # "none"
              \/ count'.crash # 0
        /\ Looked' => Looked \/ Leaves \/ (~ShouldRotate /\ Stays)
<1> SUFFICES ASSUME TypeInv, EndInv, Between PROVE Goal
  OBVIOUS
<1>0. count \in [runs : Nat, crash : Nat, session : Nat]
  BY DEF TypeInv, PlainTypes
<1>1. CASE Preflight
  BY <1>0, BetweenStep, <1>1 DEF Preflight, Goto, history, Looked, driver
<1>2. CASE SaveOpen
  BY <1>0, BetweenStep, <1>2 DEF SaveOpen, Goto, history, Looked, driver
<1>3. CASE SaveWrite
  BY <1>0, BetweenStep, <1>3 DEF SaveWrite, Goto, Looked, driver
<1>4. CASE SaveFails
  BY <1>0, BetweenStep, <1>4 DEF SaveFails, Goto, history, Looked, driver
<1>5. CASE Rotate
  <2>1. CASE ShouldRotate /\ ClearSession
    <3>1. mem'.last = NoSession
      BY <2>1 DEF ClearSession, TypeInv, State
    <3>2. Leaves
      BY <2>1, <3>1 DEF ClearSession, Leaves
    <3> QED BY <1>5, <3>2 DEF Rotate, Goto
  <2>2. CASE ~ShouldRotate /\ UNCHANGED <<sid, mem, cleared>>
    BY <1>5, <2>2 DEF Rotate, Goto, Stays
  <2> QED BY <1>5, <2>1, <2>2 DEF Rotate
<1>6. CASE ExceedBudget
  BY <1>0, BetweenStep, <1>6 DEF ExceedBudget, Finish, history, Goto, Looked, driver
<1>7. CASE TimedOut
  BY <1>0, BetweenStep, <1>7 DEF TimedOut, FallsBack, FallBack, Goto, ClearSession, Looked, driver
<1>8. CASE Errored
  BY <1>0, BetweenStep, <1>8 DEF Errored, Recover, ClearSession, Goto, Looked, driver
<1>9. CASE Stagnate
  BY <1>0, BetweenStep, <1>9 DEF Stagnate, Recover, ClearSession, Goto, Finish, Looked,
       driver
<1>10. CASE Progress
  BY <1>0, BetweenStep, <1>10 DEF Progress, Recover, Forgive, Goto, Looked, driver
<1>11. CASE Complete
  BY <1>0, BetweenStep, <1>11 DEF Complete, Recover, Forgive, Finish, Goto, Looked, driver
<1>12. CASE NextIteration
  BY <1>0, BetweenStep, <1>12 DEF NextIteration, Goto, Finish, history, Looked, driver
<1> QED BY <1>1, <1>2, <1>3, <1>4, <1>5, <1>6, <1>7, <1>8, <1>9, <1>10, <1>11, <1>12 DEF
     Between

\* A session that was left is not resumed, for all that is known of it: the step.
LEMMA SessionStep ==
    TypeInv /\ EndInv /\ CountInv /\ SessionInv /\ [Next]_vars => SessionInv'
<1> SUFFICES ASSUME TypeInv, EndInv, CountInv, SessionInv, [Next]_vars PROVE SessionInv'
  OBVIOUS
<1>1. /\ count.session \in Nat /\ count.crash \in Nat /\ NoSession \notin Nat
      /\ cleared \subseteq Nat /\ cleared \subseteq Session
      /\ sid \in Nat \cup {NoSession} /\ Loaded.last \in Nat \cup {NoSession}
      /\ Fresh.last = NoSession
  BY LoadedType, FreshType, DataAssumption
     DEF TypeInv, PlainTypes, Session, SessionOrNone, State
<1>2. /\ sid = mem.last
      /\ \A s \in cleared \cup {sid, Loaded.last} : s # NoSession => s <= count.session
      /\ count.crash = 0 =>
           /\ sid \notin cleared
           /\ pc \in {"down", "over", "preflight"} => Loaded.last \notin cleared
  BY DEF SessionInv
<1>3. Loaded' \in {Loaded, Fresh, mem} /\ (UNCHANGED disk => Loaded' = Loaded)
  BY LoadedStep, LoadedSaved
<1>4. CASE Launch
  <2>1. /\ mem'.last = Loaded.last /\ sid' = Loaded.last /\ UNCHANGED <<disk, cleared>>
        /\ count'.session = count.session /\ count'.crash = count.crash
        /\ pc \in {"down", "over"}
    BY <1>4, LaunchType DEF Launch, TypeInv, PlainTypes
  <2> QED BY <1>1, <1>2, <1>3, <2>1 DEF SessionInv
<1>5. ASSUME NEW o \in Outcome, Invoke(o) PROVE SessionInv'
  <2>1. /\ mem'.last = (IF sid' # NoSession THEN sid' ELSE mem.last)
        /\ sid' = sid \/ (sid = NoSession /\ sid' = count.session + 1)
        /\ count' = [count EXCEPT !.session = IF sid' = sid THEN count.session ELSE sid']
    BY <1>5, InvokeType
  <2>2. /\ count'.session = (IF sid' = sid THEN count.session ELSE sid')
        /\ count'.crash = count.crash
    BY <2>1 DEF TypeInv, PlainTypes
  <2>3. UNCHANGED <<disk, cleared>> /\ pc' = "save"
    BY <1>5 DEF Invoke, Goto
  <2>4. Loaded' = Loaded
    BY <1>3, <2>3
  <2> QED BY <1>1, <1>2, <2>1, <2>2, <2>3, <2>4 DEF SessionInv
<1>6. CASE Between
  <2>1. /\ count'.session = count.session
        /\ count'.crash = 0 => count.crash = 0
        /\ pc' \notin {"down", "preflight"}
        /\ pc' = "over" =>
              \/ pc = "preflight" /\ UNCHANGED disk
              \/ pc = "saving" /\ disk' = mem /\ end # "none"
              \/ count'.crash # 0
    BY <1>6, BetweenEnds
  <2>2. Leaves \/ Stays
    BY <1>6, BetweenStep
  <2>3. disk' = mem => Loaded' = mem
    BY LoadedSaved DEF TypeInv
  <2>4. sid' = mem'.last
    BY <1>2, <2>2 DEF Leaves, Stays
  <2>5. \A s \in cleared' \cup {sid', Loaded'.last} : s # NoSession => s <= count'.session
    BY <1>1, <1>2, <1>3, <2>1, <2>2 DEF Leaves, Stays
  <2>6. ASSUME count'.crash = 0
        PROVE  /\ sid' \notin cleared'
               /\ pc' \in {"down", "over", "preflight"} => Loaded'.last \notin cleared'
    <3>1. sid' \notin cleared'
      BY <1>1, <1>2, <2>1, <2>2, <2>6 DEF Leaves, Stays
    <3>2. ASSUME pc' = "over" PROVE Loaded'.last \notin cleared'
      <4>1. cleared' = cleared
        BY <1>6, <2>1, <2>6, <3>2 DEF Between, Goto, Finish, Recover, FallBack,
             ClearSession, history, Preflight, SaveOpen, SaveWrite,
       SaveFails, Rotate, ExceedBudget, TimedOut, Errored, Stagnate, Progress, Complete,
       NextIteration
      <4> QED BY <1>2, <1>3, <2>1, <2>3, <2>6, <3>2, <4>1
    <3> QED BY <2>1, <3>1, <3>2
  <2> QED BY <2>4, <2>5, <2>6 DEF SessionInv
<1>7. CASE Crash
  <2>1. /\ mem' = Fresh /\ sid' = NoSession /\ UNCHANGED <<disk, cleared>>
        /\ count'.session = count.session /\ count'.crash = count.crash + 1
    BY <1>7 DEF Crash, TypeInv, PlainTypes
  <2> QED BY <1>1, <1>2, <1>3, <2>1 DEF SessionInv
<1>8. CASE UNCHANGED vars
  <2>1. UNCHANGED <<disk, mem, sid, cleared, count, pc>>
    BY <1>8 DEF vars, driver, history
  <2> QED BY <1>2, <1>3, <2>1 DEF SessionInv
<1> QED BY <1>4, <1>5, <1>6, <1>7, <1>8, Steps

\* A session that has used up its turns is not resumed either: the step.
LEMMA RotationStep ==
    TypeInv /\ EndInv /\ CountInv /\ SessionInv /\ RotationInv /\ [Next]_vars => RotationInv'
<1> SUFFICES ASSUME TypeInv, EndInv, CountInv, SessionInv, RotationInv, [Next]_vars,
                    count'.crash = 0
             PROVE  /\ Looked' => ~Spent(mem')
                    /\ pc' \in {"down", "over", "preflight"} => ~Spent(Loaded')
  BY DEF RotationInv, Spent
<1> DEFINE Goal == /\ Looked' => ~Spent(mem')
                   /\ pc' \in {"down", "over", "preflight"} => ~Spent(Loaded')
<1>1. /\ count.crash \in Nat /\ ~Spent(Fresh) /\ sid = mem.last
      /\ count.crash = 0 =>
          /\ Looked => ~Spent(mem)
          /\ pc \in {"down", "over", "preflight"} => ~Spent(Loaded)
  BY FreshType DEF TypeInv, PlainTypes, RotationInv, SessionInv, Spent
<1>2. UNCHANGED disk => Loaded' = Loaded
  BY LoadedSaved
<1>3. CASE Launch
  <2>1. /\ mem'.cycles = Loaded.cycles /\ mem'.last = Loaded.last /\ UNCHANGED disk
        /\ count'.crash = count.crash /\ pc \in {"down", "over"}
    BY <1>3, LaunchType DEF Launch, TypeInv, PlainTypes
  <2> QED BY <1>1, <1>2, <2>1 DEF Spent
<1>4. ASSUME NEW o \in Outcome, Invoke(o) PROVE Goal
  <2>1. pc' = "save" /\ end' = end /\ end = "none"
    BY <1>4 DEF Invoke, Goto, EndInv
  <2> QED BY <2>1 DEF Looked
<1>5. CASE Between
  <2>1. /\ count.crash = 0
        /\ pc' \notin {"down", "preflight"}
        /\ pc' = "over" =>
              \/ pc = "preflight" /\ UNCHANGED disk
              \/ pc = "saving" /\ disk' = mem /\ end # "none"
        /\ Looked' => Looked \/ Leaves \/ (~ShouldRotate /\ Stays)
    BY <1>5, BetweenEnds
  <2>2. mem'.cycles = mem.cycles /\ (Leaves \/ Stays)
    BY <1>5, BetweenStep
  <2>3. disk' = mem => Loaded' = mem
    BY LoadedSaved DEF TypeInv
  <2>4. ASSUME Looked' PROVE ~Spent(mem')
    <3>1. CASE Leaves
      BY <3>1 DEF Leaves, Spent
    <3>2. CASE Looked /\ Stays
      BY <1>1, <2>1, <2>2, <3>2 DEF Stays, Spent
    <3>3. CASE ~ShouldRotate /\ Stays
      BY <1>1, <2>2, <3>3 DEF Stays, Spent, ShouldRotate
    <3> QED BY <2>1, <2>2, <2>4, <3>1, <3>2, <3>3
  <2>5. ASSUME pc' = "over" PROVE ~Spent(Loaded')
    BY <1>1, <1>2, <2>1, <2>3, <2>5 DEF Looked
  <2> QED BY <2>1, <2>4, <2>5
<1>6. CASE Crash
  BY <1>1, <1>6 DEF Crash, TypeInv, PlainTypes
<1>7. CASE UNCHANGED vars
  <2>1. UNCHANGED <<disk, mem, end, count, pc>>
    BY <1>7 DEF vars, driver
  <2> QED BY <1>1, <1>2, <2>1 DEF Looked, Spent
<1> QED BY <1>3, <1>4, <1>5, <1>6, <1>7, Steps

\* The budget is asked for in every iteration that does not end the run.
LEMMA BudgetStep == TypeInv /\ EndInv /\ BudgetInv /\ [Next]_vars => BudgetInv'
<1> SUFFICES ASSUME TypeInv, EndInv, BudgetInv, [Next]_vars PROVE BudgetInv'
  OBVIOUS
<1>1. CASE Launch
  BY <1>1 DEF Launch, Goto, BudgetInv
<1>2. ASSUME NEW o \in Outcome, Invoke(o) PROVE BudgetInv'
  BY <1>2 DEF Invoke, Goto, BudgetInv
<1>3. CASE Between
  <2>1. OverTotal' = OverTotal
    BY <1>3, BetweenStep DEF OverTotal
  <2>2. /\ pc' = "next" => ~OverBudget
        /\ pc' = "invoke" => (pc = "preflight" /\ i' = i) \/ pc = "next"
    BY <1>3 DEF Between, Goto, Finish, Recover, FallBack, ClearSession, history,
         Preflight, SaveOpen, SaveWrite,
       SaveFails, Rotate, ExceedBudget, TimedOut, Errored, Stagnate, Progress, Complete,
       NextIteration
  <2>3. pc = "preflight" => i = 1
    BY DEF EndInv
  <2> QED BY <2>1, <2>2, <2>3 DEF BudgetInv, OverBudget
<1>4. CASE Crash
  BY <1>4 DEF Crash, Goto, BudgetInv
<1>5. CASE UNCHANGED vars
  BY <1>5 DEF vars, driver, BudgetInv, OverTotal
<1> QED BY <1>1, <1>2, <1>3, <1>4, <1>5, Steps

\* Between two calls the last outcome stays what it is until it is judged.
LEMMA BetweenOut ==
    TypeInv /\ EndInv /\ Between => silent' = silent /\ (Unjudged' => Unjudged /\ out' = out)
<1> DEFINE Goal == silent' = silent /\ (Unjudged' => Unjudged /\ out' = out)
<1> SUFFICES ASSUME TypeInv, EndInv, Between PROVE Goal
  OBVIOUS
<1>0. pc \in {"down", "preflight", "invoke", "rotate", "judge", "next"} => end = "none"
  BY DEF EndInv
<1>1. CASE Preflight
  BY <1>0, <1>1 DEF Preflight, Goto, history, Unjudged, driver
<1>2. CASE SaveOpen
  BY <1>0, <1>2 DEF SaveOpen, Goto, history, Unjudged, driver
<1>3. CASE SaveWrite
  BY <1>0, <1>3 DEF SaveWrite, Goto, Unjudged, driver
<1>4. CASE SaveFails
  BY <1>0, <1>4 DEF SaveFails, Goto, history, Unjudged, driver
<1>5. CASE Rotate
  BY <1>0, <1>5 DEF Rotate, ClearSession, Goto, Unjudged, driver
<1>6. CASE ExceedBudget
  BY <1>0, <1>6 DEF ExceedBudget, Finish, history, Goto, Unjudged, driver
<1>7. CASE TimedOut
  BY <1>0, <1>7 DEF TimedOut, FallsBack, FallBack, Goto, ClearSession, Unjudged, driver
<1>8. CASE Errored
  BY <1>0, <1>8 DEF Errored, Recover, ClearSession, Goto, Unjudged, driver
<1>9. CASE Stagnate
  BY <1>0, <1>9 DEF Stagnate, Recover, ClearSession, Goto, Finish, Unjudged, driver
<1>10. CASE Progress
  BY <1>0, <1>10 DEF Progress, Recover, Forgive, Goto, Unjudged, driver
<1>11. CASE Complete
  BY <1>0, <1>11 DEF Complete, Recover, Forgive, Finish, Goto, Unjudged, driver
<1>12. CASE NextIteration
  BY <1>0, <1>12 DEF NextIteration, Goto, Finish, history, Unjudged, driver
<1> QED BY <1>1, <1>2, <1>3, <1>4, <1>5, <1>6, <1>7, <1>8, <1>9, <1>10, <1>11, <1>12 DEF
     Between

\* What is recorded of the last call is what the driver judges.
LEMMA OutStep == TypeInv /\ EndInv /\ CountInv /\ OutInv /\ [Next]_vars => OutInv'
<1> SUFFICES ASSUME TypeInv, EndInv, CountInv, OutInv, [Next]_vars PROVE OutInv'
  OBVIOUS
<1>1. mem.cycles \in Seq(Cycle) /\ Len(mem.cycles) \in Nat
  BY DEF TypeInv, State
<1>2. CASE Launch
  <2>1. mem' \in State
    BY <1>2, LaunchType
  <2> QED BY <1>2, <2>1 DEF Launch, Goto, OutInv, Unjudged
<1>3. ASSUME NEW o \in Outcome, Invoke(o) PROVE OutInv'
  <2>1. PICK c \in Cycle : mem'.cycles = Append(mem.cycles, c) /\ c.turns = o.turns /\ c.error = o.error
    BY <1>3, InvokeType
  <2> DEFINE n == Len(mem.cycles)
  <2>2. Len(mem'.cycles) = n + 1 /\ mem'.cycles[n + 1] = c
    BY <1>1, <2>1
  <2>3. out' = o /\ silent' = IF o.result THEN silent ELSE silent \cup {n + 1}
    BY <1>3 DEF Invoke
  <2>4. silent \subseteq 1 .. n
    BY DEF OutInv
  <2> HIDE DEF n
  <2>5. n \in Nat
    BY <1>1 DEF n
  <2>6. silent' \subseteq 1 .. n + 1 /\ (n + 1 \in silent' <=> ~o.result)
    BY <2>3, <2>4, <2>5
  <2> QED BY <2>1, <2>2, <2>3, <2>5, <2>6 DEF OutInv
<1>4. CASE Between
  BY <1>4, BetweenStep, BetweenOut DEF OutInv
<1>5. CASE Crash
  BY <1>5, FreshType DEF Crash, Goto, OutInv, Unjudged
<1>6. CASE UNCHANGED vars
  BY <1>6 DEF vars, driver, history, OutInv, Unjudged
<1> QED BY <1>2, <1>3, <1>4, <1>5, <1>6, Steps

\* The limits of the time-outs are positive numbers.
LEMMA Limits ==
    /\ FallbackAfter \in Nat \ {0}
    /\ \A mo \in Model : TimeoutLimit[mo] \in Nat \ {0}
    /\ Primary \in Model /\ Secondary \in Model /\ Primary # Secondary
BY LimitAssumption, ModelAssumption DEF Model

\* Between two calls the time-outs that are allowed for do not become fewer than
\* the silent cycles, unless the last cycle is not silent.
LEMMA BetweenSilence ==
    TypeInv /\ EndInv /\ OutInv /\ TimeInv /\ Between =>
        /\ Silence' \in Nat
        /\ Silence' >= Silence \/ Len(mem.cycles) \notin silent
        /\ model' = Primary => timeouts' < FallbackAfter
        /\ IF end' = "timeouts" THEN timeouts' <= TimeoutLimit[model']
                                ELSE timeouts' < TimeoutLimit[model']
<1> DEFINE Goal ==
        /\ Silence' \in Nat
        /\ Silence' >= Silence \/ Len(mem.cycles) \notin silent
        /\ model' = Primary => timeouts' < FallbackAfter
        /\ IF end' = "timeouts" THEN timeouts' <= TimeoutLimit[model']
                                ELSE timeouts' < TimeoutLimit[model']
<1> SUFFICES ASSUME TypeInv, EndInv, OutInv, TimeInv, Between PROVE Goal
  OBVIOUS
<1>0. /\ timeouts \in Nat /\ configured \in Model /\ model \in {configured, Secondary}
      /\ configured' = configured
      /\ pc \in {"down", "preflight", "invoke", "rotate", "judge", "next"} => end = "none"
      /\ model = Primary => timeouts < FallbackAfter
      /\ IF end = "timeouts" THEN timeouts <= TimeoutLimit[model]
                             ELSE timeouts < TimeoutLimit[model]
      /\ Unjudged => (Len(mem.cycles) \in silent <=> ~out.result)
  <2>1. configured' = configured
    BY DEF Between, Preflight, SaveOpen, SaveWrite, SaveFails, Rotate, ExceedBudget, TimedOut,
       Errored, Stagnate, Progress, Complete, NextIteration
  <2> QED BY <2>1 DEF TypeInv, PlainTypes, EndInv, TimeInv, OutInv
<1>1. CASE Preflight
  BY <1>0, Limits, <1>1 DEF Preflight, Goto, history, Silence, Unjudged, Model, driver
<1>2. CASE SaveOpen
  BY <1>0, Limits, <1>2 DEF SaveOpen, Goto, history, Silence, Unjudged, Model, driver
<1>3. CASE SaveWrite
  BY <1>0, Limits, <1>3 DEF SaveWrite, Goto, Silence, Unjudged, Model, driver
<1>4. CASE SaveFails
  BY <1>0, Limits, <1>4 DEF SaveFails, Goto, history, Silence, Unjudged, Model, driver
<1>5. CASE Rotate
  BY <1>0, Limits, <1>5 DEF Rotate, ClearSession, Goto, Silence, Unjudged, Model, driver
<1>6. CASE ExceedBudget
  BY <1>0, Limits, <1>6 DEF ExceedBudget, Finish, history, Goto, Silence, Unjudged, Model,
     driver
<1>7. CASE TimedOut
  BY <1>0, Limits, <1>7 DEF TimedOut, FallsBack, FallBack, Goto, ClearSession, Silence, Unjudged,
       Model,
     driver
<1>8. CASE Errored
  BY <1>0, Limits, <1>8 DEF Errored, Recover, ClearSession, Goto, Silence, Unjudged, Model,
     driver
<1>9. CASE Stagnate
  BY <1>0, Limits, <1>9 DEF Stagnate, Recover, ClearSession, Goto, Finish, Silence,
       Unjudged,
     Model, driver
<1>10. CASE Progress
  BY <1>0, Limits, <1>10 DEF Progress, Recover, Forgive, Goto, Silence, Unjudged, Model,
       driver
<1>11. CASE Complete
  BY <1>0, Limits, <1>11 DEF Complete, Recover, Forgive, Finish, Goto, Silence,
       Unjudged, Model,
     driver
<1>12. CASE NextIteration
  BY <1>0, Limits, <1>12 DEF NextIteration, Goto, Finish, history, Silence, Unjudged, Model,
     driver
<1> QED BY <1>1, <1>2, <1>3, <1>4, <1>5, <1>6, <1>7, <1>8, <1>9, <1>10, <1>11, <1>12 DEF
     Between

\* Of as many cycles as there may have been time-outs one is not silent: the step.
LEMMA TimeStep == TypeInv /\ EndInv /\ CountInv /\ OutInv /\ TimeInv /\ [Next]_vars => TimeInv'
<1> SUFFICES ASSUME TypeInv, EndInv, CountInv, OutInv, TimeInv, [Next]_vars PROVE TimeInv'
  OBVIOUS
<1>1. /\ Len(mem.cycles) \in Nat /\ mem.cycles \in Seq(Cycle)
      /\ timeouts \in Nat /\ silent \subseteq 1 .. Len(mem.cycles)
  BY DEF TypeInv, PlainTypes, State, OutInv
<1>2. Silence \in Nat
  BY <1>1, Limits DEF Silence
<1>3. PICK j \in 0 .. Silence : Len(mem.cycles) - j \notin silent
  BY DEF TimeInv
<1>4. CASE Launch \/ Crash
  <2>1. /\ silent' = {} /\ timeouts' = 0 /\ end' = "none"
        /\ model' = configured' /\ configured' \in Model
        /\ pc' \in {"preflight", "down"}
    BY <1>4, Limits DEF Launch, Crash, Goto
  <2>2. Silence' = 0
    BY <2>1 DEF Silence, Unjudged
  <2>3. \E k \in 0 .. Silence' : Len(mem'.cycles) - k \notin silent'
    BY <2>1, <2>2
  <2>4. timeouts' < FallbackAfter /\ timeouts' < TimeoutLimit[model']
    BY <2>1, Limits
  <2> QED BY <2>1, <2>3, <2>4 DEF TimeInv
<1>5. ASSUME NEW o \in Outcome, Invoke(o) PROVE TimeInv'
  <2>1. PICK c \in Cycle : mem'.cycles = Append(mem.cycles, c)
    BY <1>5, InvokeType
  <2> DEFINE n == Len(mem.cycles)
  <2>2. Len(mem'.cycles) = n + 1
    BY <1>1, <2>1
  <2>3. /\ silent' = IF o.result THEN silent ELSE silent \cup {n + 1}
        /\ out' = o /\ pc = "invoke" /\ pc' = "save"
        /\ UNCHANGED <<end, timeouts, model, configured>>
    BY <1>5 DEF Invoke, Goto
  <2>4. end = "none"
    BY <2>3 DEF EndInv
  <2>5. Silence' = Silence + (IF o.result THEN 0 ELSE 1)
    BY <1>1, <2>3, <2>4, Limits DEF Silence, Unjudged
  <2>6. \E k \in 0 .. Silence' : n + 1 - k \notin silent'
    <3> HIDE DEF n
    <3>0. n \in Nat /\ silent \subseteq 1 .. n /\ n - j \notin silent
      BY <1>1, <1>3 DEF n
    <3>1. CASE o.result
      <4>1. n + 1 - 0 \notin silent' /\ 0 \in 0 .. Silence'
        BY <1>2, <2>3, <2>5, <3>0, <3>1
      <4> QED BY <4>1
    <3>2. CASE ~o.result
      <4>1. n + 1 - (j + 1) = n - j /\ n - j # n + 1 /\ j + 1 \in 0 .. Silence'
        BY <1>2, <1>3, <2>5, <3>0, <3>2
      <4>2. n + 1 - (j + 1) \notin silent'
        BY <2>3, <3>0, <3>2, <4>1
      <4> QED BY <4>1, <4>2
    <3> QED BY <3>1, <3>2
  <2> QED BY <2>2, <2>3, <2>6 DEF TimeInv
<1>6. CASE Between
  <2>1. /\ Silence' \in Nat
        /\ Silence' >= Silence \/ Len(mem.cycles) \notin silent
        /\ model' = Primary => timeouts' < FallbackAfter
        /\ IF end' = "timeouts" THEN timeouts' <= TimeoutLimit[model']
                                ELSE timeouts' < TimeoutLimit[model']
    BY <1>6, BetweenSilence
  <2>2. mem'.cycles = mem.cycles /\ silent' = silent
    BY <1>6, BetweenStep, BetweenOut
  <2>3. \E k \in 0 .. Silence' : Len(mem.cycles) - k \notin silent
    <3>1. CASE Silence' >= Silence
      BY <1>2, <1>3, <2>1, <3>1
    <3>2. CASE Len(mem.cycles) \notin silent
      <4>1. Len(mem.cycles) - 0 \notin silent /\ 0 \in 0 .. Silence'
        BY <1>1, <2>1, <3>2
      <4> QED BY <4>1
    <3> QED BY <2>1, <3>1, <3>2
  <2> QED BY <2>1, <2>2, <2>3 DEF TimeInv
<1>7. CASE UNCHANGED vars
  BY <1>7 DEF vars, driver, history, TimeInv, Silence, Unjudged
<1> QED BY <1>4, <1>5, <1>6, <1>7, Steps

\* A window of the history is stagnant, and a cycle excused, or not, for as long
\* as the history is the same.
LEMMA WindowStays ==
    ASSUME mem'.cycles = mem.cycles, silent' = silent
    PROVE  \A k : (StagnantAt(k)' <=> StagnantAt(k)) /\ (Excused(k)' <=> Excused(k))
BY DEF StagnantAt, Excused

\* The same when a cycle is appended: what was stagnant or excused remains so.
LEMMA WindowGrows ==
    ASSUME NEW c \in Cycle, TypeInv, mem'.cycles = Append(mem.cycles, c),
           silent \subseteq silent', NEW k \in 1 .. Len(mem.cycles)
    PROVE  (StagnantAt(k) => StagnantAt(k)') /\ (Excused(k) => Excused(k)')
<1>1. mem.cycles \in Seq(Cycle) /\ WindowSize \in Nat \ {0, 1}
  BY LimitAssumption DEF TypeInv, State
<1>2. mem'.cycles[k] = mem.cycles[k]
  BY <1>1
<1>3. ASSUME k >= WindowSize
      PROVE  SubSeq(mem'.cycles, k - WindowSize + 1, k) = SubSeq(mem.cycles, k - WindowSize + 1, k)
  <2>1. \A m \in k - WindowSize + 1 .. k : m \in 1 .. Len(mem.cycles)
    BY <1>1, <1>3
  <2>2. \A m \in k - WindowSize + 1 .. k : mem'.cycles[m] = mem.cycles[m]
    BY <1>1, <2>1
  <2> QED BY <1>1, <1>3, <2>1, <2>2
<1>4. StagnantAt(k) => StagnantAt(k)'
  BY <1>3 DEF StagnantAt
<1> QED BY <1>2, <1>4 DEF Excused

\* A strike is given for a stagnant window and kept by cycles that are excused.
LEMMA BetweenStrikes ==
    TypeInv /\ EndInv /\ OutInv /\ Between =>
        LET n == Len(mem.cycles) IN
        /\ Calls' >= Calls
        /\ reset' /\ ~reset => StagnantAt(n) /\ ~Unjudged' /\ Calls' > 0
        /\ reset' /\ reset /\ Unjudged /\ ~Unjudged' => Excused(n)
        /\ end' = "stagnation" =>
              \/ end = "stagnation" /\ i' = i
              \/ pc = "judge" /\ i' = i /\ reset /\ StagnantAt(n)
<1> DEFINE n == Len(mem.cycles)
           Goal ==
               /\ Calls' >= Calls
               /\ reset' /\ ~reset => StagnantAt(n) /\ ~Unjudged' /\ Calls' > 0
               /\ reset' /\ reset /\ Unjudged /\ ~Unjudged' => Excused(n)
               /\ end' = "stagnation" =>
                     \/ end = "stagnation" /\ i' = i
                     \/ pc = "judge" /\ i' = i /\ reset /\ StagnantAt(n)
<1> SUFFICES ASSUME TypeInv, EndInv, OutInv, Between PROVE Goal
  OBVIOUS
<1>0. /\ i \in Nat /\ (pc # "down" => i > 0)
      /\ pc \in {"down", "preflight", "invoke", "rotate", "judge", "next"} => end = "none"
  BY DEF TypeInv, PlainTypes, EndInv
<1>a. Stagnating => StagnantAt(n)
  BY DEF Stagnating, StagnantAt, Recent
<1>b. ASSUME Unjudged
      PROVE  /\ ~out.result => Excused(n)
             /\ out.error => Excused(n)
             /\ ~Productive => Excused(n)
  <2>1. /\ n \in silent <=> ~out.result
        /\ mem.cycles[n].turns = out.turns /\ mem.cycles[n].error = out.error
    BY <1>b DEF OutInv
  <2>2. out.turns \in Nat /\ LowTurns \in Nat
    <3>1. out \in Outcome
      BY DEF TypeInv, PlainTypes
    <3> QED BY <3>1, OutcomeType, DataAssumption, LimitAssumption
  <2>3. ~Productive => mem.cycles[n].turns <= LowTurns
    BY <2>1, <2>2 DEF Productive
  <2>4. out.error => mem.cycles[n].error
    BY <2>1
  <2> HIDE DEF n
  <2> QED BY <2>1, <2>3, <2>4 DEF Excused
<1>c. StagnantAt(n) => Excused(n)
  BY DEF Excused
<1>d. Forgive /\ reset' => reset /\ ~Productive
  BY Zenon DEF Forgive
<1> HIDE DEF n
<1>1. CASE Preflight
  BY <1>0, <1>a, <1>b, <1>c, <1>d, <1>1 DEF Preflight, Goto, history, Unjudged, Calls,
       driver
<1>2. CASE SaveOpen
  BY <1>0, <1>a, <1>b, <1>c, <1>d, <1>2 DEF SaveOpen, Goto, history, Unjudged, Calls, driver
<1>3. CASE SaveWrite
  BY <1>0, <1>a, <1>b, <1>c, <1>d, <1>3 DEF SaveWrite, Goto, Unjudged, Calls, driver
<1>4. CASE SaveFails
  BY <1>0, <1>a, <1>b, <1>c, <1>d, <1>4 DEF SaveFails, Goto, history, Unjudged, Calls,
       driver
<1>5. CASE Rotate
  BY <1>0, <1>a, <1>b, <1>c, <1>d, <1>5 DEF Rotate, ClearSession, Goto, Unjudged, Calls,
       driver
<1>6. CASE ExceedBudget
  BY <1>0, <1>a, <1>b, <1>c, <1>d, <1>6 DEF ExceedBudget, Finish, history, Goto, Unjudged,
     Calls, driver
<1>7. CASE TimedOut
  BY <1>0, <1>a, <1>b, <1>c, <1>d, <1>7 DEF TimedOut, FallsBack, FallBack, Goto, ClearSession,
       Unjudged,
     Calls, driver
<1>8. CASE Errored
  BY <1>0, <1>a, <1>b, <1>c, <1>d, <1>8 DEF Errored, Recover, ClearSession, Goto, Unjudged,
     Calls, driver
<1>9. CASE Stagnate
  BY <1>0, <1>a, <1>b, <1>c, <1>d, <1>9 DEF Stagnate, Recover, ClearSession, Goto, Finish,
     Unjudged, Calls, driver
<1>10. CASE Progress
  BY <1>0, <1>a, <1>b, <1>c, <1>d, <1>10 DEF Progress, Recover, Goto, Unjudged, Calls,
     driver
<1>11. CASE Complete
  BY <1>0, <1>a, <1>b, <1>c, <1>d, <1>11 DEF Complete, Recover, Finish, Goto, Unjudged,
     Calls, driver
<1>12. CASE NextIteration
  BY <1>0, <1>a, <1>b, <1>c, <1>d, <1>12 DEF NextIteration, Goto, Finish, history, Unjudged,
     Calls, driver
<1> QED BY <1>1, <1>2, <1>3, <1>4, <1>5, <1>6, <1>7, <1>8, <1>9, <1>10, <1>11, <1>12 DEF
     Between

\* The second strike comes after the first with nothing productive between: the
\* step.
LEMMA StrikeStep ==
    TypeInv /\ EndInv /\ CountInv /\ OutInv /\ StrikeInv /\ [Next]_vars => StrikeInv'
<1> SUFFICES ASSUME TypeInv, EndInv, CountInv, OutInv, StrikeInv, [Next]_vars PROVE StrikeInv'
  OBVIOUS
<1> DEFINE n == Len(mem.cycles)
<1>1. n \in Nat /\ mem.cycles \in Seq(Cycle) /\ i \in Nat /\ Calls \in Nat
  <2>1. i \in Nat /\ (pc \in {"preflight", "invoke"} => i > 0)
    BY DEF TypeInv, PlainTypes, EndInv
  <2> QED BY <2>1 DEF TypeInv, State, Calls
<1>2. reset =>
         \E k \in First .. Judged : StagnantAt(k) /\ \A m \in k + 1 .. Judged : Excused(m)
  BY DEF StrikeInv
<1>3. First = n - Calls + 1 /\ Judged = IF Unjudged THEN n - 1 ELSE n
  BY DEF First, Judged
<1>4. \A k : StagnantAt(k) => k >= WindowSize
  BY DEF StagnantAt
<1>5. CASE Launch \/ Crash
  BY <1>5 DEF Launch, Crash, StrikeInv, TwoStrikes
<1>6. ASSUME NEW o \in Outcome, Invoke(o) PROVE StrikeInv'
  <2>1. PICK c \in Cycle : mem'.cycles = Append(mem.cycles, c)
    BY <1>6, InvokeType
  <2>2. Len(mem'.cycles) = n + 1
    BY <1>1, <2>1
  <2>3. /\ pc = "invoke" /\ pc' = "save" /\ i' = i /\ reset' = reset /\ end' = end
        /\ end = "none" /\ silent \subseteq silent'
    BY <1>6 DEF Invoke, Goto, EndInv
  <2>4. Calls' = Calls + 1 /\ ~Unjudged /\ Unjudged'
    BY <1>1, <2>3 DEF Calls, Unjudged, TypeInv, PlainTypes
  <2>5. First' = First /\ Judged' = Judged /\ Judged = n
    BY <1>1, <1>3, <2>2, <2>4 DEF First, Judged
  <2>6. \A k \in 1 .. n : (StagnantAt(k) => StagnantAt(k)') /\ (Excused(k) => Excused(k)')
    BY <2>1, <2>3, WindowGrows
  <2>7. ASSUME reset
        PROVE  \E k \in First .. n : StagnantAt(k)' /\ \A m \in k + 1 .. n : Excused(m)'
    <3>1. PICK k \in First .. n : StagnantAt(k) /\ \A m \in k + 1 .. n : Excused(m)
      BY <1>2, <2>5, <2>7
    <3>2. k \in 1 .. n /\ \A m \in k + 1 .. n : m \in 1 .. n
      BY <1>1, <1>3, <1>4, <3>1, LimitAssumption, SMTT(30)
    <3> QED BY <2>6, <3>1, <3>2
  <2>8. TwoStrikes'
    BY <2>3 DEF TwoStrikes
  <2> QED BY <2>3, <2>5, <2>7, <2>8 DEF StrikeInv
<1>7. CASE Between
  <2>1. /\ Calls' >= Calls
        /\ reset' /\ ~reset => StagnantAt(n) /\ ~Unjudged' /\ Calls' > 0
        /\ reset' /\ reset /\ Unjudged /\ ~Unjudged' => Excused(n)
        /\ end' = "stagnation" =>
              \/ end = "stagnation" /\ i' = i
              \/ pc = "judge" /\ i' = i /\ reset /\ StagnantAt(n)
    BY <1>7, BetweenStrikes
  <2>2. mem'.cycles = mem.cycles /\ silent' = silent /\ (Unjudged' => Unjudged)
    BY <1>7, BetweenStep, BetweenOut
  <2>3. \A k : (StagnantAt(k)' <=> StagnantAt(k)) /\ (Excused(k)' <=> Excused(k))
    BY <2>2, WindowStays
  <2>4. Calls' \in Nat /\ First' = n - Calls' + 1 /\ Judged' = IF Unjudged' THEN n - 1 ELSE n
    <3>1. TypeInv' /\ EndInv'
      BY TypeStep, EndStep
    <3>2. i' \in Nat /\ (pc' \in {"preflight", "invoke"} => i' > 0)
      BY <3>1 DEF TypeInv, PlainTypes, EndInv
    <3>3. Calls' \in Nat
      <4>1. \A k \in Nat : k > 0 => k - 1 \in Nat
        OBVIOUS
      <4>2. Calls' = IF pc' \in {"preflight", "invoke"} THEN i' - 1 ELSE i'
        BY DEF Calls
      <4> QED BY <3>2, <4>1, <4>2
    <3>4. Len(mem'.cycles) = n
      BY <2>2
    <3> QED BY <3>3, <3>4 DEF First, Judged
  <2>5. ASSUME reset'
        PROVE  \E k \in First' .. Judged' :
                  StagnantAt(k)' /\ \A m \in k + 1 .. Judged' : Excused(m)'
    <3>1. CASE reset
      <4>1. PICK k \in First .. Judged : StagnantAt(k) /\ \A m \in k + 1 .. Judged : Excused(m)
        BY <1>2, <3>1
      <4>2. k \in First' .. Judged'
        BY <1>1, <1>3, <2>1, <2>2, <2>4
      <4>3. ASSUME NEW m \in k + 1 .. Judged' PROVE Excused(m)
        <5>1. CASE Judged' = Judged
          BY <4>1, <4>3, <5>1
        <5>2. CASE Judged' # Judged
          <6>1. Unjudged /\ ~Unjudged' /\ Excused(n) /\ Judged' = n /\ Judged = n - 1
            BY <1>3, <2>1, <2>2, <2>4, <2>5, <3>1, <5>2
          <6>2. m = n \/ m \in k + 1 .. Judged
            BY <1>1, <4>2, <4>3, <6>1
          <6> QED BY <4>1, <6>1, <6>2
        <5> QED BY <5>1, <5>2
      <4> QED BY <2>3, <4>1, <4>2, <4>3
    <3>2. CASE ~reset
      <4>1. StagnantAt(n)
        BY <2>1, <2>5, <3>2
      <4>2. ~Unjudged' /\ Calls' > 0
        BY <2>1, <2>5, <3>2
      <4>3. n \in First' .. Judged' /\ \A m \in n + 1 .. Judged' : FALSE
        BY <1>1, <2>4, <4>2
      <4> QED BY <2>3, <4>1, <4>3
    <3> QED BY <3>1, <3>2
  <2>6. TwoStrikes'
    <3>1. CASE end' # "stagnation"
      BY <3>1 DEF TwoStrikes
    <3>2. CASE end = "stagnation" /\ i' = i
      BY <2>2, <2>3, <3>2 DEF StrikeInv, TwoStrikes
    <3>3. CASE end' = "stagnation" /\ pc = "judge" /\ i' = i /\ reset /\ StagnantAt(n)
      <4>1. Unjudged /\ Calls = i
        BY <3>3 DEF EndInv, Unjudged, Calls
      <4>2. PICK k \in n - i + 1 .. n - 1 : StagnantAt(k) /\ \A m \in k + 1 .. n - 1 : Excused(m)
        BY <1>2, <1>3, <3>3, <4>1
      <4>3. \A m \in k + 1 .. n : Excused(m)
        <5>1. \A m \in k + 1 .. n : m = n \/ m \in k + 1 .. n - 1
          BY <1>1
        <5>2. Excused(n)
          BY <3>3 DEF Excused
        <5> QED BY <4>2, <5>1, <5>2
      <4>4. \A m \in k + 1 .. n : Excused(m)'
        BY <2>3, <4>3
      <4> QED BY <2>2, <2>3, <3>3, <4>2, <4>4 DEF TwoStrikes, Excused
    <3> QED BY <2>1, <3>1, <3>2, <3>3
  <2> QED BY <2>5, <2>6 DEF StrikeInv
<1>8. CASE UNCHANGED vars
  <2>1. /\ UNCHANGED <<mem, silent, reset, end, i, pc>>
    BY <1>8 DEF vars, driver, history
  <2>2. \A k : (StagnantAt(k)' <=> StagnantAt(k)) /\ (Excused(k)' <=> Excused(k))
    BY <2>1, WindowStays
  <2>3. First' = First /\ Judged' = Judged
    BY <2>1 DEF First, Judged, Calls, Unjudged
  <2>4. TwoStrikes'
    BY <2>1, <2>2 DEF StrikeInv, TwoStrikes
  <2> QED BY <1>2, <2>1, <2>2, <2>3, <2>4 DEF StrikeInv
<1> QED BY <1>5, <1>6, <1>7, <1>8, Steps

------------------------------------------------------------------------------

\* The inductive invariant
LoopInv ==
    /\ TypeInv /\ EndInv /\ CountInv
    /\ SessionInv /\ RotationInv /\ BudgetInv
    /\ OutInv /\ TimeInv /\ StrikeInv

\* Nothing has been recorded, left or counted at the beginning.
LEMMA LoopInit == Init => LoopInv
<1> SUFFICES ASSUME Init PROVE LoopInv
  OBVIOUS
<1>1. /\ Loaded = Fresh /\ Fresh \in State /\ Fresh.cycles = <<>> /\ Fresh.iteration = 0
      /\ Fresh.last = NoSession /\ Len(Fresh.cycles) = 0
  BY FreshType DEF Init, Loaded
<1>2. TypeInv /\ EndInv
  <2>1. PlainTypes
    <3>1. reset \in BOOLEAN /\ gated \in BOOLEAN
      BY DEF Init
    <3>2. count \in [runs : Nat, crash : Nat, session : Nat]
      BY DEF Init
    <3>3. /\ pc \in Location /\ i \in 0 .. MaxIterations
          /\ configured \in Model /\ model \in {configured, Secondary}
          /\ timeouts \in Nat /\ rejections \in Nat
          /\ out \in Outcome /\ end \in {"none"} \cup DOMAIN ExitCode
      BY OutcomeType, Limits, Products DEF Init, Location
    <3> QED BY <3>1, <3>2, <3>3 DEF PlainTypes
  <2> QED BY <1>1, <2>1 DEF Init, TypeInv, EndInv, SessionOrNone
<1>3. CountInv
  <2>1. AllCalls = 0
    BY Products DEF Init, AllCalls
  <2> QED BY <1>1, <2>1, LimitAssumption, BoundAssumption DEF Init, CountInv, GateInv
<1>4. SessionInv /\ RotationInv /\ BudgetInv
  BY <1>1 DEF Init, SessionInv, RotationInv, BudgetInv, Spent
<1>5. OutInv
  BY DEF Init, OutInv, Unjudged
<1>6. TimeInv
  <2>1. Silence = 0
    BY Limits DEF Init, Silence, Unjudged
  <2>2. \E j \in 0 .. Silence : Len(mem.cycles) - j \notin silent
    BY <2>1 DEF Init
  <2> QED BY <2>2, Limits DEF Init, TimeInv
<1>7. StrikeInv
  BY DEF Init, StrikeInv, TwoStrikes
<1> QED BY <1>2, <1>3, <1>4, <1>5, <1>6, <1>7 DEF LoopInv

\* All processes together make no more calls than the bounds allow.
LEMMA CallsBound ==
    TypeInv /\ EndInv /\ CountInv =>
        AllCalls \in Nat /\ MaxRuns * MaxIterations \in Nat /\ AllCalls <= MaxRuns * MaxIterations
<1> SUFFICES ASSUME TypeInv, EndInv, CountInv
             PROVE  /\ AllCalls \in Nat /\ MaxRuns * MaxIterations \in Nat
                    /\ AllCalls <= MaxRuns * MaxIterations
  OBVIOUS
<1> DEFINE runs == count.runs
           before == (runs - 1) * MaxIterations
<1>1. /\ runs \in Nat /\ runs <= MaxRuns /\ i \in 0 .. MaxIterations
      /\ pc # "down" => runs > 0 /\ i > 0
  BY DEF TypeInv, PlainTypes, EndInv, CountInv
<1>2. /\ runs * MaxIterations \in Nat /\ runs * MaxIterations <= MaxRuns * MaxIterations
      /\ MaxRuns * MaxIterations \in Nat
      /\ pc # "down" => before \in Nat /\ before + MaxIterations = runs * MaxIterations
  <2>1. runs > 0 => runs - 1 \in Nat /\ (runs - 1) + 1 = runs
    BY <1>1
  <2> QED BY <1>1, <2>1, Products
<1>3. AllCalls = IF pc = "down" THEN runs * MaxIterations ELSE before + Calls
  BY DEF AllCalls
<1> HIDE DEF before, runs
<1>4. pc # "down" => Calls \in 0 .. MaxIterations
  BY <1>1, Products DEF Calls
<1> QED BY <1>1, <1>2, <1>3, <1>4, Products

\* The invariant holds in every reachable state.
LEMMA LoopInvariant == Spec => []LoopInv
<1>1. LoopInv /\ [Next]_vars => LoopInv'
  BY TypeStep, EndStep, CountStep, SessionStep, RotationStep, BudgetStep, OutStep,
     TimeStep, StrikeStep DEF LoopInv
<1> QED BY <1>1, LoopInit, PTL DEF Spec

\* Every variable has its type, and the bounds hold: calls are counted across
\* restarts, so that every session has a number within them.
THEOREM TypeCorrect == Spec => []TypeOK
<1>1. LoopInv => TypeOK
  <2> SUFFICES ASSUME LoopInv PROVE TypeOK
    OBVIOUS
  <2>1. TypeInv /\ EndInv /\ CountInv
    BY DEF LoopInv
  <2>2. AllCalls <= MaxRuns * MaxIterations /\ AllCalls \in Nat /\ MaxRuns * MaxIterations \in Nat
    BY <2>1, CallsBound
  <2>3. \A st \in State : st.iteration <= AllCalls => IsState(st)
    BY <2>2 DEF State, IsState, SessionOrNone
  <2>4. mem \in State /\ Loaded \in State /\ mem.iteration <= AllCalls /\ Loaded.iteration <= AllCalls
    BY <2>1, LoadedType DEF TypeInv, CountInv
  <2>5. disk \in {Absent, Torn} \/ IsState(disk)
    BY <2>3, <2>4 DEF Loaded
  <2>6. rejections \in 0 .. MaxRejections
    BY <2>1, LimitAssumption DEF TypeInv, PlainTypes, CountInv, GateInv
  <2>7. count \in [runs : 0 .. MaxRuns, crash : 0 .. MaxCrash, session : Session \cup {0}]
    <3>1. count.session \in Session \cup {0}
      BY <2>1, <2>2 DEF TypeInv, PlainTypes, CountInv, Session
    <3>2. count.runs \in 0 .. MaxRuns /\ count.crash \in 0 .. MaxCrash
      BY <2>1, BoundAssumption DEF TypeInv, PlainTypes, CountInv
    <3> QED BY <2>1, <3>1, <3>2 DEF TypeInv, PlainTypes
  <2> QED BY <2>1, <2>3, <2>4, <2>5, <2>6, <2>7 DEF TypeInv, PlainTypes, TypeOK,
       SessionOrNone
<1> QED BY <1>1, LoopInvariant, PTL

\* A session the driver has left is not resumed by this run or a later one, unless
\* something was killed or not saved (clear_session, and the saves that follow it).
THEOREM LeftIsLeft == Spec => []ClearedNotResumed
<1>1. LoopInv => ClearedNotResumed
  BY DEF LoopInv, SessionInv, ClearedNotResumed
<1> QED BY <1>1, LoopInvariant, PTL

\* Nor is one that has used up its turns (_should_rotate_session).
THEOREM Rotated == Spec => []RotationHolds
<1>1. LoopInv => RotationHolds
  <2> SUFFICES ASSUME LoopInv PROVE RotationHolds
    OBVIOUS
  <2>1. RotationInv /\ sid = mem.last
    BY DEF LoopInv, SessionInv
  <2> QED BY <2>1 DEF RotationInv, Looked, Spent, RotationHolds
<1> QED BY <1>1, LoopInvariant, PTL

\* No iteration after the first begins on an exceeded budget, whichever way the
\* last one ended (check_budget comes before every other decision).
THEOREM WithinBudget == Spec => []BudgetHeld
<1>1. LoopInv => BudgetHeld
  BY DEF LoopInv, BudgetInv, BudgetHeld
<1> QED BY <1>1, LoopInvariant, PTL

\* Fallback and recovery do not let a run go on with silent calls for ever, whether
\* or not its model has a fallback (TimedOut, FallsBack, Recover).
THEOREM TimeoutsBounded == Spec => []TimeoutsEnd
<1>1. LoopInv => TimeoutsEnd
  <2> SUFFICES ASSUME LoopInv PROVE TimeoutsEnd
    OBVIOUS
  <2> DEFINE n == Len(mem.cycles)
             chance == (IF configured = Primary THEN FallbackAfter ELSE 0) + TimeoutLimit[Secondary]
  <2>1. TypeInv /\ TimeInv
    BY DEF LoopInv
  <2>2. /\ n \in Nat /\ timeouts \in Nat
        /\ configured \in {Primary, Secondary} /\ model \in {configured, Secondary}
    BY <2>1 DEF TypeInv, PlainTypes, State, Model
  <2>3. PICK j \in 0 .. Silence : n - j \notin silent
    BY <2>1 DEF TimeInv
  <2>4. /\ model = Primary => timeouts < FallbackAfter
        /\ IF end = "timeouts" THEN timeouts <= TimeoutLimit[model]
                               ELSE timeouts < TimeoutLimit[model]
    BY <2>1 DEF TimeInv
  <2>5. Silence \in Nat /\ Silence <= chance /\ chance \in Nat
    BY <2>2, <2>4, Limits, ModelAssumption DEF Silence, Unjudged, Model
  <2>6. n - j \in n - chance .. n
    BY <2>2, <2>3, <2>5
  <2> QED BY <2>3, <2>6 DEF TimeoutsEnd
<1> QED BY <1>1, LoopInvariant, PTL

\* A run that ends for stagnation has had its second chance, and no iteration
\* between the strikes was judged productive (_check_stagnation, the reset).
THEOREM SecondChance == Spec => []TwoStrikes
<1>1. LoopInv => TwoStrikes
  BY DEF LoopInv, StrikeInv
<1> QED BY <1>1, LoopInvariant, PTL
==============================================================================
