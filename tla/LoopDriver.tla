----------------------------- MODULE LoopDriver -----------------------------
(***************************************************************************)
(* LoopDriver.run of automated-loop/loop_driver.py with the StateTracker   *)
(* of state_tracker.py: the loop that runs the Claude CLI once per         *)
(* iteration, records the cycle in .workflow/state.json, and decides from  *)
(* the recorded history whether to rotate the session, retry, fall back to *)
(* another model, give up or finish.                                       *)
(*                                                                         *)
(* The state file outlives the process: a run may end or be killed at any  *)
(* point, also inside a save, and the next run continues from the file.    *)
(* Prompts, research, tracing, cool-downs and the optional test run        *)
(* (disabled by default) do not influence these decisions and are left     *)
(* out.                                                                    *)
(***************************************************************************)
EXTENDS Integers, Sequences, FiniteSets, SequencesExt

CONSTANTS
    Primary, Secondary,  \* a model with an entry in limits.model_fallback, and its fallback,
                         \* which has none: by default opus and sonnet
    NoSession,           \* None
    Turns,               \* turn counts of one iteration
    Costs,               \* costs of one iteration
    MaxIterations,       \* limits.max_iterations
    FallbackAfter,       \* limits.model_fallback_after_timeouts
    TimeoutLimit,        \* max_consecutive_timeouts, per model
    WindowSize,          \* stagnation.window_size
    LowTurns,            \* stagnation.low_turn_threshold
    SessionMaxTurns,     \* stagnation.session_max_turns
    SessionMaxCost,      \* stagnation.session_max_cost_usd
    ExhaustionWindow,    \* stagnation.context_exhaustion_window
    ExhaustionTurns,     \* stagnation.context_exhaustion_turn_threshold
    IterationBudget,     \* limits.max_per_iteration_budget_usd
    TotalBudget,         \* limits.max_total_budget_usd
    MaxRejections,       \* completion_gate.max_rejections
    MaxRuns,             \* bound: processes started
    MaxCrash             \* bound: processes killed and saves that fail, together

ASSUME ModelAssumption == Primary # Secondary
ASSUME LimitAssumption ==
    /\ {MaxIterations, FallbackAfter, MaxRejections, SessionMaxTurns} \subseteq Nat \ {0}
    /\ TimeoutLimit \in [{Primary, Secondary} -> Nat \ {0}]
    /\ WindowSize \in Nat \ {0, 1} /\ ExhaustionWindow \in Nat \ {0, 1}
    /\ {LowTurns, ExhaustionTurns, SessionMaxCost, IterationBudget, TotalBudget} \subseteq Nat
ASSUME DataAssumption ==
    /\ Turns \subseteq Nat /\ Costs \subseteq Nat /\ 0 \in Turns \cap Costs
    /\ NoSession \notin Nat
ASSUME BoundAssumption == {MaxRuns, MaxCrash} \subseteq Nat

VARIABLES
    disk,        \* state.json: a state, Absent, or Torn while it is written
    pc,          \* where the driver is; "down" when no process runs
    mem,         \* tracker.state
    i,           \* the iteration of this run
    sid,         \* session_id, passed to --resume
    configured,  \* the model the run was started with; _using_fallback is model # configured
    model,       \* config.claude.model
    timeouts,    \* _consecutive_timeouts
    rejections,  \* _gate_rejection_count
    reset,       \* _stagnation_reset_done
    gated,       \* _gate_existed_at_start
    out,         \* parsed, what the CLI's output said
    end,         \* why the run ended, or "none"
    count        \* processes started, kills and failed saves, session ids drawn

\* History variables, which no action reads
VARIABLES
    cleared,     \* sessions the driver has decided to leave
    silent,      \* cycles of this run that had no result event
    refused      \* iterations of this run whose completion was rejected, in a row

driver == <<pc, mem, i, sid, configured, model, timeouts, rejections, reset, gated, out, end>>
history == <<cleared, silent, refused>>
vars == <<disk, driver, count, history>>

Model == {Primary, Secondary}
Session == 1 .. MaxRuns * MaxIterations
Status == {"idle", "running", "completed", "failed"}

\* The Completion Gate in CLAUDE.md, which Claude and the user may change
Gate == {"none", "open", "checked"}

Cycle == [session : Session \cup {NoSession}, turns : Turns, cost : Costs, error : BOOLEAN]
Fresh == [iteration |-> 0, status |-> "idle", cycles |-> <<>>, last |-> NoSession]
Absent == [file |-> "absent"]
Torn == [file |-> "torn"]

\* What one call of the CLI leaves in its output.  Without a result event (a
\* time-out, a CLI that cannot start) there is no cost and no verdict, and no error
\* either: the parser never fills ParsedStream.errors.
Outcome ==
    [result : {FALSE}, named : BOOLEAN, error : {FALSE}, marker : {FALSE},
     turns : Turns, cost : {0}]
    \cup [result : {TRUE}, named : {TRUE}, error : BOOLEAN, marker : BOOLEAN,
          turns : Turns, cost : Costs]
NoOutcome == [result |-> FALSE, named |-> FALSE, error |-> FALSE, marker |-> FALSE,
              turns |-> 0, cost |-> 0]

\* The ways a run ends, and its exit code
ExitCode == [complete |-> 0, iterations |-> 1, budget |-> 2, timeouts |-> 3,
             stagnation |-> 3, gate |-> 3, preflight |-> 3]

Init ==
    /\ disk = Absent
    /\ pc = "down"
    /\ mem = Fresh
    /\ i = 0
    /\ sid = NoSession
    /\ configured = Primary /\ model = Primary
    /\ timeouts = 0
    /\ rejections = 0
    /\ reset = FALSE
    /\ gated = FALSE
    /\ out = NoOutcome
    /\ end = "none"
    /\ count = [runs |-> 0, crash |-> 0, session |-> 0]
    /\ cleared = {}
    /\ silent = {}
    /\ refused = 0

------------------------------------------------------------------------------
(* The tracker's sums and windows *)

SumOf(seq, Field(_)) == FoldLeft(LAMBDA n, c : n + Field(c), 0, seq)
TotalCost(cycles) == SumOf(cycles, LAMBDA c : c.cost)
Of(cycles, s) == SelectSeq(cycles, LAMBDA c : c.session = s)
SessionTurns(cycles, s) == SumOf(Of(cycles, s), LAMBDA c : c.turns)
SessionCost(cycles, s) == SumOf(Of(cycles, s), LAMBDA c : c.cost)
Recent(cycles, n) == SubSeq(cycles, Len(cycles) - n + 1, Len(cycles))
All(seq, Test(_)) == \A k \in DOMAIN seq : Test(seq[k])

\* _should_rotate_session: the turns, the cost, and a window of iterations that
\* got little done
UsedUp(cycles, s) == SessionTurns(cycles, s) >= SessionMaxTurns
Exhausted(cycles, s) ==
    /\ Len(cycles) >= ExhaustionWindow
    /\ Len(SelectSeq(Recent(cycles, ExhaustionWindow),
                     LAMBDA c : c.turns < ExhaustionTurns /\ c.session = s))
          >= ExhaustionWindow - 1
ShouldRotate ==
    /\ sid # NoSession
    /\ \/ UsedUp(mem.cycles, sid)
       \/ SessionCost(mem.cycles, sid) >= SessionMaxCost
       \/ Exhausted(mem.cycles, sid)

\* Mutant: only the iteration's cost is looked at
OverIterationBudget == mem.cycles[Len(mem.cycles)].cost > IterationBudget

\* check_budget
OverTotal == TotalCost(mem.cycles) > TotalBudget
OverBudget == mem.cycles[Len(mem.cycles)].cost > IterationBudget \/ OverTotal

\* _check_stagnation
Barren(seq) == All(seq, LAMBDA c : c.turns <= LowTurns) \/ All(seq, LAMBDA c : c.cost = 0)
Stagnating == Len(mem.cycles) >= WindowSize /\ Barren(Recent(mem.cycles, WindowSize))

\* _validate_completion_gate
GateValid(gate) == gate = "checked" \/ (gate = "none" /\ ~gated)

Productive == out.turns > LowTurns

------------------------------------------------------------------------------
(* Starting and ending a run *)

Goto(l) == pc' = l

\* load
Loaded == IF disk \in {Absent, Torn} THEN Fresh ELSE disk

\* A new process: __init__, load, start_session, validate_session_id
Launch ==
    /\ pc \in {"down", "over"}
    /\ count.runs < MaxRuns
    /\ count' = [count EXCEPT !.runs = @ + 1]
    /\ mem' = [Loaded EXCEPT !.status = "running"]
    /\ sid' = Loaded.last
    /\ gated' \in BOOLEAN
    /\ configured' \in Model /\ model' = configured'
    /\ i' = 1 /\ timeouts' = 0 /\ rejections' = 0
    /\ reset' = FALSE /\ out' = NoOutcome /\ end' = "none"
    /\ silent' = {} /\ refused' = 0
    /\ Goto("preflight")
    /\ UNCHANGED <<disk, cleared>>

\* A failed preflight returns without saving the state
Preflight ==
    /\ pc = "preflight"
    /\ \/ Goto("invoke") /\ UNCHANGED end
       \/ Goto("over") /\ end' = "preflight"
    /\ UNCHANGED <<disk, mem, i, sid, model, timeouts, rejections, reset, configured, gated,
                   out, count, history>>

\* Mutant: the run ends without the last save
FinishUnsaved(why) ==
    /\ end' = why
    /\ mem' = [mem EXCEPT !.status = IF why = "complete" THEN "completed" ELSE "failed"]
    /\ Goto("over")

\* tracker.fail or tracker.complete, then the last save
Finish(why) ==
    /\ end' = why
    /\ mem' = [mem EXCEPT !.status = IF why = "complete" THEN "completed" ELSE "failed"]
    /\ Goto("save")

------------------------------------------------------------------------------
(* One iteration *)

\* The CLI runs, resuming sid if there is one; Claude may edit CLAUDE.md.  The
\* stream names the session it resumed or a new one.  The cycle is recorded.
Invoke(o) ==
    LET s == IF ~o.named THEN sid
             ELSE IF sid # NoSession THEN sid ELSE count.session + 1 IN
    /\ pc = "invoke"
    /\ out' = o
    /\ sid' = s
    /\ count' = [count EXCEPT !.session = IF s \in {sid, NoSession} THEN @ ELSE s]
    /\ mem' = [mem EXCEPT !.iteration = @ + 1,
                          !.cycles = Append(@, [session |-> s, turns |-> o.turns,
                                                cost |-> o.cost, error |-> o.error]),
                          !.last = IF s # NoSession THEN s ELSE @]
    /\ silent' = IF o.result THEN silent ELSE silent \cup {Len(mem.cycles) + 1}
    /\ Goto("save")
    /\ UNCHANGED <<disk, i, model, timeouts, rejections, reset, configured, gated, end,
                   cleared, refused>>

\* tracker.save: write_text truncates the file, then writes it
SaveOpen ==
    /\ pc = "save"
    /\ disk' = Torn
    /\ Goto("saving")
    /\ UNCHANGED <<mem, i, sid, model, timeouts, rejections, reset, configured, gated, out,
                   end, count, history>>

SaveWrite ==
    /\ pc = "saving"
    /\ disk' = mem
    /\ Goto(IF end = "none" THEN "rotate" ELSE "over")
    /\ UNCHANGED <<mem, i, sid, model, timeouts, rejections, reset, configured, gated, out,
                   end, count, cleared, silent, refused>>

\* save catches the error (a full disk, a file in use) and returns a failed
\* Result, which run does not look at: it goes on as if the state were saved
SaveFails ==
    /\ pc \in {"save", "saving"}
    /\ count.crash < MaxCrash
    /\ count' = [count EXCEPT !.crash = @ + 1]
    /\ Goto(IF end = "none" THEN "rotate" ELSE "over")
    /\ UNCHANGED <<disk, mem, i, sid, model, timeouts, rejections, reset, configured, gated,
                   out, end, history>>

\* Mutant: only the driver's variable is cleared
ClearVariable ==
    /\ sid' = NoSession
    /\ cleared' = cleared \cup ({sid, mem.last} \ {NoSession})
    /\ UNCHANGED mem

\* tracker.clear_session and session_id = None: in memory, until the next save
ClearSession ==
    /\ sid' = NoSession
    /\ mem' = [mem EXCEPT !.last = NoSession]
    /\ cleared' = cleared \cup ({sid, mem.last} \ {NoSession})

\* Mutant: rotates until there is no need to, and leaves session_id as it is
RotateWhile ==
    /\ pc = "rotate"
    /\ \/ ShouldRotate /\ mem' = [mem EXCEPT !.last = NoSession] /\ Goto("save")
       \/ ~ShouldRotate /\ UNCHANGED mem /\ Goto("judge")
    /\ UNCHANGED <<disk, i, sid, model, timeouts, rejections, reset, configured, gated, out,
                   end, count, history>>

\* Proactive rotation: the next iteration starts a new session
Rotate ==
    /\ pc = "rotate"
    /\ \/ ShouldRotate /\ ClearSession
       \/ ~ShouldRotate /\ UNCHANGED <<sid, mem, cleared>>
    /\ Goto("judge")
    /\ UNCHANGED <<disk, i, model, timeouts, rejections, reset, configured, gated, out, end,
                   count, silent, refused>>

ExceedBudget ==
    /\ pc = "judge" /\ OverBudget
    /\ Finish("budget")
    /\ UNCHANGED <<disk, i, sid, model, timeouts, rejections, reset, configured, gated, out,
                   count, history>>

\* Mutant: the model stays what it was
FallBackInName ==
    /\ UNCHANGED <<model, end>>
    /\ timeouts' = 0
    /\ Goto("next")
    /\ ClearSession

\* The fallback applies to a model with an entry, which the fallback in use does not
\* look up: any other model's time-outs count on to its own limit
FallsBack(n) == n >= FallbackAfter /\ model = Primary

FallBack ==
    /\ model' = Secondary
    /\ timeouts' = 0
    /\ Goto("next")
    /\ ClearSession
    /\ UNCHANGED end

\* No result event: drop the session; fall back, give up or retry
TimedOut ==
    LET n == timeouts + 1 IN
    /\ pc = "judge" /\ ~OverBudget
    /\ ~out.result
    /\ \/ /\ FallsBack(n)
          /\ FallBack
       \/ /\ ~FallsBack(n)
          /\ n >= TimeoutLimit[model]
          /\ timeouts' = n
          /\ end' = "timeouts"
          /\ sid' = NoSession
          /\ mem' = [mem EXCEPT !.last = NoSession, !.status = "failed"]
          /\ cleared' = cleared \cup ({sid, mem.last} \ {NoSession})
          /\ Goto("save")
          /\ UNCHANGED model
       \/ /\ ~FallsBack(n)
          /\ n < TimeoutLimit[model]
          /\ timeouts' = n
          /\ ClearSession
          /\ Goto("next")
          /\ UNCHANGED <<model, end>>
    /\ refused' = 0
    /\ UNCHANGED <<disk, i, rejections, reset, configured, gated, out, count, silent>>

\* A result event resets the timeout count; a productive one brings the
\* configured model back
Recover ==
    /\ pc = "judge" /\ ~OverBudget /\ out.result
    /\ timeouts' = 0
    /\ model' = IF Productive THEN configured ELSE model

\* Claude reported an error: drop the session and go on, whatever the window says
Errored ==
    /\ Recover
    /\ out.error
    /\ ClearSession
    /\ refused' = 0
    /\ Goto("next")
    /\ UNCHANGED <<disk, i, rejections, reset, configured, gated, out, end, count, 
                   silent>>

\* The first strike resets the session, the second ends the run
Stagnate ==
    /\ Recover
    /\ ~out.error /\ Stagnating
    /\ \/ /\ ~reset /\ reset' = TRUE
          /\ ClearSession
          /\ Goto("next")
          /\ UNCHANGED end
       \/ /\ reset
          /\ Finish("stagnation")
          /\ UNCHANGED <<sid, reset, cleared>>
    /\ refused' = 0
    /\ UNCHANGED <<disk, i, rejections, configured, gated, out, count, silent>>

\* Mutant: a productive iteration does not take the first strike back
ForgiveNot == UNCHANGED reset

\* A productive iteration takes the first strike back
Forgive == reset' = (reset /\ ~Productive)

\* Progress without a completion marker: research, and the next prompt
Progress ==
    /\ Recover
    /\ ~out.error /\ ~Stagnating /\ ~out.marker
    /\ Forgive
    /\ refused' = 0
    /\ Goto("next")
    /\ UNCHANGED <<disk, mem, i, sid, rejections, configured, gated, out, end, count,
                   cleared, silent>>

\* A completion marker: rejected by the gate, or the end
Complete ==
    /\ Recover
    /\ ~out.error /\ ~Stagnating /\ out.marker
    /\ Forgive
    /\ \E gate \in Gate :
       \/ /\ GateValid(gate) /\ rejections' = 0
          /\ Finish("complete")
          /\ UNCHANGED refused
       \/ /\ ~GateValid(gate) /\ rejections' = rejections + 1 /\ refused' = refused + 1
          /\ \/ rejections + 1 >= MaxRejections /\ Finish("gate")
             \/ rejections + 1 < MaxRejections /\ Goto("next") /\ UNCHANGED <<mem, end>>
    /\ UNCHANGED <<disk, i, sid, configured, gated, out, count, cleared, silent>>

\* The next iteration, or the limit.  parsed is dead until the next call: out
\* is reset with the counter.
NextIteration ==
    /\ pc = "next"
    /\ \/ i < MaxIterations /\ i' = i + 1 /\ Goto("invoke") /\ UNCHANGED <<mem, end>>
       \/ i >= MaxIterations /\ Finish("iterations") /\ UNCHANGED i
    /\ out' = NoOutcome
    /\ UNCHANGED <<disk, sid, model, timeouts, rejections, reset, configured, gated,
                   count, history>>

\* The process is killed; what is in memory is lost
Crash ==
    /\ pc \notin {"down", "over"}
    /\ count.crash < MaxCrash
    /\ count' = [count EXCEPT !.crash = @ + 1]
    /\ Goto("down")
    /\ mem' = Fresh /\ i' = 0 /\ sid' = NoSession
    /\ configured' = Primary /\ model' = Primary
    /\ timeouts' = 0 /\ rejections' = 0 /\ reset' = FALSE /\ gated' = FALSE
    /\ out' = NoOutcome /\ end' = "none"
    /\ silent' = {} /\ refused' = 0
    /\ UNCHANGED <<disk, cleared>>

Iterate ==
    \/ Preflight \/ (\E o \in Outcome : Invoke(o)) \/ SaveOpen \/ SaveWrite \/ Rotate
    \/ ExceedBudget \/ TimedOut \/ Errored \/ Stagnate \/ Progress \/ Complete
    \/ NextIteration

Next == Launch \/ Iterate \/ SaveFails \/ Crash

Spec == Init /\ [][Next]_vars

\* A process that runs goes on running: the CLI is killed after its time-out
FairSpec == Spec /\ WF_vars(Iterate)

------------------------------------------------------------------------------

Running == pc \notin {"down", "over"}
Location == {"down", "over", "preflight", "invoke", "save", "saving", "rotate",
             "judge", "next"}

IsState(st) ==
    /\ st.iteration \in 0 .. MaxRuns * MaxIterations /\ st.status \in Status
    /\ \A k \in DOMAIN st.cycles : st.cycles[k] \in Cycle
    /\ st.last \in Session \cup {NoSession}

\* Every variable has its type, the counters stay within their limits, and a
\* recorded history has one cycle for every counted iteration.
TypeOK ==
    /\ disk \in {Absent, Torn} \/ IsState(disk)
    /\ IsState(mem) /\ mem.iteration = Len(mem.cycles)
    /\ pc \in Location
    /\ i \in 0 .. MaxIterations
    /\ sid \in Session \cup {NoSession}
    /\ configured \in Model /\ model \in {configured, Secondary}
    /\ timeouts \in Nat
    /\ rejections \in 0 .. MaxRejections
    /\ reset \in BOOLEAN /\ gated \in BOOLEAN
    /\ out \in Outcome
    /\ end \in {"none"} \cup DOMAIN ExitCode
    /\ count \in [runs : 0 .. MaxRuns, crash : 0 .. MaxCrash, session : Session \cup {0}]
    /\ cleared \subseteq Session

\* A session the driver has left (rotation, time-out, error, stagnation) is
\* never resumed, by this run or by a later one, unless a process was killed or
\* a save failed: clear_session reaches the file only with a later save (lines 346, 390, 486, 508).
ClearedNotResumed == count.crash = 0 /\ pc = "invoke" => sid \notin cleared

\* A session that has used up its turns is not resumed, with the same exception
\* (config.py:194, README.md:88 of automated-loop: rotation after 200 turns).
RotationHolds ==
    count.crash = 0 /\ pc = "invoke" /\ sid # NoSession => ~UsedUp(mem.cycles, sid)

\* After its first iteration a run goes on only while the recorded cost, of all
\* runs, is within the total budget, whichever way the iteration ended (line 350).
BudgetHeld == pc = "invoke" /\ i > 1 => ~OverTotal

\* Time-outs in a row end the run: after the limit of a model without a fallback,
\* and once the fallback model has had its chance too where there is one.  The
\* fallback and the recovery do not restart the count for ever (lines 391-450, 463-481).
TimeoutsEnd ==
    LET n == Len(mem.cycles)
        chance == (IF configured = Primary THEN FallbackAfter ELSE 0) + TimeoutLimit[Secondary]
    IN  ~(n - chance .. n \subseteq silent)

\* The window of recent cycles that ends with cycle n
StagnantAt(n) == n >= WindowSize /\ Barren(SubSeq(mem.cycles, n - WindowSize + 1, n))

\* A run that ends for stagnation has had its second chance: its window was
\* stagnant at an earlier iteration of this run, and no iteration since then
\* was a productive one that broke the window (lines 496-536); one that timed
\* out or ended in an error is not, whatever it did.
TwoStrikes ==
    end = "stagnation" =>
        LET n == Len(mem.cycles) IN
        /\ StagnantAt(n)
        /\ \E k \in n - i + 1 .. n - 1 :
              /\ StagnantAt(k)
              /\ \A m \in k + 1 .. n :
                    LET c == mem.cycles[m] IN
                    StagnantAt(m) \/ m \in silent \/ c.error \/ c.turns <= LowTurns

\* The run gives up on the gate only after so many rejections in a row
\* (config.py, max_rejections: "Max consecutive gate rejections").
\* Does not hold: README, section 4.
RejectionsConsecutive == end = "gate" => refused >= MaxRejections

\* Every run ends (or is killed).
RunEnds == Running ~> ~Running
==============================================================================
