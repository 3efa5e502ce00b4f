--------------------------- MODULE ExtendedRunner ---------------------------
(***************************************************************************)
(* extended_research_runner.py: passes of research_query over an artifact, *)
(* one after the other, until they converge, hit a cap or fail in a row,   *)
(* with a ledger on disk from which an interrupted or killed run resumes.  *)
(*                                                                         *)
(* The pass log is kept as what the code reads of it.  HM is a finding of  *)
(* severity HIGH or MEDIUM, ANALOGOUS ones included; a pass of type OTHER  *)
(* is one of those that only a recommendation asks for.  What Perplexity   *)
(* answers is external, its recommendation of the next pass included.      *)
(***************************************************************************)
EXTENDS Integers, Sequences, SequencesExt, FiniteSetsExt

CONSTANTS
    Id,         \* the findings' ids
    Phases,     \* bound: how many phases DECOMPOSE may find, at most
    Severity,   \* those of HM, LOW and INFO that findings have
    Settings,   \* the runs to look at, see Setting
    None,
    MinPasses,  \* --min-passes
    PassBound   \* bound on the pass number, for runs that no cap ends

ASSUME BoundAssumption == {Phases, MinPasses, PassBound} \subseteq Nat
ASSUME NoneAssumption == None \notin Nat
ASSUME SeverityAssumption == Severity \subseteq {"HM", "LOW", "INFO"} /\ "LOW" \in Severity

\* advisory: ADVISORY_MODE; override: --max-passes, or None; and the bounds on
\* failed answers, on crashes, on interrupts and on resumptions
Setting == [advisory : BOOLEAN, override : Nat \cup {None},
            failures : Nat, crashes : Nat, interrupts : Nat, resumes : Nat]

ASSUME SettingAssumption == Settings \subseteq Setting

K == 3  \* the length of every streak the code looks at

Bootstrap == <<"DECOMPOSE", "CRITIQUE", "ADVERSARIAL", "OPTIONS_SWEEP">>
Type == Range(Bootstrap) \cup {"FRESH_OBSERVER", "POSTMORTEM", "INTEGRATION",
                               "FINAL_VERDICT", "TARGETED_PROBE", "OTHER"}

VARIABLES
    env,        \* the Setting, chosen once
    pc,
    ledger,     \* the ledger in memory
    disk,       \* ledger.json
    pass,       \* pass_num
    kind,       \* the type of the pass in progress
    target,     \* its target finding, or None
    rec,        \* its record, from run_pass to the ledger's pass_log
    reason,     \* termination_reason
    interrupt,  \* _interrupted
    journal,    \* the length of passes.jsonl
    failures, crashes, interrupts, resumes  \* how much of env's bounds is used

bounds == <<failures, crashes, interrupts, resumes>>
vars == <<env, pc, ledger, disk, pass, kind, target, rec, reason, interrupt,
          journal, bounds>>

EmptyLog == [len |-> 0, recent |-> <<>>, adv |-> 0, completed |-> 0, done |-> {},
             probed |-> {}, verdict |-> "none", nums |-> {}, twice |-> FALSE]

NewLedger ==
    [max |-> env.override, phases |-> 0, findings |-> [i \in Id |-> "none"], log |-> EmptyLog,
     current |-> 0, interrupted |-> 0, status |-> "RUNNING"]

NoRec == [status |-> "none", news |-> FALSE, verdict |-> "none"]

Init ==
    /\ env \in Settings
    /\ pc = "top"
    /\ ledger = NewLedger /\ disk = NewLedger
    /\ pass = 1 /\ kind = "none" /\ target = None /\ rec = NoRec
    /\ reason = "none" /\ interrupt = FALSE /\ journal = 0
    /\ failures = 0 /\ crashes = 0 /\ interrupts = 0 /\ resumes = 0

------------------------------------------------------------------------------
(* check_convergence and select_next_pass_type *)

OpenIds == {i \in Id : ledger.findings[i] \in Severity}
HalfUp(n) == (n + 1) \div 2
Required == Max({1, HalfUp(Max({1, ledger.phases}))})
AdversarialOk == ledger.log.adv >= Required

\* A pass that failed has no counts, which the code takes for zero
Quiet == \A i \in DOMAIN ledger.log.recent : ~ledger.log.recent[i].news

AllLow == \A i \in OpenIds : ledger.findings[i] = "LOW"

\* In advisory mode the verdict of the last completed pass, if it says something
SaysConverged == env.advisory /\ ledger.log.verdict = "CONVERGED"
AsksAdversarial == env.advisory /\ ledger.log.verdict = "NEEDS_ADVERSARIAL" /\ ~AdversarialOk

\* Mutant of Gate: the adversarial floor is forgotten
GateNoFloor == IF SaysConverged THEN ledger.log.completed >= Max({K, MinPasses})
               ELSE ~AsksAdversarial /\ Quiet /\ AllLow

\* What converges, apart from the number of passes
Gate == IF SaysConverged THEN AdversarialOk /\ ledger.log.completed >= Max({K, MinPasses})
        ELSE ~AsksAdversarial /\ Quiet /\ AllLow /\ AdversarialOk

Converged == ledger.log.len >= K /\ Gate

\* adversarial_deficit_blocking
Deficit ==
    /\ ledger.log.len >= K /\ ~AdversarialOk
    /\ SaysConverged \/ AsksAdversarial \/ (Quiet /\ AllLow)

LastOf(seq, n) == SubSeq(seq, Max({1, Len(seq) - n + 1}), Len(seq))

\* ... and none of the last two passes was one
FreshDue ==
    /\ pass >= 8 /\ (pass - 8) % 6 = 0
    /\ ~\E r \in Range(LastOf(ledger.log.recent, 2)) : r.fresh
AllProbed == \A i \in OpenIds : ledger.findings[i] = "HM" => i \in ledger.log.probed

\* max_passes is set, and not zero, which the code takes for no cap
Capped == ledger.max \notin {None, 0}

\* The pass types that come before the recommendation, in their order
Rail ==
    IF pass \in DOMAIN Bootstrap THEN Bootstrap[pass]
    ELSE IF FreshDue THEN "FRESH_OBSERVER"
    ELSE IF "POSTMORTEM" \notin ledger.log.done /\ AllProbed THEN "POSTMORTEM"
    ELSE IF Deficit THEN "ADVERSARIAL"
    ELSE IF Capped /\ pass = ledger.max - 1 THEN "INTEGRATION"
    ELSE IF Capped /\ pass = ledger.max THEN "FINAL_VERDICT"
    ELSE "none"

\* What the recommendation or the default then makes it
NextPass ==
    IF Rail # "none" THEN {<<Rail, None>>}
    ELSE ({"TARGETED_PROBE"} \X OpenIds)
         \cup {<<t, None>> : t \in {"ADVERSARIAL", "INTEGRATION", "OTHER"}}

------------------------------------------------------------------------------
(* The main loop *)

\* run_pass begins: the ledger is written with the number of the pass
Begin(choice) ==
    /\ pc' = "ask" /\ kind' = choice[1] /\ target' = choice[2]
    /\ ledger' = [ledger EXCEPT !.current = pass']
    /\ disk' = ledger'

Interrupted ==
    /\ pc = "top" /\ interrupt
    /\ ledger' = [ledger EXCEPT !.status = "INTERRUPTED", !.interrupted = pass - 1]
    /\ disk' = ledger'
    /\ reason' = "interrupted" /\ pc' = "end"
    /\ UNCHANGED <<env, pass, kind, target, rec, interrupt, journal, bounds>>

\* Mutant of AtCap: one pass too many
AtCapLate == Capped /\ pass > ledger.max + 1

AtCap == Capped /\ pass > ledger.max

CapHit ==
    /\ pc = "top" /\ ~interrupt /\ AtCap
    /\ reason' = IF Converged THEN "converged" ELSE "cap"
    /\ pc' = "end"
    /\ UNCHANGED <<env, ledger, disk, pass, kind, target, rec, interrupt, journal, bounds>>

Closes == pass > 5 /\ pass > MinPasses /\ Converged

\* INTEGRATION, unless the log has one, and FINAL_VERDICT end a converged run
Close ==
    /\ pc = "top" /\ ~interrupt /\ ~AtCap /\ Closes
    /\ reason' = "converged" /\ pass' = pass
    /\ Begin(<<IF "INTEGRATION" \in ledger.log.done THEN "FINAL_VERDICT" ELSE "INTEGRATION", None>>)
    /\ UNCHANGED <<env, rec, interrupt, journal, bounds>>

Select ==
    /\ pc = "top" /\ ~interrupt /\ ~AtCap /\ ~Closes
    /\ pass <= PassBound
    /\ pass' = pass
    /\ \E choice \in NextPass : Begin(choice)
    /\ UNCHANGED <<env, rec, reason, interrupt, journal, bounds>>

------------------------------------------------------------------------------
(* run_pass, after its prompt is built *)

\* _append_passes_jsonl ends a pass whatever came of it
Returns(r) == pc' = "save" /\ rec' = r /\ journal' = journal + 1

Fails == failures < env.failures /\ failures' = failures + 1

\* call_research_query returns an error
Network ==
    /\ pc = "ask" /\ Fails
    /\ Returns([NoRec EXCEPT !.status = "SKIPPED-NETWORK"])
    /\ UNCHANGED <<env, ledger, disk, pass, kind, target, reason, interrupt,
                   crashes, interrupts, resumes>>

\* No valid answer, and nothing to salvage: once more after 20 to 25 s
Invalid ==
    /\ pc = "ask" /\ pc' = "retry"
    /\ UNCHANGED <<env, ledger, disk, pass, kind, target, rec, reason, interrupt,
                   journal, bounds>>

\* ... and again none, or no answer at all
ParseFailed ==
    /\ pc = "retry" /\ Fails
    /\ Returns([NoRec EXCEPT !.status = "PARSE-FAILED"])
    /\ UNCHANGED <<env, ledger, disk, pass, kind, target, reason, interrupt,
                   crashes, interrupts, resumes>>

\* max_passes after DECOMPOSE
Formula(n) == 4 + n + HalfUp(n) + 2

\* A valid answer: upsert_findings puts a finding in, or in the place of the one
\* of that id; new contradictions are news as well
Completed ==
    /\ pc \in {"ask", "retry"}
    /\ \E changed \in {{}} \cup {{i} : i \in Id}, s \in Severity \cup {"CLOSED"},
          contradiction \in BOOLEAN, n \in 1 .. Phases,
          v \in {"none", "CONVERGED", "NEEDS_ADVERSARIAL"} :
        /\ changed = {} => s = "LOW"
        /\ kind # "DECOMPOSE" => n = 1
        /\ ~env.advisory => v = "none"
        /\ LET found == [i \in Id |-> IF i \in changed THEN s ELSE ledger.findings[i]]
               news == contradiction \/ \E i \in changed : ledger.findings[i] = "none" IN
            /\ ledger' = IF kind # "DECOMPOSE"
                         THEN [ledger EXCEPT !.findings = found]
                         ELSE [ledger EXCEPT !.findings = found, !.phases = n,
                                  !.max = IF env.override # None THEN @
                                          ELSE Max({MinPasses, Formula(n)})]
            /\ Returns([status |-> "COMPLETED", news |-> news, verdict |-> v])
    /\ UNCHANGED <<env, disk, pass, kind, target, reason, interrupt, bounds>>

------------------------------------------------------------------------------
(* The record enters the ledger *)

Appended(log) ==
    LET ok == rec.status = "COMPLETED"
        entry == [status |-> rec.status, news |-> rec.news, fresh |-> kind = "FRESH_OBSERVER"] IN
    [len |-> log.len + 1,
     recent |-> LastOf(Append(log.recent, entry), K),
     adv |-> IF ok /\ kind = "ADVERSARIAL" THEN log.adv + 1 ELSE log.adv,
     completed |-> IF ok THEN log.completed + 1 ELSE log.completed,
     done |-> IF ok THEN log.done \cup {kind} ELSE log.done,
     probed |-> IF target # None THEN log.probed \cup {target} ELSE log.probed,
     verdict |-> IF ok THEN rec.verdict ELSE log.verdict,
     nums |-> log.nums \cup {pass},
     twice |-> log.twice \/ pass \in log.nums]

Streak(log, status) ==
    Len(log.recent) = K /\ \A i \in 1 .. K : log.recent[i].status = status

\* Mutant of Saved: a failed pass is not worth a write
SavedCompleted == IF rec.status = "COMPLETED" THEN disk' = ledger' ELSE UNCHANGED disk

Saved == disk' = ledger'

Aborts(log) == Streak(log, "PARSE-FAILED") \/ Streak(log, "SKIPPED-NETWORK")

\* pass_log.append and write_ledger_atomic, then the circuit breakers; in a run
\* that closes, INTEGRATION leads to FINAL_VERDICT and that to the end
Save ==
    /\ pc = "save"
    /\ ledger' = [ledger EXCEPT !.log = Appended(@)]
    /\ Saved
    /\ rec' = NoRec /\ target' = None /\ kind' = "none"
    /\ \/ /\ reason = "converged" /\ kind = "INTEGRATION"
          /\ pc' = "final" /\ pass' = pass + 1 /\ UNCHANGED reason
       \/ /\ reason = "converged" /\ kind # "INTEGRATION"
          /\ pc' = "end" /\ UNCHANGED <<pass, reason>>
       \/ /\ reason # "converged" /\ Aborts(ledger'.log)
          /\ pc' = "end" /\ reason' = "streak" /\ UNCHANGED pass
       \/ /\ reason # "converged" /\ ~Aborts(ledger'.log)
          /\ pc' = "top" /\ pass' = pass + 1 /\ UNCHANGED reason
    /\ UNCHANGED <<env, interrupt, journal, bounds>>

Final ==
    /\ pc = "final" /\ pass' = pass
    /\ Begin(<<"FINAL_VERDICT", None>>)
    /\ UNCHANGED <<env, rec, reason, interrupt, journal, bounds>>

\* The last write, report.md and runner.log.done
End ==
    /\ pc = "end" /\ pc' = "done"
    /\ ledger' = [ledger EXCEPT !.status =
           IF reason = "interrupted" THEN "INTERRUPTED"
           ELSE IF reason = "streak" THEN "ABORTED" ELSE "COMPLETED"]
    /\ disk' = ledger'
    /\ UNCHANGED <<env, pass, kind, target, rec, reason, interrupt, journal, bounds>>

------------------------------------------------------------------------------
(* Signals, crashes (a failed write of the ledger exits as well) and --resume *)

Signal ==
    /\ pc \notin {"end", "done", "down"} /\ ~interrupt /\ interrupts < env.interrupts
    /\ interrupt' = TRUE /\ interrupts' = interrupts + 1
    /\ UNCHANGED <<env, pc, ledger, disk, pass, kind, target, rec, reason, journal,
                   failures, crashes, resumes>>

Crash ==
    /\ pc \notin {"done", "down"} /\ crashes < env.crashes
    /\ crashes' = crashes + 1
    /\ pc' = "down" /\ rec' = NoRec /\ kind' = "none" /\ target' = None
    /\ UNCHANGED <<env, ledger, disk, pass, reason, interrupt, journal,
                   failures, interrupts, resumes>>

\* interrupted_at_pass, or current_pass_num if that is not set or zero
ResumeAt == (IF disk.interrupted # 0 THEN disk.interrupted ELSE disk.current) + 1

\* --resume takes any ledger.json: of a run that was interrupted, killed, aborted or
\* completed.  It leaves interrupted_at_pass in the ledger.
Resume ==
    /\ pc \in {"done", "down"} /\ resumes < env.resumes
    /\ resumes' = resumes + 1
    /\ ledger' = disk
    /\ pass' = ResumeAt
    /\ pc' = "top" /\ reason' = "none" /\ interrupt' = FALSE
    /\ UNCHANGED <<env, disk, kind, target, rec, journal, failures, crashes, interrupts>>

Run ==
    \/ Interrupted \/ CapHit \/ Close \/ Select
    \/ Network \/ Invalid \/ ParseFailed \/ Completed
    \/ Save \/ Final \/ End

Next == Run \/ Signal \/ Crash \/ Resume

Spec == Init /\ [][Next]_vars
\* The runner is one thread, and its calls have time-outs.  Nobody must resume.
FairSpec == Spec /\ WF_vars(Run)

------------------------------------------------------------------------------

Location == {"top", "ask", "retry", "save", "final", "end", "done", "down"}

LedgerOk(l) ==
    /\ l.max \in Nat \cup {None} /\ l.phases \in 0 .. Phases
    /\ l.findings \in [Id -> Severity \cup {"none", "CLOSED"}]
    /\ l.status \in {"RUNNING", "INTERRUPTED", "ABORTED", "COMPLETED"}
    /\ l.log.completed <= l.log.len /\ l.log.adv <= l.log.completed
    /\ l.log.done \subseteq Type /\ l.log.probed \subseteq Id /\ Len(l.log.recent) <= K
    /\ (l.log.completed > 0) = (l.log.done # {})

TypeOK ==
    /\ env \in Settings /\ pc \in Location
    /\ LedgerOk(ledger) /\ LedgerOk(disk)
    /\ pass \in Nat \ {0} /\ journal \in Nat
    /\ kind \in Type \cup {"none"} /\ target \in Id \cup {None}
    /\ rec.status \in {"none", "COMPLETED", "PARSE-FAILED", "SKIPPED-NETWORK"}
    /\ reason \in {"none", "interrupted", "cap", "converged", "streak"}
    /\ interrupt \in BOOLEAN

\* What a crash, an interrupt or a resumption may cost: the ledger lacks at most the
\* pass that was in progress of what passes.jsonl has; and a pass number enters it
\* twice only in a run that was interrupted and then resumed more than once: every
\* later --resume, also of an aborted or a completed run, starts behind the interrupt
\* again (interrupted_at_pass is never cleared).
LedgerKept ==
    /\ journal - disk.log.len <= crashes + (IF pc = "save" THEN 1 ELSE 0)
    /\ ledger.log.twice => interrupts > 0 /\ resumes >= 2

\* A run that says it has converged has had its adversarial passes, also after
\* a crash, and after a failed DECOMPOSE.
ConvergedIsEarned == reason = "converged" => AdversarialOk

\* Once a cap is known, from DECOMPOSE or a --max-passes that is not zero, it ends the
\* run: no pass goes past it but the FINAL_VERDICT of a converged run, whichever
\* interrupts, crashes and resumptions the run went through.
WithinCap ==
    Capped =>
        \/ pass <= ledger.max
        \/ pass = ledger.max + 1 /\ reason = "converged" /\ kind = "FINAL_VERDICT"
CapHolds == [][pc' = "ask" => WithinCap']_vars
CapEnds ==
    /\ CapHolds
    /\ (pc = "top" /\ Capped) ~> pc \in {"done", "down"}

\* "CONVERGED - all 4 AND-gate conditions met. Verdict trustworthy": the three
\* passes without news, in JSON mode, are passes that were answered.
\* Does not hold: README, section 4.
ConvergedOnEvidence ==
    [][reason # "converged" /\ reason' = "converged" /\ ~env.advisory =>
        \A i \in DOMAIN ledger.log.recent : ledger.log.recent[i].status = "COMPLETED"]_vars
==============================================================================
