------------------------- MODULE ExtendedRunnerProofs -------------------------
(***************************************************************************)
(* Theorems about ExtendedRunner, for any findings, phases, caps and       *)
(* settings, and any number of failed answers, crashes, interrupts and     *)
(* resumptions.                                                            *)
(***************************************************************************)
EXTENDS ExtendedRunner, TLAPS

Status == {"none", "COMPLETED", "PARSE-FAILED", "SKIPPED-NETWORK"}
Says == {"none", "CONVERGED", "NEEDS_ADVERSARIAL"}
Entry == [status : Status, news : BOOLEAN, fresh : BOOLEAN]
Record == [status : Status, news : BOOLEAN, verdict : Says]
LogShape == [len : Nat, recent : Seq(Entry), adv : Nat, completed : Nat, done : SUBSET Type,
             probed : SUBSET Id, verdict : Says, nums : SUBSET Nat, twice : BOOLEAN]
LedgerShape ==
    [max : Nat \cup {None}, phases : 0 .. Phases, findings : [Id -> Severity \cup {"none", "CLOSED"}],
     log : LogShape, current : Nat, interrupted : Nat,
     status : {"RUNNING", "INTERRUPTED", "ABORTED", "COMPLETED"}]

\* A log of at most K recent entries, and of no more of a kind than of all
Counted(log) ==
    /\ log.completed <= log.len /\ log.adv <= log.completed
    /\ Len(log.recent) <= K
    /\ (log.completed > 0) = (log.done # {})

\* Only the pass in progress has a type; only a pass writes the log, and it
\* writes it to the disk as well.
TypeInv ==
    /\ env \in Settings /\ pc \in Location
    /\ ledger \in LedgerShape /\ disk \in LedgerShape
    /\ Counted(ledger.log) /\ disk.log = ledger.log
    /\ pass \in Nat \ {0} /\ journal \in Nat
    /\ kind \in Type \cup {"none"} /\ (pc \in {"ask", "retry", "save"} => kind # "none")
    /\ target \in Id \cup {None}
    /\ rec \in Record
    /\ reason \in {"none", "interrupted", "cap", "converged", "streak"}
    /\ interrupt \in BOOLEAN
    /\ {failures, crashes, interrupts, resumes} \subseteq Nat

\* A converged run does its last two passes only, and within the cap.
ClosingInv ==
    /\ pc = "top" => reason = "none"
    /\ pc = "final" => reason = "converged" /\ (Capped => pass <= ledger.max + 1)
    /\ pc \in {"ask", "retry", "save"} =>
         /\ reason \in {"none", "converged"}
         /\ reason = "converged" =>
              \/ kind = "INTEGRATION" /\ (Capped => pass <= ledger.max)
              \/ kind = "FINAL_VERDICT"
    /\ pc = "ask" => WithinCap

\* What passes.jsonl has and the log lacks
JournalInv == journal - ledger.log.len <= crashes + (IF pc = "save" THEN 1 ELSE 0)

\* The numbers in a log are those of passes that the ledger has seen begin.  A run goes
\* on behind them: after current_pass_num, as long as there was no interrupt; and when
\* interrupted_at_pass leads a resumption, that is the pass before the first that is
\* missing, as long as it is the first one to be led.
NumsInv ==
    /\ interrupt => interrupts > 0
    /\ interrupts = 0 => ledger.interrupted = 0 /\ disk.interrupted = 0 /\ reason # "interrupted"
    /\ resumes = 0 /\ reason # "interrupted" => ledger.interrupted = 0 /\ disk.interrupted = 0
    /\ interrupts = 0 \/ resumes <= 1 =>
         /\ ~ledger.log.twice
         /\ \A n \in ledger.log.nums : n <= ledger.current /\ n <= disk.current
         /\ ledger.current <= pass
         /\ pc \in {"top", "final"} \/ reason = "interrupted" => ledger.current < pass
         /\ pc \in {"ask", "retry", "save"} =>
              ledger.current = pass /\ \A n \in ledger.log.nums : n < pass
         /\ reason = "interrupted" =>
              ledger.interrupted = pass - 1 /\ disk.interrupted = pass - 1 /\ disk.current < pass

------------------------------------------------------------------------------

\* The greater of two numbers
LEMMA MaxOfTwo == \A a, b \in Int : Max({a, b}) = IF a >= b THEN a ELSE b
<1> SUFFICES ASSUME NEW a \in Int, NEW b \in Int PROVE Max({a, b}) = IF a >= b THEN a ELSE b
  OBVIOUS
<1> DEFINE m == IF a >= b THEN a ELSE b
<1>1. m \in {a, b} /\ \A y \in {a, b} : m >= y
  OBVIOUS
<1>2. \A x \in {a, b} : (\A y \in {a, b} : x >= y) => x = m
  OBVIOUS
<1> QED BY <1>1, <1>2 DEF Max

\* The end of a sequence is as long as asked for, and of the same elements.
LEMMA LastOfType ==
    ASSUME NEW S, NEW seq \in Seq(S), NEW n \in Nat \ {0}
    PROVE  LastOf(seq, n) \in Seq(S) /\ Len(LastOf(seq, n)) <= n
<1> DEFINE first == Max({1, Len(seq) - n + 1})
<1>1. first = IF 1 >= Len(seq) - n + 1 THEN 1 ELSE Len(seq) - n + 1
  BY MaxOfTwo
<1> HIDE DEF first
<1>2. first \in Nat \ {0} /\ first >= Len(seq) - n + 1 /\ first <= Len(seq) + 1
  BY <1>1
<1>3. LastOf(seq, n) = SubSeq(seq, first, Len(seq))
  BY DEF LastOf, first
<1>4. \A i \in first .. Len(seq) : seq[i] \in S
  BY <1>2
<1>5. /\ SubSeq(seq, first, Len(seq)) \in Seq(S)
      /\ Len(SubSeq(seq, first, Len(seq))) =
             IF first <= Len(seq) THEN Len(seq) - first + 1 ELSE 0
  BY <1>2, <1>4
<1> QED BY <1>2, <1>3, <1>5

\* The adversarial floor is a number.
LEMMA FloorType == \A n \in Nat : Max({1, HalfUp(Max({1, n}))}) \in Nat
<1> SUFFICES ASSUME NEW n \in Nat PROVE Max({1, HalfUp(Max({1, n}))}) \in Nat
  OBVIOUS
<1>1. Max({1, n}) \in Nat
  BY MaxOfTwo
<1>2. HalfUp(Max({1, n})) \in Nat
  BY <1>1 DEF HalfUp
<1> QED BY <1>2, MaxOfTwo

\* So is the cap that DECOMPOSE computes.
LEMMA CapType == \A n \in Nat : Max({MinPasses, Formula(n)}) \in Nat
<1> SUFFICES ASSUME NEW n \in Nat PROVE Max({MinPasses, Formula(n)}) \in Nat
  OBVIOUS
<1>1. Formula(n) \in Nat
  BY DEF Formula, HalfUp
<1>2. MinPasses \in Nat
  BY BoundAssumption
<1> QED BY <1>1, <1>2, MaxOfTwo

\* The pass types are those of the bootstrap and the others.
LEMMA Types ==
    Type = {"DECOMPOSE", "CRITIQUE", "ADVERSARIAL", "OPTIONS_SWEEP", "FRESH_OBSERVER",
            "POSTMORTEM", "INTEGRATION", "FINAL_VERDICT", "TARGETED_PROBE", "OTHER"}
<1>1. Range(Bootstrap) = {"DECOMPOSE", "CRITIQUE", "ADVERSARIAL", "OPTIONS_SWEEP"}
  <2>1. DOMAIN Bootstrap = {1, 2, 3, 4}
    BY DEF Bootstrap
  <2>2. /\ Bootstrap[1] = "DECOMPOSE" /\ Bootstrap[2] = "CRITIQUE"
        /\ Bootstrap[3] = "ADVERSARIAL" /\ Bootstrap[4] = "OPTIONS_SWEEP"
    BY DEF Bootstrap
  <2> QED BY <2>1, <2>2 DEF Range
<1> QED BY <1>1 DEF Type

\* select_next_pass_type names a pass type, and a target only for a probe.
LEMMA NextPassType == \A choice \in NextPass : choice[1] \in Type /\ choice[2] \in Id \cup {None}
<1>1. Rail \in Type \cup {"none"}
  <2>1. pass \in DOMAIN Bootstrap => Bootstrap[pass] \in Type
    BY DEF Type, Range
  <2> QED BY <2>1, Types DEF Rail
<1> QED BY <1>1, Types DEF NextPass, OpenIds

\* The log after a pass has the shape of a log.
LEMMA AppendedType ==
    ASSUME NEW log \in LogShape, Counted(log), rec \in Record, kind \in Type,
           target \in Id \cup {None}, pass \in Nat
    PROVE  Appended(log) \in LogShape /\ Counted(Appended(log))
<1> DEFINE ok == rec.status = "COMPLETED"
           entry == [status |-> rec.status, news |-> rec.news, fresh |-> kind = "FRESH_OBSERVER"]
           recent == LastOf(Append(log.recent, entry), K)
<1>1. entry \in Entry
  BY DEF Record, Entry
<1>2. recent \in Seq(Entry) /\ Len(recent) <= K
  <2>1. Append(log.recent, entry) \in Seq(Entry)
    BY <1>1 DEF LogShape
  <2>2. K \in Nat \ {0}
    BY DEF K
  <2> HIDE DEF entry
  <2> QED BY <2>1, <2>2, LastOfType
<1> HIDE DEF recent
<1>3. Appended(log) =
        [len |-> log.len + 1, recent |-> recent,
         adv |-> IF ok /\ kind = "ADVERSARIAL" THEN log.adv + 1 ELSE log.adv,
         completed |-> IF ok THEN log.completed + 1 ELSE log.completed,
         done |-> IF ok THEN log.done \cup {kind} ELSE log.done,
         probed |-> IF target # None THEN log.probed \cup {target} ELSE log.probed,
         verdict |-> IF ok THEN rec.verdict ELSE log.verdict,
         nums |-> log.nums \cup {pass},
         twice |-> log.twice \/ pass \in log.nums]
  BY DEF Appended, recent
<1>4. (log.twice \/ pass \in log.nums) \in BOOLEAN
  OBVIOUS
<1>5. Appended(log) \in LogShape
  BY <1>2, <1>3, <1>4 DEF LogShape, Record
<1>6. Counted(Appended(log))
  <2>1. log.completed \in Nat /\ log.len \in Nat /\ log.adv \in Nat
    BY DEF LogShape
  <2> HIDE DEF ok
  <2>2. Appended(log).completed > 0 <=> Appended(log).done # {}
    <3>1. CASE ok
      <4>1. Appended(log).completed = log.completed + 1 /\ kind \in Appended(log).done
        BY <3>1, <1>3
      <4> QED BY <2>1, <4>1
    <3>2. CASE ~ok
      <4>1. Appended(log).completed = log.completed /\ Appended(log).done = log.done
        BY <3>2, <1>3
      <4> QED BY <4>1 DEF Counted
    <3> QED BY <3>1, <3>2
  <2>3. /\ Appended(log).completed <= Appended(log).len
        /\ Appended(log).adv <= Appended(log).completed
        /\ Len(Appended(log).recent) <= K
    BY <2>1, <1>2, <1>3 DEF Counted
  <2> QED BY <2>2, <2>3 DEF Counted
<1> QED BY <1>5, <1>6


\* Records of a pass, without an answer
LEMMA NoAnswer == NoRec \in Record /\ \A s \in Status : [NoRec EXCEPT !.status = s] \in Record
BY DEF NoRec, Record, Status, Says

\* No pass yet: an empty log
LEMMA TypesInit == Init => TypeInv
<1> SUFFICES ASSUME Init PROVE TypeInv
  OBVIOUS
<1>1. EmptyLog \in LogShape /\ Counted(EmptyLog)
  BY DEF EmptyLog, LogShape, Counted, K, Says
<1>2. env.override \in Nat \cup {None} /\ 0 \in 0 .. Phases
  BY SettingAssumption, BoundAssumption DEF Init, Setting
<1>3. NewLedger \in LedgerShape /\ NewLedger.log = EmptyLog
  BY <1>1, <1>2 DEF NewLedger, LedgerShape
<1>4. rec \in Record
  BY NoAnswer DEF Init
<1>5. ledger = NewLedger /\ disk = NewLedger
  BY DEF Init
<1>6. ledger.log = EmptyLog /\ disk.log = EmptyLog
  BY <1>3, <1>5
<1>7. Counted(ledger.log)
  BY <1>1, <1>6
<1>8. ledger \in LedgerShape /\ disk \in LedgerShape /\ disk.log = ledger.log
  BY <1>3, <1>5, <1>6
<1>9. /\ env \in Settings /\ pc \in Location /\ pass \in Nat \ {0} /\ journal \in Nat
  BY DEF Init, Location
<1>10. /\ kind \in Type \cup {"none"} /\ pc \notin {"ask", "retry", "save"}
       /\ target \in Id \cup {None} /\ reason = "none" /\ interrupt = FALSE
  BY DEF Init
<1>11. failures \in Nat /\ crashes \in Nat /\ interrupts \in Nat /\ resumes \in Nat
  BY DEF Init
<1> QED BY <1>4, <1>7, <1>8, <1>9, <1>10, <1>11 DEF TypeInv

\* Every variable keeps its type; in particular a record of a pass is written to
\* the log and the disk at once.
LEMMA TypesStep == TypeInv /\ [Next]_vars => TypeInv'
<1> SUFFICES ASSUME TypeInv, [Next]_vars PROVE TypeInv'
  OBVIOUS
<1>1. ASSUME Interrupted PROVE TypeInv'
  <2>1. /\ ledger' = [[ledger EXCEPT !.status = "INTERRUPTED"] EXCEPT !.interrupted = pass - 1]
        /\ disk' = ledger' /\ reason' = "interrupted" /\ pc' = "end"
        /\ UNCHANGED <<env, pass, kind, target, rec, interrupt, journal, bounds>>
    BY <1>1 DEF Interrupted
  <2>2. PICK l : l = [ledger EXCEPT !.status = "INTERRUPTED"]
    OBVIOUS
  <2>3. l \in LedgerShape /\ l.log = ledger.log
    BY <2>2 DEF TypeInv, LedgerShape
  <2>4. ledger' = [l EXCEPT !.interrupted = pass - 1]
    BY <2>1, <2>2
  <2>5. ledger' \in LedgerShape /\ ledger'.log = ledger.log
    BY <2>3, <2>4 DEF TypeInv, LedgerShape
  <2> QED BY <2>1, <2>5 DEF TypeInv, bounds, Location
<1>2. ASSUME CapHit PROVE TypeInv'
  BY <1>2, Types DEF CapHit, AtCap, bounds, TypeInv, Location, LedgerShape
<1>3. ASSUME Close PROVE TypeInv'
  BY <1>3, Types DEF Close, AtCap, Begin, bounds, TypeInv, Location, LedgerShape
<1>4. ASSUME Select PROVE TypeInv'
  <2>1. PICK choice \in NextPass : Begin(choice)
    BY <1>4 DEF Select
  <2>2. choice[1] \in Type /\ choice[2] \in Id \cup {None} /\ choice[1] # "none"
    BY NextPassType, Types
  <2>3. UNCHANGED <<env, pass, rec, reason, interrupt, journal, bounds>>
    BY <1>4 DEF Select
  <2>4. /\ pc' = "ask" /\ kind' = choice[1] /\ target' = choice[2]
        /\ ledger' = [ledger EXCEPT !.current = pass] /\ disk' = ledger'
    BY <2>1, <2>3 DEF Begin
  <2> QED BY <2>2, <2>3, <2>4 DEF TypeInv, LedgerShape, bounds, Location
<1>5. ASSUME Network PROVE TypeInv'
  <2>1. rec' \in Record
    BY <1>5, NoAnswer DEF Network, Returns, Status
  <2> QED BY <1>5, <2>1 DEF Network, Returns, Fails, bounds, TypeInv, Location
<1>6. ASSUME Invalid PROVE TypeInv'
  BY <1>6 DEF Invalid, bounds, TypeInv, Location, LedgerShape, Fails, NoRec, Record, Status,
     Says
<1>7. ASSUME ParseFailed PROVE TypeInv'
  <2>1. rec' \in Record
    BY <1>7, NoAnswer DEF ParseFailed, Returns, Status
  <2> QED BY <1>7, <2>1 DEF ParseFailed, Returns, Fails, bounds, TypeInv, Location
<1>8. ASSUME Completed PROVE TypeInv'
  <2>1. PICK changed \in {{}} \cup {{i} : i \in Id}, s \in Severity \cup {"CLOSED"},
             contradiction \in BOOLEAN, n \in 1 .. Phases,
             v \in {"none", "CONVERGED", "NEEDS_ADVERSARIAL"},
             found \in [Id -> Severity \cup {"none", "CLOSED"}] :
          /\ ledger' = IF kind # "DECOMPOSE"
                       THEN [ledger EXCEPT !.findings = found]
                       ELSE [ledger EXCEPT !.findings = found, !.phases = n,
                                !.max = IF env.override # None THEN ledger.max
                                        ELSE Max({MinPasses, Formula(n)})]
          /\ \E news \in BOOLEAN : Returns([status |-> "COMPLETED", news |-> news, verdict |-> v])
    <3>1. PICK changed \in {{}} \cup {{i} : i \in Id}, s \in Severity \cup {"CLOSED"},
               contradiction \in BOOLEAN, n \in 1 .. Phases,
               v \in {"none", "CONVERGED", "NEEDS_ADVERSARIAL"} :
        /\ changed = {} => s = "LOW"
        /\ kind # "DECOMPOSE" => n = 1
        /\ ~env.advisory => v = "none"
        /\ LET found == [i \in Id |-> IF i \in changed THEN s ELSE ledger.findings[i]]
                news == contradiction \/ \E i \in changed : ledger.findings[i] = "none" IN
            /\ ledger' = IF kind # "DECOMPOSE"
                         THEN [ledger EXCEPT !.findings = found]
                         ELSE [ledger EXCEPT !.findings = found, !.phases = n,
                                  !.max = IF env.override # None THEN @
                                          ELSE Max({MinPasses, Formula(n)})]
            /\ Returns([status |-> "COMPLETED", news |-> news, verdict |-> v])
      BY <1>8, Zenon DEF Completed
    <3> DEFINE found == [i \in Id |-> IF i \in changed THEN s ELSE ledger.findings[i]]
               news == contradiction \/ \E i \in changed : ledger.findings[i] = "none"
    <3>2. found \in [Id -> Severity \cup {"none", "CLOSED"}]
      BY DEF TypeInv, LedgerShape
    <3>3. news \in BOOLEAN
      OBVIOUS
    <3> HIDE DEF found, news
    <3>4. /\ ledger' = IF kind # "DECOMPOSE"
                       THEN [ledger EXCEPT !.findings = found]
                       ELSE [ledger EXCEPT !.findings = found, !.phases = n,
                                !.max = IF env.override # None THEN ledger.max
                                        ELSE Max({MinPasses, Formula(n)})]
          /\ Returns([status |-> "COMPLETED", news |-> news, verdict |-> v])
      BY <3>1 DEF found, news
    <3> QED BY <3>2, <3>3, <3>4
  <2>2. Max({MinPasses, Formula(n)}) \in Nat
    BY CapType
  <2>3. ledger' \in LedgerShape /\ ledger'.log = ledger.log
    <3>1. PICK l : l = [ledger EXCEPT !.findings = found]
      OBVIOUS
    <3>2. l \in LedgerShape /\ l.log = ledger.log
      BY <3>1 DEF TypeInv, LedgerShape
    <3>3. PICK m : m = [l EXCEPT !.phases = n]
      OBVIOUS
    <3>4. m \in LedgerShape /\ m.log = ledger.log
      BY <3>2, <3>3 DEF LedgerShape
    <3>5. PICK cap \in Nat \cup {None} :
            ledger' = IF kind # "DECOMPOSE" THEN l ELSE [m EXCEPT !.max = cap]
      <4>1. ledger.max \in Nat \cup {None}
        BY DEF TypeInv, LedgerShape
      <4> QED BY <2>1, <2>2, <3>1, <3>3, <4>1
    <3> QED BY <3>2, <3>4, <3>5 DEF LedgerShape
  <2>4. rec' \in Record /\ pc' = "save" /\ journal' = journal + 1
    BY <2>1 DEF Returns, Record, Status, Says
  <2>5. UNCHANGED <<env, disk, pass, kind, target, reason, interrupt, bounds>> /\ pc \in {"ask", "retry"}
    BY <1>8 DEF Completed
  <2> QED BY <2>3, <2>4, <2>5 DEF TypeInv, bounds, Location
<1>9. ASSUME Save PROVE TypeInv'
  <2>1. kind \in Type /\ ledger.log \in LogShape /\ pass \in Nat
    BY <1>9 DEF Save, TypeInv, LedgerShape
  <2>2. Appended(ledger.log) \in LogShape /\ Counted(Appended(ledger.log))
    BY <2>1, AppendedType DEF TypeInv
  <2>3. /\ ledger' = [ledger EXCEPT !.log = Appended(ledger.log)] /\ disk' = ledger'
        /\ rec' = NoRec /\ target' = None /\ kind' = "none"
        /\ UNCHANGED <<env, interrupt, journal, bounds>>
    BY <1>9 DEF Save, Saved
  <2>4. /\ ledger' \in LedgerShape /\ ledger'.log = Appended(ledger.log)
    BY <2>2, <2>3 DEF TypeInv, LedgerShape
  <2>5. pc' \in {"final", "end", "top"} /\ pass' \in Nat \ {0} /\ reason' \in {reason, "streak"}
    BY <1>9 DEF Save, TypeInv
  <2> QED BY <2>2, <2>3, <2>4, <2>5 DEF TypeInv, bounds, NoRec, Record, Location, Status, Says
<1>10. ASSUME Final PROVE TypeInv'
  BY <1>10, Types DEF Final, Begin, bounds, TypeInv, Location, LedgerShape
<1>11. ASSUME End PROVE TypeInv'
  BY <1>11 DEF End, bounds, TypeInv, Location, LedgerShape
<1>12. ASSUME Signal PROVE TypeInv'
  BY <1>12 DEF Signal, TypeInv, Location, LedgerShape
<1>13. ASSUME Crash PROVE TypeInv'
  BY <1>13 DEF Crash, NoRec, TypeInv, Location, LedgerShape, Fails, Record, Status, Says
<1>14. ASSUME Resume PROVE TypeInv'
  <2>1. pass' \in Nat \ {0}
    BY <1>14 DEF Resume, ResumeAt, TypeInv, LedgerShape
  <2>2. resumes' \in Nat /\ UNCHANGED <<failures, crashes, interrupts>>
    BY <1>14 DEF Resume, TypeInv
  <2> QED BY <1>14, <2>1, <2>2 DEF Resume, TypeInv, Location
<1>15. CASE UNCHANGED vars
  BY <1>15 DEF vars, bounds, TypeInv, Location, LedgerShape
<1> QED
  BY <1>1, <1>2, <1>3, <1>4, <1>5, <1>6, <1>7, <1>8, <1>9, <1>10, <1>11, <1>12,
     <1>13, <1>14, <1>15
     DEF Next, Run

\* A converged run has its INTEGRATION and its FINAL_VERDICT left, within the cap.
LEMMA ClosingStep == TypeInv /\ ClosingInv /\ [Next]_vars => ClosingInv'
<1> SUFFICES ASSUME TypeInv /\ ClosingInv, [Next]_vars PROVE ClosingInv'
  OBVIOUS
<1>1. ASSUME Interrupted PROVE ClosingInv'
  <2>1. pc' = "end"
    BY <1>1 DEF Interrupted
  <2> QED BY <2>1 DEF ClosingInv, Capped
<1>2. ASSUME CapHit PROVE ClosingInv'
  BY <1>2 DEF CapHit, AtCap, bounds, ClosingInv, WithinCap, Capped
<1>3. ASSUME Close PROVE ClosingInv'
  <2>1. /\ pc' = "ask" /\ UNCHANGED pass /\ reason' = "converged" /\ ~AtCap
        /\ kind' \in {"INTEGRATION", "FINAL_VERDICT"}
        /\ ledger'.max = ledger.max /\ pass \in Nat /\ ledger.max \in Nat \cup {None}
    BY <1>3 DEF Close, Begin, TypeInv, LedgerShape
  <2> QED BY <2>1 DEF ClosingInv, WithinCap, Capped, AtCap
<1>4. ASSUME Select PROVE ClosingInv'
  <2>1. /\ pc' = "ask" /\ UNCHANGED <<pass, reason>> /\ pc = "top" /\ ~AtCap
        /\ ledger'.max = ledger.max /\ pass \in Nat /\ ledger.max \in Nat \cup {None}
    BY <1>4 DEF Select, Begin, TypeInv, LedgerShape
  <2> QED BY <2>1 DEF ClosingInv, WithinCap, Capped, AtCap
<1>5. ASSUME Network PROVE ClosingInv'
  BY <1>5 DEF Network, Returns, NoRec, ClosingInv, WithinCap, Capped
<1>6. ASSUME Invalid PROVE ClosingInv'
  <2>1. UNCHANGED <<ledger, pass, reason, kind>> /\ pc = "ask" /\ pc' = "retry"
    BY <1>6 DEF Invalid
  <2> QED BY <2>1 DEF ClosingInv, WithinCap, Capped
<1>7. ASSUME ParseFailed PROVE ClosingInv'
  BY <1>7 DEF ParseFailed, Returns, NoRec, ClosingInv, WithinCap, Capped
<1>8. ASSUME Completed PROVE ClosingInv'
  <2>1. /\ pc' = "save" /\ UNCHANGED <<reason, kind, pass>> /\ pc \in {"ask", "retry"}
        /\ kind # "DECOMPOSE" => ledger'.max = ledger.max
    BY <1>8 DEF Completed, Returns, TypeInv, LedgerShape
  <2> QED BY <2>1 DEF ClosingInv, Capped
<1>9. ASSUME Save PROVE ClosingInv'
  <2>1. ledger'.max = ledger.max /\ pass \in Nat /\ ledger.max \in Nat \cup {None} /\ pc = "save"
    BY <1>9 DEF Save, TypeInv, LedgerShape
  <2>2. \/ reason = "converged" /\ kind = "INTEGRATION" /\ pc' = "final" /\ pass' = pass + 1 /\ UNCHANGED reason
        \/ pc' = "end"
        \/ reason # "converged" /\ pc' = "top" /\ UNCHANGED reason
    BY <1>9 DEF Save
  <2> QED BY <2>1, <2>2, NoneAssumption DEF ClosingInv, Capped
<1>10. ASSUME Final PROVE ClosingInv'
  <2>1. /\ pc' = "ask" /\ pc = "final" /\ UNCHANGED <<pass, reason>> /\ kind' = "FINAL_VERDICT"
        /\ ledger'.max = ledger.max /\ pass \in Nat /\ ledger.max \in Nat \cup {None}
    BY <1>10 DEF Final, Begin, TypeInv, LedgerShape
  <2> QED BY <2>1 DEF ClosingInv, WithinCap, Capped
<1>11. ASSUME End PROVE ClosingInv'
  <2>1. pc' = "done"
    BY <1>11 DEF End
  <2> QED BY <2>1 DEF ClosingInv, Capped
<1>12. ASSUME Signal PROVE ClosingInv'
  BY <1>12 DEF Signal, ClosingInv, WithinCap, Capped, Location
<1>13. ASSUME Crash PROVE ClosingInv'
  BY <1>13 DEF Crash, NoRec, ClosingInv, WithinCap, Capped, Location
<1>14. ASSUME Resume PROVE ClosingInv'
  BY <1>14 DEF Resume, ResumeAt, bounds, ClosingInv, WithinCap, Capped
<1>15. CASE UNCHANGED vars
  BY <1>15 DEF vars, bounds, ClosingInv, WithinCap, Capped
<1> QED
  BY <1>1, <1>2, <1>3, <1>4, <1>5, <1>6, <1>7, <1>8, <1>9, <1>10, <1>11, <1>12,
     <1>13, <1>14, <1>15
     DEF Next, Run

\* A pass is in passes.jsonl before it is in the log; a crash costs one at most.
LEMMA JournalStep == TypeInv /\ JournalInv /\ [Next]_vars => JournalInv'
<1> SUFFICES ASSUME TypeInv /\ JournalInv, [Next]_vars PROVE JournalInv'
  OBVIOUS
<1>0. {ledger.log.len, journal, crashes} \subseteq Nat
  BY DEF TypeInv, LedgerShape, LogShape
<1>1. ASSUME Interrupted PROVE JournalInv'
  <2>1. ledger'.log = ledger.log /\ pc # "save" /\ pc' # "save" /\ UNCHANGED <<journal, crashes>>
    BY <1>1 DEF Interrupted, bounds, TypeInv, LedgerShape
  <2> QED BY <2>1 DEF JournalInv
<1>2. ASSUME CapHit PROVE JournalInv'
  BY <1>2 DEF CapHit, AtCap, bounds, JournalInv, TypeInv, LedgerShape, LogShape
<1>3. ASSUME Close PROVE JournalInv'
  <2>1. ledger'.log = ledger.log /\ pc # "save" /\ pc' # "save" /\ UNCHANGED <<journal, crashes>>
    BY <1>3 DEF Close, AtCap, Begin, bounds, TypeInv, LedgerShape
  <2> QED BY <2>1 DEF JournalInv
<1>4. ASSUME Select PROVE JournalInv'
  <2>1. ledger'.log = ledger.log /\ pc # "save" /\ pc' # "save" /\ UNCHANGED <<journal, crashes>>
    BY <1>4 DEF Select, AtCap, Begin, bounds, TypeInv, LedgerShape
  <2> QED BY <2>1 DEF JournalInv
<1>5. ASSUME Network PROVE JournalInv'
  <2>1. ledger' = ledger /\ pc # "save" /\ pc' = "save" /\ journal' = journal + 1 /\ UNCHANGED crashes
    BY <1>5 DEF Network, Returns
  <2> QED BY <1>0, <2>1 DEF JournalInv
<1>6. ASSUME Invalid PROVE JournalInv'
  <2>1. UNCHANGED <<ledger, journal, crashes>> /\ pc # "save" /\ pc' # "save"
    BY <1>6 DEF Invalid, bounds
  <2> QED BY <2>1 DEF JournalInv
<1>7. ASSUME ParseFailed PROVE JournalInv'
  <2>1. ledger' = ledger /\ pc # "save" /\ pc' = "save" /\ journal' = journal + 1 /\ UNCHANGED crashes
    BY <1>7 DEF ParseFailed, Returns
  <2> QED BY <1>0, <2>1 DEF JournalInv
<1>8. ASSUME Completed PROVE JournalInv'
  <2>1. ledger'.log = ledger.log /\ pc # "save" /\ pc' = "save" /\ journal' = journal + 1 /\ UNCHANGED crashes
    BY <1>8 DEF Completed, Returns, TypeInv, LedgerShape, bounds
  <2> QED BY <1>0, <2>1 DEF JournalInv
<1>9. ASSUME Save PROVE JournalInv'
  <2>1. ledger'.log.len = ledger.log.len + 1 /\ pc = "save" /\ pc' # "save" /\ UNCHANGED <<journal, crashes>>
    BY <1>9 DEF Save, TypeInv, LedgerShape, Appended, bounds
  <2> QED BY <1>0, <2>1 DEF JournalInv
<1>10. ASSUME Final PROVE JournalInv'
  <2>1. ledger'.log = ledger.log /\ pc # "save" /\ pc' # "save" /\ UNCHANGED <<journal, crashes>>
    BY <1>10 DEF Final, Begin, bounds, TypeInv, LedgerShape
  <2> QED BY <2>1 DEF JournalInv
<1>11. ASSUME End PROVE JournalInv'
  <2>1. ledger'.log = ledger.log /\ pc # "save" /\ pc' # "save" /\ UNCHANGED <<journal, crashes>>
    BY <1>11 DEF End, bounds, TypeInv, LedgerShape
  <2> QED BY <2>1 DEF JournalInv
<1>12. ASSUME Signal PROVE JournalInv'
  <2>1. UNCHANGED <<pc, ledger, journal, crashes>>
    BY <1>12 DEF Signal
  <2> QED BY <2>1 DEF JournalInv
<1>13. ASSUME Crash PROVE JournalInv'
  <2>1. UNCHANGED <<ledger, journal>> /\ crashes' = crashes + 1
    BY <1>13 DEF Crash
  <2> QED BY <1>0, <2>1 DEF JournalInv
<1>14. ASSUME Resume PROVE JournalInv'
  <2>1. ledger'.log = ledger.log /\ pc # "save" /\ pc' # "save" /\ UNCHANGED <<journal, crashes>>
    BY <1>14 DEF Resume, ResumeAt, bounds, TypeInv, LedgerShape
  <2> QED BY <2>1 DEF JournalInv
<1>15. CASE UNCHANGED vars
  BY <1>15 DEF vars, bounds, JournalInv
<1> QED
  BY <1>1, <1>2, <1>3, <1>4, <1>5, <1>6, <1>7, <1>8, <1>9, <1>10, <1>11, <1>12,
     <1>13, <1>14, <1>15
     DEF Next, Run

\* Passes are numbered upwards, also by a run that is resumed.
LEMMA NumsStep == TypeInv /\ ClosingInv /\ NumsInv /\ [Next]_vars => NumsInv'
<1> SUFFICES ASSUME TypeInv /\ ClosingInv /\ NumsInv, [Next]_vars PROVE NumsInv'
  OBVIOUS
<1>1. ASSUME Interrupted PROVE NumsInv'
  <2>1. /\ ledger'.log = ledger.log /\ ledger'.current = ledger.current /\ disk' = ledger'
        /\ ledger'.interrupted = pass - 1 /\ interrupt /\ pc = "top"
        /\ pc' = "end" /\ reason' = "interrupted" /\ UNCHANGED <<pass, crashes, interrupts, resumes, interrupt>>
    BY <1>1 DEF Interrupted, bounds, TypeInv, LedgerShape
  <2>2. {pass, ledger.current, interrupts, resumes} \subseteq Nat
    BY DEF TypeInv, LedgerShape
  <2> QED BY <2>1, <2>2 DEF NumsInv
<1>2. ASSUME CapHit PROVE NumsInv'
  <2>1. /\ pc = "top" /\ pc' = "end" /\ reason # "interrupted" /\ reason' # "interrupted"
        /\ UNCHANGED <<ledger, disk, pass, interrupts, resumes, interrupt>>
    BY <1>2 DEF CapHit, bounds, ClosingInv
  <2> QED BY <2>1 DEF NumsInv
<1>3. ASSUME Close PROVE NumsInv'
  <2>1. /\ ledger'.log = ledger.log /\ ledger'.current = pass /\ disk' = ledger'
        /\ ledger'.interrupted = ledger.interrupted
        /\ pc' = "ask" /\ reason' # "interrupted" /\ pc \in {"top", "final"} /\ reason # "interrupted"
        /\ UNCHANGED <<pass, crashes, interrupts, resumes, interrupt>>
    BY <1>3 DEF Close, AtCap, Begin, bounds, TypeInv, LedgerShape, ClosingInv
  <2>2. \A n \in ledger.log.nums : n \in Nat
    BY DEF TypeInv, LedgerShape, LogShape
  <2>3. {pass, ledger.current, disk.current} \subseteq Nat
    BY DEF TypeInv, LedgerShape
  <2> QED BY <2>1, <2>2, <2>3 DEF NumsInv
<1>4. ASSUME Select PROVE NumsInv'
  <2>1. /\ ledger'.log = ledger.log /\ ledger'.current = pass /\ disk' = ledger'
        /\ ledger'.interrupted = ledger.interrupted
        /\ pc' = "ask" /\ reason' # "interrupted" /\ pc \in {"top", "final"} /\ reason # "interrupted"
        /\ UNCHANGED <<pass, crashes, interrupts, resumes, interrupt>>
    BY <1>4 DEF Select, AtCap, Begin, bounds, TypeInv, LedgerShape, ClosingInv
  <2>2. \A n \in ledger.log.nums : n \in Nat
    BY DEF TypeInv, LedgerShape, LogShape
  <2>3. {pass, ledger.current, disk.current} \subseteq Nat
    BY DEF TypeInv, LedgerShape
  <2> QED BY <2>1, <2>2, <2>3 DEF NumsInv
<1>5. ASSUME Network PROVE NumsInv'
  BY <1>5 DEF Network, Returns, NoRec, NumsInv, TypeInv, LedgerShape
<1>6. ASSUME Invalid PROVE NumsInv'
  BY <1>6 DEF Invalid, bounds, NumsInv, TypeInv, LedgerShape
<1>7. ASSUME ParseFailed PROVE NumsInv'
  BY <1>7 DEF ParseFailed, Returns, NoRec, NumsInv, TypeInv, LedgerShape
<1>8. ASSUME Completed PROVE NumsInv'
  <2>1. /\ ledger'.log = ledger.log /\ ledger'.current = ledger.current
        /\ ledger'.interrupted = ledger.interrupted /\ UNCHANGED disk
        /\ pc \in {"ask", "retry"} /\ pc' = "save"
        /\ UNCHANGED <<pass, reason, crashes, interrupts, resumes, interrupt>>
    BY <1>8 DEF Completed, Returns, bounds, TypeInv, LedgerShape
  <2> QED BY <2>1 DEF NumsInv
<1>9. ASSUME Save PROVE NumsInv'
  <2>1. /\ ledger' = [ledger EXCEPT !.log = Appended(ledger.log)] /\ disk' = ledger'
        /\ UNCHANGED <<interrupt, crashes, interrupts, resumes>> /\ pc = "save"
    BY <1>9 DEF Save, Saved, bounds
  <2>2. /\ Appended(ledger.log).nums = ledger.log.nums \cup {pass}
        /\ Appended(ledger.log).twice => ledger.log.twice \/ pass \in ledger.log.nums
    BY DEF Appended
  <2>3. /\ ledger'.log.nums = ledger.log.nums \cup {pass}
        /\ ledger'.log.twice => ledger.log.twice \/ pass \in ledger.log.nums
        /\ ledger'.current = ledger.current /\ ledger'.interrupted = ledger.interrupted
    BY <2>1, <2>2 DEF TypeInv, LedgerShape
  <2>4. /\ reason \in {"none", "converged"} /\ reason' # "interrupted"
        /\ \/ pc' \in {"final", "top"} /\ pass' = pass + 1
           \/ pc' = "end" /\ pass' = pass
    BY <1>9 DEF Save, ClosingInv
  <2>5. pass \in Nat /\ ledger.current \in Nat /\ \A n \in ledger.log.nums : n \in Nat
    BY DEF TypeInv, LedgerShape, LogShape
  <2> QED BY <2>1, <2>3, <2>4, <2>5 DEF NumsInv
<1>10. ASSUME Final PROVE NumsInv'
  <2>1. /\ ledger'.log = ledger.log /\ ledger'.current = pass /\ disk' = ledger'
        /\ ledger'.interrupted = ledger.interrupted
        /\ pc' = "ask" /\ reason' # "interrupted" /\ pc \in {"top", "final"} /\ reason # "interrupted"
        /\ UNCHANGED <<pass, crashes, interrupts, resumes, interrupt>>
    BY <1>10 DEF Final, Begin, bounds, TypeInv, LedgerShape, ClosingInv
  <2>2. \A n \in ledger.log.nums : n \in Nat
    BY DEF TypeInv, LedgerShape, LogShape
  <2>3. {pass, ledger.current, disk.current} \subseteq Nat
    BY DEF TypeInv, LedgerShape
  <2> QED BY <2>1, <2>2, <2>3 DEF NumsInv
<1>11. ASSUME End PROVE NumsInv'
  <2>1. /\ ledger'.log = ledger.log /\ ledger'.current = ledger.current
        /\ ledger'.interrupted = ledger.interrupted /\ disk' = ledger'
        /\ pc = "end" /\ pc' = "done" /\ UNCHANGED <<pass, reason, crashes, interrupts, resumes, interrupt>>
    BY <1>11 DEF End, bounds, TypeInv, LedgerShape
  <2> QED BY <2>1 DEF NumsInv
<1>12. ASSUME Signal PROVE NumsInv'
  BY <1>12 DEF Signal, NumsInv, TypeInv, LedgerShape
<1>13. ASSUME Crash PROVE NumsInv'
  BY <1>13 DEF Crash, NoRec, NumsInv, TypeInv, LedgerShape
<1>14. ASSUME Resume PROVE NumsInv'
  <2>1. /\ ledger' = disk /\ disk' = disk /\ pass' = ResumeAt /\ pc' = "top" /\ reason' = "none"
        /\ interrupt' = FALSE /\ resumes' = resumes + 1 /\ UNCHANGED <<crashes, interrupts>>
        /\ disk.log = ledger.log
    BY <1>14 DEF Resume, bounds, TypeInv
  <2>2. /\ {disk.current, disk.interrupted, resumes, interrupts} \subseteq Nat
        /\ pass \in Nat \ {0} /\ \A n \in ledger.log.nums : n \in Nat
    BY SMTT(30) DEF TypeInv, LedgerShape, LogShape
  <2>3. CASE interrupts = 0
    <3>1. ResumeAt = disk.current + 1
      BY <2>3 DEF NumsInv, ResumeAt
    <3> QED BY <2>1, <2>2, <2>3, <3>1 DEF NumsInv
  <2>4. CASE interrupts # 0 /\ resumes = 0
    <3>1. ResumeAt > disk.current
      BY <2>2, <2>4 DEF NumsInv, ResumeAt
    <3>2. ResumeAt \in Nat
      BY <2>2 DEF ResumeAt
    <3> QED BY <2>1, <2>2, <2>4, <3>1, <3>2 DEF NumsInv
  <2>5. CASE interrupts # 0 /\ resumes # 0
    BY <2>1, <2>2, <2>5 DEF NumsInv
  <2> QED BY <2>3, <2>4, <2>5
<1>15. CASE UNCHANGED vars
  BY <1>15 DEF vars, bounds, NumsInv, TypeInv, LedgerShape
<1> QED
  BY <1>1, <1>2, <1>3, <1>4, <1>5, <1>6, <1>7, <1>8, <1>9, <1>10, <1>11, <1>12,
     <1>13, <1>14, <1>15
     DEF Next, Run

RunnerInv == TypeInv /\ ClosingInv /\ JournalInv /\ NumsInv

\* The invariant holds in every reachable state.
LEMMA RunnerInvCorrect == Spec => []RunnerInv
<1>1. Init => RunnerInv
  <2> SUFFICES ASSUME Init PROVE RunnerInv
    OBVIOUS
  <2>1. TypeInv
    BY TypesInit
  <2>2. ledger = NewLedger /\ disk = NewLedger /\ NewLedger.log = EmptyLog /\ NewLedger.current = 0
        /\ NewLedger.interrupted = 0 /\ EmptyLog.len = 0 /\ EmptyLog.nums = {} /\ EmptyLog.twice = FALSE
    BY DEF Init, NewLedger, EmptyLog
  <2>3. ClosingInv /\ NumsInv
    BY <2>2 DEF Init, ClosingInv, NumsInv
  <2>4. JournalInv
    BY <2>2 DEF Init, JournalInv
  <2> QED BY <2>1, <2>3, <2>4 DEF RunnerInv
<1>2. RunnerInv /\ [Next]_vars => RunnerInv'
  BY TypesStep, ClosingStep, JournalStep, NumsStep DEF RunnerInv
<1> QED BY <1>1, <1>2, PTL DEF Spec

\* Every reachable state of a run is well typed.
THEOREM TypeCorrect == Spec => []TypeOK
<1>1. TypeInv => TypeOK
  BY DEF TypeInv, TypeOK, LedgerOk, LedgerShape, LogShape, Counted, Record, Status
<1>2. RunnerInv => TypeInv
  BY DEF RunnerInv
<1> QED BY <1>1, <1>2, RunnerInvCorrect, PTL

\* A crash or an interrupt costs the pass that was in progress at most, and a pass
\* number enters the log twice only in a run that was interrupted and then resumed
\* more than once (passes.jsonl is appended before the ledger is written;
\* interrupted_at_pass is never cleared).
THEOREM Kept == Spec => []LedgerKept
<1>1. RunnerInv => LedgerKept
  <2> SUFFICES ASSUME RunnerInv PROVE LedgerKept
    OBVIOUS
  <2>1. disk.log = ledger.log /\ {interrupts, crashes, resumes} \subseteq Nat
    BY DEF RunnerInv, TypeInv
  <2>2. ledger.log.twice => interrupts > 0 /\ resumes >= 2
    BY <2>1 DEF RunnerInv, NumsInv
  <2>3. journal - disk.log.len <= crashes + (IF pc = "save" THEN 1 ELSE 0)
    BY <2>1 DEF RunnerInv, JournalInv
  <2> QED BY <2>2, <2>3 DEF LedgerKept
<1> QED BY <1>1, RunnerInvCorrect, PTL

\* No pass goes past a cap that is known and not zero but the FINAL_VERDICT of a converged run,
\* whichever interrupts, crashes and resumptions the run went through: the
\* safety part of CapEnds.
THEOREM WithinTheCap == Spec => CapHolds
<1>1. RunnerInv' => (pc' = "ask" => WithinCap')
  BY DEF RunnerInv, ClosingInv
<1>2. RunnerInv /\ RunnerInv' /\ [Next]_vars => [pc' = "ask" => WithinCap']_vars
  BY <1>1
<1> QED BY <1>2, RunnerInvCorrect, PTL DEF CapHolds, Spec

------------------------------------------------------------------------------

\* A run that says it has converged has had its adversarial passes, also after
\* a crash, and after a failed DECOMPOSE (check_convergence; no pass takes one
\* back, and only DECOMPOSE raises the floor).
THEOREM Earned == Spec => []ConvergedIsEarned
<1>1. ASSUME RunnerInv, ConvergedIsEarned, [Next]_vars PROVE ConvergedIsEarned'
  <2>1. TypeInv /\ ClosingInv
    BY <1>1 DEF RunnerInv
  <2>2. ASSUME UNCHANGED <<ledger, reason>> PROVE ConvergedIsEarned'
    BY <2>2, <1>1 DEF ConvergedIsEarned, AdversarialOk, Required
  <2>3. ASSUME reason' # "converged" PROVE ConvergedIsEarned'
    BY <2>3 DEF ConvergedIsEarned
  <2>4. Converged => AdversarialOk
    BY DEF Converged, Gate
  <2>5. ASSUME ledger'.log = ledger.log, ledger'.phases = ledger.phases,
               reason' = "converged" => reason = "converged" \/ Converged
        PROVE  ConvergedIsEarned'
    BY <2>4, <2>5, <1>1 DEF ConvergedIsEarned, AdversarialOk, Required
  <2>6. ASSUME CapHit PROVE ConvergedIsEarned'
    BY <2>5, <2>6 DEF CapHit
  <2>7. ASSUME Close \/ Select \/ Final PROVE ConvergedIsEarned'
    <3>1. ledger'.log = ledger.log /\ ledger'.phases = ledger.phases
      BY <2>1, <2>7 DEF Close, Select, Final, Begin, TypeInv, LedgerShape
    <3>2. reason' = reason \/ Converged
      BY <2>7 DEF Close, Closes, Select, Final
    <3> QED BY <2>5, <3>1, <3>2
  <2>8. ASSUME Interrupted \/ Resume PROVE ConvergedIsEarned'
    BY <2>3, <2>8 DEF Interrupted, Resume
  <2>9. ASSUME Network \/ Invalid \/ ParseFailed \/ Signal \/ Crash PROVE ConvergedIsEarned'
    BY <2>2, <2>9 DEF Network, Invalid, ParseFailed, Signal, Crash
  <2>10. ASSUME Completed PROVE ConvergedIsEarned'
    <3>1. CASE reason = "converged"
      <4>1. kind # "DECOMPOSE"
        BY <2>1, <2>10, <3>1 DEF Completed, ClosingInv
      <4> QED BY <2>1, <2>5, <2>10, <3>1, <4>1 DEF Completed, TypeInv, LedgerShape
    <3>2. CASE reason # "converged"
      BY <2>3, <2>10, <3>2 DEF Completed
    <3> QED BY <3>1, <3>2
  <2>11. ASSUME Save PROVE ConvergedIsEarned'
    <3>1. CASE reason # "converged"
      BY <2>3, <2>11, <3>1 DEF Save
    <3>2. CASE reason = "converged"
      <4>1. ledger'.log = Appended(ledger.log) /\ ledger'.phases = ledger.phases
        BY <2>1, <2>11 DEF Save, TypeInv, LedgerShape
      <4>2. Required' = Required
        BY <4>1 DEF Required
      <4>3. Appended(ledger.log).adv \in {ledger.log.adv, ledger.log.adv + 1}
        BY DEF Appended
      <4>4. ledger.log.adv \in Nat /\ ledger.phases \in Nat
        BY <2>1 DEF TypeInv, LedgerShape, LogShape
      <4>5. Required \in Nat
        BY <4>4, FloorType DEF Required
      <4>6. ledger.log.adv >= Required
        BY <1>1, <3>2 DEF ConvergedIsEarned, AdversarialOk
      <4>7. Appended(ledger.log).adv >= Required
        BY <4>3, <4>4, <4>5, <4>6
      <4>8. AdversarialOk'
        BY <4>1, <4>2, <4>7 DEF AdversarialOk
      <4> QED BY <4>8 DEF ConvergedIsEarned
    <3> QED BY <3>1, <3>2
  <2>12. ASSUME End PROVE ConvergedIsEarned'
    <3>1. ledger'.log = ledger.log /\ ledger'.phases = ledger.phases /\ UNCHANGED reason
      BY <2>1, <2>12 DEF End, TypeInv, LedgerShape
    <3> QED BY <2>5, <3>1
  <2>13. CASE UNCHANGED vars
    BY <2>2, <2>13 DEF vars
  <2> QED
    BY <1>1, <2>6, <2>7, <2>8, <2>9, <2>10, <2>11, <2>12, <2>13 DEF Next, Run
<1>2. Init => ConvergedIsEarned
  BY DEF Init, ConvergedIsEarned
<1> QED BY <1>1, <1>2, RunnerInvCorrect, PTL DEF Spec
==============================================================================
