------------------------- MODULE CouncilQueryProofs -------------------------
(***************************************************************************)
(* Theorems about CouncilQuery, for any number of calls, models, attempts  *)
(* and faults, and every mode, key and switch they run with.               *)
(***************************************************************************)
EXTENDS CouncilQuery, FiniteSetTheorems, TLAPS

Outcome == {"text", "empty", "error"}

\* The sources of a result that cost something
Billed(m) == {s \in DOMAIN m \cap (Api \cup Direct) : m[s] # "error"}

\* An action of one query, and a step that leaves it alone.
Act(q) ==
    \/ Step(q) \/ Call(q) \/ BrowserRaises(q) \/ SaveRaises(q)
    \/ Silent(q) \/ Timeout(q) \/ Read(q)
Kept(q) ==
    /\ setting' = setting /\ pc'[q] = pc[q] /\ runs'[q] = runs[q] /\ line'[q] = line[q]
    /\ models'[q] = models[q] /\ synth'[q] = synth[q] /\ failed'[q] = failed[q]
    /\ answered'[q] = answered[q] /\ n'[q] = n[q] /\ owed'[q] = owed[q]
    /\ own'[q] = own[q] /\ told'[q] = told[q] /\ got'[q] = got[q]
    /\ q \in dropped' <=> q \in dropped
    /\ q \in unlogged' <=> q \in unlogged

\* A process has saved one result at most, two in mode auto once it has gone on
\* to the browser; and it was started twice at most.
SavedOK(q) ==
    /\ pc[q] = "idle" => runs[q] = 0 /\ n[q] = 0
    /\ pc[q] \in Running \cup {"exit"} =>
         /\ runs[q] >= 1
         /\ n[q] <= 2 * (runs[q] - 1)
                    + (IF pc[q] # "start" /\ line[q] = "browser" THEN 1 ELSE 0)
                    + (IF pc[q] \in {"write", "own", "log", "print", "exit"} THEN 1 ELSE 0)
         /\ pc[q] \in {"write", "own", "log", "print"} => n[q] >= 1
    /\ pc[q] = "browser" => line[q] = "browser"
SavedInv == \A q \in Query : SavedOK(q)

\* What the process has to log has been billed.
CostOK(q) ==
    /\ IsFiniteSet(Billed(models[q]))
    /\ pc[q] \in {"models", "sonar", "health", "tier3", "synth", "open", "write", "own", "log"} =>
         TotalCost(q) <= owed[q]
    /\ pc[q] \in {"idle", "start", "health"} => models[q] = NoModels
    /\ pc[q] \in {"idle", "start", "health", "models", "sonar", "tier3", "synth"} =>
         synth[q] # "opus"
CostInv == \A q \in Query : CostOK(q)

TypeInv == TypeOK /\ SavedInv /\ CostInv

\* No text is lost so far; and where the sources are thrown away, none had any, but
\* for the result that could not be saved.
AnswerOK(q) ==
    q \notin dropped =>
        /\ answered[q] \subseteq {s \in DOMAIN models[q] : models[q][s] = "text"}
        /\ pc[q] \in {"idle", "start", "health", "sonar", "browser"} => answered[q] = {}
AnswerInv == \A q \in Query : AnswerOK(q)

\* Without fallbacks the log will account for exactly what is owed, unless it misses a
\* line.
LedgerOK(q) ==
    /\ told[q] \in {"answer", "busy", "empty"} => pc[q] = "done"
    /\ ~setting[q].fallback => pc[q] \notin {"health", "sonar"}
    /\ ~setting[q].fallback /\ q \notin unlogged =>
        /\ pc[q] \in {"models", "tier3", "synth", "open", "write", "own", "log"} =>
             owed[q] = TotalCost(q)
        /\ pc[q] \in {"idle", "start", "browser", "print"} => owed[q] = 0
        /\ told[q] \in {"answer", "busy", "empty"} => owed[q] = 0
LedgerInv == \A q \in Query : LedgerOK(q)

\* A call that is not met has had latest to itself since it opened it.
FileOK(q) ==
    /\ pc[q] \in {"log", "print"} => own[q] = n[q]
    /\ told[q] # "nothing" => pc[q] = "done"
    /\ told[q] \in {"answer", "busy"} => own[q] = n[q]
    /\ got[q] # None => told[q] \in {"answer", "busy"}
    /\ q \notin met /\ pc[q] = "write" => q \notin mixed
    /\ q \notin met /\ (pc[q] \in {"write", "own", "log", "print"} \/ told[q] \in {"answer", "busy"}) =>
         /\ \A r \in Query \ {q} : pc[r] # "write"
         /\ pc[q] # "write" => latest = <<q, n[q]>>
    /\ q \notin met /\ got[q] # None => got[q] = <<q, n[q]>>
FileInv == \A q \in Query : FileOK(q)

------------------------------------------------------------------------------

\* What a call's outcome does to a result.
LEMMA WithType ==
    ASSUME NEW m \in Result, NEW s \in Source, NEW o \in Outcome
    PROVE  /\ With(m, s, o) \in Result
           /\ DOMAIN With(m, s, o) = DOMAIN m \cup {s}
           /\ With(m, s, o)[s] = o
           /\ \A x \in DOMAIN m : x # s => With(m, s, o)[x] = m[x]
<1> DEFINE D == DOMAIN m \cup {s}
<1>1. PICK S \in SUBSET Source : m \in [S -> Outcome]
  BY DEF Result, Outcome
<1>2. D \in SUBSET Source /\ With(m, s, o) \in [D -> Outcome]
  BY <1>1 DEF With
<1>3. With(m, s, o) \in Result
  BY <1>2 DEF Result, Outcome
<1> QED BY <1>1, <1>3 DEF With

\* A result has the outcomes of some sources.
LEMMA ResultType ==
    ASSUME NEW m \in Result
    PROVE  DOMAIN m \subseteq Source /\ \A s \in DOMAIN m : m[s] \in Outcome
BY DEF Result, Outcome

\* The empty result, and that of the council page.
LEMMA OtherResults ==
    /\ NoModels \in Result /\ DOMAIN NoModels = {}
    /\ \A cards \in {{}, Card} : [s \in cards |-> "text"] \in Result
<1>1. NoModels \in [{} -> Outcome]
  BY DEF NoModels, Outcome
<1>2. \A cards \in {{}, Card} : cards \in SUBSET Source /\ [s \in cards |-> "text"] \in [cards -> Outcome]
  BY DEF Source, Outcome
<1> QED BY <1>1, <1>2 DEF Result, Outcome, NoModels

\* The kinds of sources do not overlap.
LEMMA Kinds ==
    /\ Sonar \notin Api \cup Direct
    /\ Card \cap (Api \cup Direct) = {}
    /\ Sonar \in Source
    /\ \A m \in Model : <<"api", m>> \in Api /\ <<"direct", m>> \in Direct
    /\ Api \subseteq Source /\ Direct \subseteq Source /\ Card \subseteq Source
BY DEF Sonar, Api, Direct, Card, Source

\* What is billed when a source returns.
LEMMA BilledWith ==
    ASSUME NEW m \in Result, NEW s \in Source, s \notin DOMAIN m \/ s = Sonar, NEW o \in Outcome,
           IsFiniteSet(Billed(m))
    PROVE  /\ IsFiniteSet(Billed(With(m, s, o)))
           /\ s \in Api \cup Direct /\ o # "error" =>
                Cardinality(Billed(With(m, s, o))) = Cardinality(Billed(m)) + 1
           /\ s = Sonar \/ o = "error" =>
                Cardinality(Billed(With(m, s, o))) = Cardinality(Billed(m))
<1> DEFINE w == With(m, s, o)
<1>1. /\ DOMAIN w = DOMAIN m \cup {s} /\ w[s] = o
      /\ \A x \in DOMAIN m : x # s => w[x] = m[x]
  BY WithType
<1>2. CASE s \in Api \cup Direct /\ o # "error"
  <2>1. Billed(w) = Billed(m) \cup {s} /\ s \notin Billed(m)
    BY <1>1, <1>2, Kinds DEF Billed
  <2> QED BY <2>1, <1>2, FS_AddElement, Kinds DEF Outcome
<1>3. CASE ~(s \in Api \cup Direct /\ o # "error")
  <2>1. Billed(w) = Billed(m)
    BY <1>1, <1>3, Kinds DEF Billed
  <2> QED BY <2>1, <1>3, Kinds
<1> QED BY <1>2, <1>3

\* The empty result and the cards cost nothing.
LEMMA BilledNothing ==
    /\ Billed(NoModels) = {}
    /\ \A cards \in {{}, Card} : Billed([s \in cards |-> "text"]) = {}
BY OtherResults, Kinds DEF Billed

\* What Log accounts for.
LEMMA CostOfBilled ==
    ASSUME NEW q \in Query
    PROVE  /\ TotalCost(q) =
                Cardinality(Billed(models[q])) + (IF synth[q] = "opus" THEN 1 ELSE 0)
           /\ TotalCost(q)' =
                Cardinality(Billed(models'[q])) + (IF synth'[q] = "opus" THEN 1 ELSE 0)
BY DEF TotalCost, ModelCost, Billed

------------------------------------------------------------------------------

\* Every part of the process has a number of attempts.
LEMMA Parts ==
    /\ NoTries \in [Part -> Nat] /\ \A x \in Part : NoTries[x] = 0
    /\ Model \subseteq Part /\ "opus" \in Part
BY DEF NoTries, Part

\* The calls start well typed.
LEMMA TypeInit == Init => TypeInv
<1> SUFFICES ASSUME Init PROVE TypeInv
  OBVIOUS
<1> USE DEF Init
<1>1. ProcessOK
  BY DEF ProcessOK
<1>2. TriesOK
  <2>1. \A q \in Query : tries[q] = NoTries
    OBVIOUS
  <2> QED BY <2>1, Parts, RetryAssumption DEF TriesOK
<1>3. ResultOK
  BY OtherResults DEF ResultOK
<1>4. FilesOK
  BY FaultAssumption DEF FilesOK
<1>5. SavedInv
  BY DEF SavedInv, SavedOK, Running
<1>6. CostInv
  BY BilledNothing, FS_EmptySet DEF CostInv, CostOK
<1> QED BY <1>1, <1>2, <1>3, <1>4, <1>5, <1>6 DEF TypeInv, TypeOK

\* A call's process is run twice at most.
LEMMA ProcessStep == TypeInv /\ [Next]_vars => ProcessOK'
<1> SUFFICES ASSUME TypeInv, [Next]_vars PROVE ProcessOK'
  OBVIOUS
<1>1. ASSUME NEW p \in Query, Call(p) PROVE ProcessOK'
  BY <1>1 DEF Call, Goto, memory, files, log, TypeInv, TypeOK, ProcessOK, Running
<1>2. ASSUME NEW p \in Query, Start(p) PROVE ProcessOK'
  BY <1>2 DEF Start, Goto, Process, Outside, files, log, TypeInv, TypeOK, ProcessOK, Running, First,
     Pipeline
<1>3. ASSUME NEW p \in Query, Health(p) PROVE ProcessOK'
  BY <1>3 DEF Health, Goto, Process, Outside, files, log, TypeInv, TypeOK, ProcessOK, Running
<1>4. ASSUME NEW p \in Query, Gathered(p) PROVE ProcessOK'
  BY <1>4 DEF Gathered, Goto, Process, Outside, files, log, TypeInv, TypeOK, ProcessOK, Running
<1>5. ASSUME NEW p \in Query, AskSonar(p) PROVE ProcessOK'
  BY <1>5 DEF AskSonar, Returned, Goto, Process, Outside, files, log, TypeInv, TypeOK, ProcessOK,
     Running
<1>6. ASSUME NEW p \in Query, ProvidersGathered(p) PROVE ProcessOK'
  BY <1>6 DEF ProvidersGathered, Goto, Process, Outside, files, log, TypeInv, TypeOK, ProcessOK,
     Running
<1>7. ASSUME NEW p \in Query, Synthesise(p) PROVE ProcessOK'
  BY <1>7 DEF Synthesise, Paid, Goto, Process, Outside, files, log, TypeInv, TypeOK, ProcessOK,
     Running
<1>8. ASSUME NEW p \in Query, BrowserAnswers(p) PROVE ProcessOK'
  BY <1>8 DEF BrowserAnswers, Goto, Process, Outside, files, log, TypeInv, TypeOK, ProcessOK, Running
<1>9. ASSUME NEW p \in Query, BrowserFails(p) PROVE ProcessOK'
  BY <1>9 DEF BrowserFails, Goto, Process, Outside, files, log, TypeInv, TypeOK, ProcessOK, Running
<1>10. ASSUME NEW p \in Query, BrowserRaises(p) PROVE ProcessOK'
  BY <1>10 DEF BrowserRaises, Fault, Goto, Process, files, log, TypeInv, TypeOK, ProcessOK, Running
<1>11. ASSUME NEW p \in Query, Open(p) PROVE ProcessOK'
  BY <1>11 DEF Open, OpenLatest, Goto, process, Saving, memory, log, TypeInv, TypeOK, ProcessOK,
     Running
<1>12. ASSUME NEW p \in Query, Write(p) PROVE ProcessOK'
  BY <1>12 DEF Write, WriteLatest, Goto, process, Saving, memory, log, TypeInv, TypeOK, ProcessOK,
     Running
<1>13. ASSUME NEW p \in Query, Own(p) PROVE ProcessOK'
  BY <1>13 DEF Own, OwnFile, Goto, process, memory, log, TypeInv, TypeOK, ProcessOK, Running
<1>14. ASSUME NEW p \in Query, Log(p) PROVE ProcessOK'
  BY <1>14 DEF Log, Goto, Process, Outside, files, log, TypeInv, TypeOK, ProcessOK, Running
<1>15. ASSUME NEW p \in Query, PrintResult(p) PROVE ProcessOK'
  BY <1>15 DEF PrintResult, Return, Ended, files, log, Goto, TypeInv, TypeOK, ProcessOK, Running
<1>16. ASSUME NEW p \in Query, Silent(p) PROVE ProcessOK'
  BY <1>16 DEF Silent, Ended, Fault, Goto, Return, files, log, TypeInv, TypeOK, ProcessOK, Running
<1>17. ASSUME NEW p \in Query, Exit(p) PROVE ProcessOK'
  BY <1>17 DEF Exit, Return, Ended, files, log, Goto, TypeInv, TypeOK, ProcessOK, Running
<1>18. ASSUME NEW p \in Query, Timeout(p) PROVE ProcessOK'
  BY <1>18 DEF Timeout, Fault, Return, Ended, files, log, Goto, TypeInv, TypeOK, ProcessOK, Running
<1>19. ASSUME NEW p \in Query, NEW m \in Model, 
             \/ AskModel(p, m) \/ AskProvider(p, m)
      PROVE  ProcessOK'
  <2>1. UNCHANGED <<setting, pc, runs, line, synth, failed>>
    BY <1>19 DEF AskModel, Returned, Paid, Process, Outside, files, log, AskProvider
  <2> QED BY <2>1 DEF TypeInv, TypeOK, ProcessOK, Running
<1>20. ASSUME NEW p \in Query, Read(p) PROVE ProcessOK'
  <2>1. UNCHANGED <<setting, pc, runs, line, synth, failed>>
    BY <1>20 DEF Read, process, files, log, memory
  <2> QED BY <2>1 DEF TypeInv, TypeOK, ProcessOK, Running
<1>21. CASE UNCHANGED vars
  BY <1>21 DEF vars, memory, process, files, log, TypeInv, TypeOK, ProcessOK, Running
<1>22. ASSUME NEW p \in Query, SaveRaises(p) PROVE ProcessOK'
  BY <1>22 DEF SaveRaises, Goto, TypeInv, TypeOK, ProcessOK, Running
<1> QED
  BY <1>1, <1>2, <1>3, <1>4, <1>5, <1>6, <1>7, <1>8, <1>9, <1>10, <1>11, <1>12,
     <1>13, <1>14, <1>15, <1>16, <1>17, <1>18, <1>19, <1>20, <1>21, <1>22
     DEF Next, Step

\* Attempts stay within their retries.
LEMMA TriesStep == TypeInv /\ [Next]_vars => TriesOK'
<1> SUFFICES ASSUME TypeInv, [Next]_vars PROVE TriesOK'
  OBVIOUS
<1>1. ASSUME NEW p \in Query, NEW m \in Model, AskModel(p, m) PROVE TriesOK'
  <2> DEFINE t0 == [tries[p] EXCEPT ![m] = 0]
             t1 == [tries[p] EXCEPT ![m] = @ + 1]
  <2>1. \/ tries' = [tries EXCEPT ![p][m] = 0]
        \/ ~Last(tries[p][m], Retries) /\ tries' = [tries EXCEPT ![p][m] = @ + 1]
    BY <1>1 DEF AskModel
  <2>8. [tries EXCEPT ![p][m] = 0] = [tries EXCEPT ![p] = t0]
    OBVIOUS
  <2>9. [tries EXCEPT ![p][m] = @ + 1] = [tries EXCEPT ![p] = t1]
    OBVIOUS
  <2>2. /\ tries[p] \in [Part -> Nat] /\ \A k \in Model : tries[p][k] <= Retries
        /\ tries[p]["opus"] <= SynthesisRetries
    BY DEF TypeInv, TypeOK, TriesOK
  <2>3. /\ t0 \in [Part -> Nat] /\ \A k \in Model : t0[k] <= Retries
        /\ t0["opus"] <= SynthesisRetries
    BY <2>2, Parts, RetryAssumption
  <2>4. ~Last(tries[p][m], Retries) =>
        /\ t1 \in [Part -> Nat] /\ \A k \in Model : t1[k] <= Retries
        /\ t1["opus"] <= SynthesisRetries
    BY <2>2, Parts, RetryAssumption, OpusAssumption DEF Last
  <2>5. PICK t \in [Part -> Nat] :
            /\ tries' = [tries EXCEPT ![p] = t]
            /\ \A k \in Model : t[k] <= Retries
            /\ t["opus"] <= SynthesisRetries
    BY <2>1, <2>8, <2>9, <2>3, <2>4
  <2> HIDE DEF t0, t1
  <2> QED BY <2>5 DEF TypeInv, TypeOK, TriesOK
<1>2. ASSUME NEW p \in Query, Synthesise(p) PROVE TriesOK'
  <2> DEFINE t0 == [tries[p] EXCEPT !["opus"] = 0]
             t1 == [tries[p] EXCEPT !["opus"] = @ + 1]
  <2>1. \/ tries' = [tries EXCEPT ![p]["opus"] = 0]
        \/ ~Last(tries[p]["opus"], SynthesisRetries) /\ tries' = [tries EXCEPT ![p]["opus"] = @ + 1]
    BY <1>2 DEF Synthesise
  <2>8. [tries EXCEPT ![p]["opus"] = 0] = [tries EXCEPT ![p] = t0]
    OBVIOUS
  <2>9. [tries EXCEPT ![p]["opus"] = @ + 1] = [tries EXCEPT ![p] = t1]
    OBVIOUS
  <2>2. /\ tries[p] \in [Part -> Nat] /\ \A k \in Model : tries[p][k] <= Retries
        /\ tries[p]["opus"] <= SynthesisRetries
    BY DEF TypeInv, TypeOK, TriesOK
  <2>3. /\ t0 \in [Part -> Nat] /\ \A k \in Model : t0[k] <= Retries
        /\ t0["opus"] <= SynthesisRetries
    BY <2>2, Parts, RetryAssumption
  <2>4. ~Last(tries[p]["opus"], SynthesisRetries) =>
        /\ t1 \in [Part -> Nat] /\ \A k \in Model : t1[k] <= Retries
        /\ t1["opus"] <= SynthesisRetries
    BY <2>2, Parts, RetryAssumption, OpusAssumption DEF Last
  <2>5. PICK t \in [Part -> Nat] :
            /\ tries' = [tries EXCEPT ![p] = t]
            /\ \A k \in Model : t[k] <= Retries
            /\ t["opus"] <= SynthesisRetries
    BY <2>1, <2>8, <2>9, <2>3, <2>4
  <2> HIDE DEF t0, t1
  <2> QED BY <2>5 DEF TypeInv, TypeOK, TriesOK
<1>3. ASSUME NEW p \in Query, PrintResult(p) PROVE TriesOK'
  <2>1. tries' = [tries EXCEPT ![p] = NoTries]
    BY <1>3 DEF PrintResult, Ended
  <2> QED BY <2>1, Parts, RetryAssumption DEF TypeInv, TypeOK, TriesOK
<1>4. ASSUME NEW p \in Query, Silent(p) PROVE TriesOK'
  <2>1. tries' = [tries EXCEPT ![p] = NoTries]
    BY <1>4 DEF Silent, Ended
  <2> QED BY <2>1, Parts, RetryAssumption DEF TypeInv, TypeOK, TriesOK
<1>5. ASSUME NEW p \in Query, Exit(p) PROVE TriesOK'
  <2>1. tries' = [tries EXCEPT ![p] = NoTries]
    BY <1>5 DEF Exit, Ended
  <2> QED BY <2>1, Parts, RetryAssumption DEF TypeInv, TypeOK, TriesOK
<1>6. ASSUME NEW p \in Query, Timeout(p) PROVE TriesOK'
  <2>1. tries' = [tries EXCEPT ![p] = NoTries]
    BY <1>6 DEF Timeout, Ended
  <2> QED BY <2>1, Parts, RetryAssumption DEF TypeInv, TypeOK, TriesOK
<1>7. ASSUME NEW p \in Query, 
             \/ Call(p) \/ Start(p) \/ Health(p) \/ Gathered(p) \/ AskSonar(p)
             \/ ProvidersGathered(p) \/ BrowserAnswers(p) \/ BrowserFails(p)
             \/ BrowserRaises(p) \/ SaveRaises(p) \/ Open(p) \/ Write(p) \/ Own(p) \/ Log(p)
             \/ Read(p)
      PROVE  TriesOK'
  <2>1. UNCHANGED <<tries>>
    BY <1>7 DEF Call, Goto, memory, files, log, Start, Process, Outside, Health, Gathered, AskSonar,
       Returned, ProvidersGathered, BrowserAnswers, BrowserFails, BrowserRaises, SaveRaises, Fault, Open,
       OpenLatest, process, Write, WriteLatest, Own, Log, Read
  <2> QED BY <2>1 DEF TypeInv, TypeOK, TriesOK
<1>8. ASSUME NEW p \in Query, NEW m \in Model, AskProvider(p, m) PROVE TriesOK'
  <2>1. UNCHANGED <<tries>>
    BY <1>8 DEF AskProvider, Returned, Paid, Process, Outside, files, log
  <2> QED BY <2>1 DEF TypeInv, TypeOK, TriesOK
<1>9. CASE UNCHANGED vars
  BY <1>9 DEF vars, memory, process, files, log, TypeInv, TypeOK, TriesOK
<1> QED
  BY <1>1, <1>2, <1>3, <1>4, <1>5, <1>6, <1>7, <1>8, <1>9
     DEF Next, Step

\* Results are results, and what is owed never gets below nothing.
LEMMA ResultStep == TypeInv /\ [Next]_vars => ResultOK'
<1> SUFFICES ASSUME TypeInv, [Next]_vars PROVE ResultOK'
  OBVIOUS
<1>1. ASSUME NEW p \in Query, NEW m \in Model, AskModel(p, m) PROVE ResultOK'
  <2>1. ASSUME NEW o \in Outcome PROVE With(models[p], <<"api", m>>, o) \in Result
    BY WithType, Kinds DEF TypeInv, TypeOK, ResultOK
  <2>2. models' \in [Query -> Result]
    <3>1. (\E o \in Outcome : models' = [models EXCEPT ![p] = With(models[p], <<"api", m>>, o)]) \/ UNCHANGED models
      BY <1>1 DEF AskModel, Returned, Outcome
    <3>2. models \in [Query -> Result]
      BY DEF TypeInv, TypeOK, ResultOK
    <3> QED BY <2>1, <3>1, <3>2
  <2>3. owed' \in [Query -> Nat]
    BY <1>1 DEF AskModel, Paid, TypeInv, TypeOK, ResultOK
  <2>4. answered' = [answered EXCEPT ![p] = @ \cup {<<"api", m>>}] \/ UNCHANGED answered
    BY <1>1 DEF AskModel, Returned
  <2>5. answered' \in [Query -> SUBSET Source]
    BY <2>4, Kinds DEF TypeInv, TypeOK, ResultOK
  <2>6. UNCHANGED <<dropped, unlogged>>
    BY <1>1 DEF AskModel, Process, Outside
  <2> QED BY <2>2, <2>3, <2>5, <2>6 DEF ResultOK, TypeInv, TypeOK
<1>2. ASSUME NEW p \in Query, AskSonar(p) PROVE ResultOK'
  <2>1. ASSUME NEW o \in Outcome PROVE With(models[p], Sonar, o) \in Result
    BY WithType, Kinds DEF TypeInv, TypeOK, ResultOK
  <2>2. models' \in [Query -> Result]
    <3>1. (\E o \in Outcome : models' = [models EXCEPT ![p] = With(models[p], Sonar, o)])
        \/ models' = [models EXCEPT ![p] = NoModels]
      BY <1>2 DEF AskSonar, Returned, Outcome
    <3>2. models \in [Query -> Result]
      BY DEF TypeInv, TypeOK, ResultOK
    <3> QED BY <2>1, <3>1, <3>2, OtherResults
  <2>3. owed' \in [Query -> Nat]
    BY <1>2 DEF AskSonar, Paid, TypeInv, TypeOK, ResultOK
  <2>4. answered' = [answered EXCEPT ![p] = @ \cup {Sonar}] \/ UNCHANGED answered
    BY <1>2 DEF AskSonar, Returned
  <2>5. answered' \in [Query -> SUBSET Source]
    BY <2>4, Kinds DEF TypeInv, TypeOK, ResultOK
  <2>6. UNCHANGED <<dropped, unlogged>>
    BY <1>2 DEF AskSonar, Process, Outside
  <2> QED BY <2>2, <2>3, <2>5, <2>6 DEF ResultOK, TypeInv, TypeOK
<1>3. ASSUME NEW p \in Query, NEW m \in Model, AskProvider(p, m) PROVE ResultOK'
  <2>1. ASSUME NEW o \in Outcome PROVE With(models[p], <<"direct", m>>, o) \in Result
    BY WithType, Kinds DEF TypeInv, TypeOK, ResultOK
  <2>2. models' \in [Query -> Result]
    <3>1. \E o \in Outcome : models' = [models EXCEPT ![p] = With(models[p], <<"direct", m>>, o)]
      BY <1>3 DEF AskProvider, Returned, Outcome
    <3>2. models \in [Query -> Result]
      BY DEF TypeInv, TypeOK, ResultOK
    <3> QED BY <2>1, <3>1, <3>2
  <2>3. owed' \in [Query -> Nat]
    BY <1>3 DEF AskProvider, Paid, TypeInv, TypeOK, ResultOK
  <2>4. answered' = [answered EXCEPT ![p] = @ \cup {<<"direct", m>>}] \/ UNCHANGED answered
    BY <1>3 DEF AskProvider, Returned
  <2>5. answered' \in [Query -> SUBSET Source]
    BY <2>4, Kinds DEF TypeInv, TypeOK, ResultOK
  <2>6. UNCHANGED <<dropped, unlogged>>
    BY <1>3 DEF AskProvider, Process, Outside
  <2> QED BY <2>2, <2>3, <2>5, <2>6 DEF ResultOK, TypeInv, TypeOK
<1>4. ASSUME NEW p \in Query, Synthesise(p) PROVE ResultOK'
  BY <1>4 DEF Synthesise, Paid, Goto, Process, Outside, files, log, TypeInv, TypeOK, ResultOK
<1>5. ASSUME NEW p \in Query, BrowserAnswers(p) PROVE ResultOK'
  <2>1. PICK cards \in {{}, Card} :
            /\ models' = [models EXCEPT ![p] = [s \in cards |-> "text"]]
            /\ answered' = [answered EXCEPT ![p] = @ \cup cards]
    BY <1>5 DEF BrowserAnswers
  <2>2. [s \in cards |-> "text"] \in Result /\ cards \in SUBSET Source
    BY OtherResults, Kinds
  <2> QED BY <1>5, <2>1, <2>2 DEF BrowserAnswers, Goto, Process, Outside, files, log, TypeInv, TypeOK, ResultOK
<1>6. ASSUME NEW p \in Query, BrowserFails(p) PROVE ResultOK'
  BY <1>6, OtherResults DEF BrowserFails, Goto, Process, Outside, files, log, TypeInv, TypeOK,
     ResultOK
<1>7. ASSUME NEW p \in Query, Log(p) PROVE ResultOK'
  <2>1. CostOK(p) /\ pc[p] = "log"
    BY <1>7 DEF TypeInv, CostInv, Log
  <2>2. TotalCost(p) \in Nat
    BY <2>1, CostOfBilled, FS_CardinalityType DEF CostOK
  <2>3. owed[p] - TotalCost(p) \in Nat
    BY <2>1, <2>2 DEF CostOK, TypeInv, TypeOK, ResultOK
  <2> QED BY <1>7, <2>3 DEF Log, Goto, Process, Outside, files, log, TypeInv, TypeOK, ResultOK
<1>8. ASSUME NEW p \in Query, PrintResult(p) PROVE ResultOK'
  BY <1>8, OtherResults DEF PrintResult, Return, Ended, files, log, Goto, TypeInv, TypeOK, ResultOK
<1>9. ASSUME NEW p \in Query, Silent(p) PROVE ResultOK'
  BY <1>9, OtherResults DEF Silent, Ended, Fault, Goto, Return, files, log, TypeInv, TypeOK, ResultOK
<1>10. ASSUME NEW p \in Query, Exit(p) PROVE ResultOK'
  BY <1>10, OtherResults DEF Exit, Return, Ended, files, log, Goto, TypeInv, TypeOK, ResultOK
<1>11. ASSUME NEW p \in Query, Timeout(p) PROVE ResultOK'
  BY <1>11, OtherResults DEF Timeout, Fault, Return, Ended, files, log, Goto, TypeInv, TypeOK,
     ResultOK
<1>12. ASSUME NEW p \in Query, 
             \/ Call(p) \/ Start(p) \/ Health(p) \/ Gathered(p) \/ ProvidersGathered(p)
             \/ BrowserRaises(p) \/ Open(p) \/ Write(p) \/ Own(p) \/ Read(p)
      PROVE  ResultOK'
  <2>1. UNCHANGED <<models, answered, owed, dropped, unlogged>>
    BY <1>12 DEF Call, Goto, memory, files, log, Start, Process, Outside, Health, Gathered,
       ProvidersGathered, BrowserRaises, Fault, Open, OpenLatest, process, Write, WriteLatest,
       Own, Read
  <2> QED BY <2>1 DEF TypeInv, TypeOK, ResultOK
<1>13. CASE UNCHANGED vars
  BY <1>13 DEF vars, memory, process, files, log, TypeInv, TypeOK, ResultOK
<1>14. ASSUME NEW p \in Query, SaveRaises(p) PROVE ResultOK'
  <2>1. models' = [models EXCEPT ![p] = NoModels] \/ models' = models
    BY <1>14 DEF SaveRaises
  <2>2. models' \in [Query -> Result]
    BY <2>1, OtherResults DEF TypeInv, TypeOK, ResultOK
  <2>3. dropped' \subseteq Query /\ unlogged' \subseteq Query /\ UNCHANGED <<answered, owed>>
    BY <1>14 DEF SaveRaises, TypeInv, TypeOK, ResultOK
  <2> QED BY <2>2, <2>3 DEF TypeInv, TypeOK, ResultOK
<1> QED
  BY <1>1, <1>2, <1>3, <1>4, <1>5, <1>6, <1>7, <1>8, <1>9, <1>10, <1>11, <1>12,
     <1>13, <1>14
     DEF Next, Step

\* A query saves four results at most.
LEMMA FilesStep == TypeInv /\ [Next]_vars => FilesOK'
<1> SUFFICES ASSUME TypeInv, [Next]_vars PROVE FilesOK'
  OBVIOUS
<1>1. ASSUME NEW p \in Query, BrowserRaises(p) PROVE FilesOK'
  BY <1>1, FaultAssumption DEF BrowserRaises, Fault, Goto, Process, files, log, TypeInv, TypeOK,
     FilesOK
<1>2. ASSUME NEW p \in Query, Open(p) PROVE FilesOK'
  <2>1. SavedOK(p) /\ pc[p] = "open" /\ runs[p] \in 0 .. 2 /\ n[p] \in 0 .. 4
    BY <1>2 DEF Open, TypeInv, TypeOK, FilesOK, SavedInv, ProcessOK
  <2>2. n[p] + 1 \in 0 .. 4
    BY <2>1 DEF SavedOK, Running
  <2> QED BY <1>2, <2>2 DEF Open, OpenLatest, Goto, process, Saving, memory, log, TypeInv, TypeOK, FilesOK
<1>3. ASSUME NEW p \in Query, Write(p) PROVE FilesOK'
  <2>1. n[p] \in 1 .. 4
    BY <1>3 DEF Write, SavedInv, SavedOK, TypeInv, TypeOK, FilesOK, Running
  <2> QED BY <1>3, <2>1 DEF Write, WriteLatest, Goto, process, Saving, memory, log, TypeInv, TypeOK, FilesOK
<1>4. ASSUME NEW p \in Query, Own(p) PROVE FilesOK'
  <2>1. n[p] \in 1 .. 4
    BY <1>4 DEF Own, SavedInv, SavedOK, TypeInv, TypeOK, FilesOK, Running
  <2> QED BY <1>4, <2>1 DEF Own, OwnFile, Goto, process, memory, log, TypeInv, TypeOK, FilesOK
<1>5. ASSUME NEW p \in Query, PrintResult(p) PROVE FilesOK'
  BY <1>5 DEF PrintResult, Return, Ended, files, log, Goto, TypeInv, TypeOK, FilesOK
<1>6. ASSUME NEW p \in Query, Silent(p) PROVE FilesOK'
  BY <1>6, FaultAssumption DEF Silent, Ended, Fault, Goto, Return, files, log, TypeInv, TypeOK,
     FilesOK
<1>7. ASSUME NEW p \in Query, Exit(p) PROVE FilesOK'
  BY <1>7 DEF Exit, Return, Ended, files, log, Goto, TypeInv, TypeOK, FilesOK
<1>8. ASSUME NEW p \in Query, Timeout(p) PROVE FilesOK'
  BY <1>8, FaultAssumption DEF Timeout, Fault, Return, Ended, files, log, Goto, TypeInv, TypeOK,
     FilesOK
<1>9. ASSUME NEW p \in Query, Read(p) PROVE FilesOK'
  BY <1>9 DEF Read, process, files, log, memory, TypeInv, TypeOK, FilesOK
<1>10. ASSUME NEW p \in Query, 
             \/ Call(p) \/ Start(p) \/ Health(p) \/ Gathered(p) \/ AskSonar(p)
             \/ ProvidersGathered(p) \/ Synthesise(p) \/ BrowserAnswers(p)
             \/ BrowserFails(p)
      PROVE  FilesOK'
  <2>1. UNCHANGED <<n, latest, own, mixed, met, told, got, faults>>
    BY <1>10 DEF Call, Goto, memory, files, log, Start, Process, Outside, Health, Gathered, AskSonar,
       Returned, ProvidersGathered, Synthesise, Paid, BrowserAnswers, BrowserFails
  <2> QED BY <2>1 DEF TypeInv, TypeOK, FilesOK
<1>11. ASSUME NEW p \in Query, NEW m \in Model, 
             \/ AskModel(p, m) \/ AskProvider(p, m)
      PROVE  FilesOK'
  <2>1. UNCHANGED <<n, latest, own, mixed, met, told, got, faults>>
    BY <1>11 DEF AskModel, Returned, Paid, Process, Outside, files, log, AskProvider
  <2> QED BY <2>1 DEF TypeInv, TypeOK, FilesOK
<1>12. CASE UNCHANGED vars
  BY <1>12 DEF vars, memory, process, files, log, TypeInv, TypeOK, FilesOK
<1>13. ASSUME NEW p \in Query, Log(p) PROVE FilesOK'
  BY <1>13, FaultAssumption DEF Log, Fault, files, TypeInv, TypeOK, FilesOK
<1>14. ASSUME NEW p \in Query, SaveRaises(p) PROVE FilesOK'
  BY <1>14, FaultAssumption DEF SaveRaises, Saving, Fault, TypeInv, TypeOK, FilesOK
<1> QED
  BY <1>1, <1>2, <1>3, <1>4, <1>5, <1>6, <1>7, <1>8, <1>9, <1>10, <1>11, <1>12, <1>13, <1>14
     DEF Next, Step

\* A process saves once, in mode auto once more after it has gone on to the browser.
LEMMA SavedStep == TypeInv /\ [Next]_vars => SavedInv'
<1> SUFFICES ASSUME TypeInv, [Next]_vars, NEW q \in Query PROVE SavedOK(q)'
  BY DEF SavedInv
<1>1. ASSUME NEW p \in Query, Call(p) PROVE SavedOK(q)'
  BY <1>1 DEF Call, Goto, memory, files, log, TypeInv, TypeOK, ProcessOK, FilesOK, SavedInv, SavedOK,
     Running
<1>2. ASSUME NEW p \in Query, Start(p) PROVE SavedOK(q)'
  <2>1. /\ First(setting[p]) \in {"browser", "tier3", "health", "models"}
        /\ First(setting[p]) = "browser" => Pipeline(setting[p]) = "browser"
    BY DEF First, Pipeline
  <2> QED BY <1>2, <2>1 DEF Start, Goto, Process, Outside, files, log, TypeInv, TypeOK, ProcessOK, FilesOK, SavedInv, SavedOK, Running
<1>3. ASSUME NEW p \in Query, Health(p) PROVE SavedOK(q)'
  BY <1>3 DEF Health, Goto, Process, Outside, files, log, TypeInv, TypeOK, ProcessOK, FilesOK,
     SavedInv, SavedOK, Running
<1>4. ASSUME NEW p \in Query, Gathered(p) PROVE SavedOK(q)'
  BY <1>4 DEF Gathered, Goto, Process, Outside, files, log, TypeInv, TypeOK, ProcessOK, FilesOK,
     SavedInv, SavedOK, Running
<1>5. ASSUME NEW p \in Query, AskSonar(p) PROVE SavedOK(q)'
  BY <1>5 DEF AskSonar, Returned, Goto, Process, Outside, files, log, TypeInv, TypeOK, ProcessOK,
     FilesOK, SavedInv, SavedOK, Running
<1>6. ASSUME NEW p \in Query, ProvidersGathered(p) PROVE SavedOK(q)'
  BY <1>6 DEF ProvidersGathered, Goto, Process, Outside, files, log, TypeInv, TypeOK, ProcessOK,
     FilesOK, SavedInv, SavedOK, Running
<1>7. ASSUME NEW p \in Query, Synthesise(p) PROVE SavedOK(q)'
  BY <1>7 DEF Synthesise, Paid, Goto, Process, Outside, files, log, TypeInv, TypeOK, ProcessOK,
     FilesOK, SavedInv, SavedOK, Running
<1>8. ASSUME NEW p \in Query, BrowserAnswers(p) PROVE SavedOK(q)'
  BY <1>8 DEF BrowserAnswers, Goto, Process, Outside, files, log, TypeInv, TypeOK, ProcessOK,
     FilesOK, SavedInv, SavedOK, Running
<1>9. ASSUME NEW p \in Query, BrowserFails(p) PROVE SavedOK(q)'
  BY <1>9 DEF BrowserFails, Goto, Process, Outside, files, log, TypeInv, TypeOK, ProcessOK, FilesOK,
     SavedInv, SavedOK, Running
<1>10. ASSUME NEW p \in Query, BrowserRaises(p) PROVE SavedOK(q)'
  BY <1>10 DEF BrowserRaises, Fault, Goto, Process, files, log, TypeInv, TypeOK, ProcessOK, FilesOK,
     SavedInv, SavedOK, Running
<1>11. ASSUME NEW p \in Query, Open(p) PROVE SavedOK(q)'
  BY <1>11 DEF Open, OpenLatest, Goto, process, Saving, memory, log, TypeInv, TypeOK, ProcessOK,
     FilesOK, SavedInv, SavedOK, Running
<1>12. ASSUME NEW p \in Query, Write(p) PROVE SavedOK(q)'
  BY <1>12 DEF Write, WriteLatest, Goto, process, Saving, memory, log, TypeInv, TypeOK, ProcessOK,
     FilesOK, SavedInv, SavedOK, Running
<1>13. ASSUME NEW p \in Query, Own(p) PROVE SavedOK(q)'
  BY <1>13 DEF Own, OwnFile, Goto, process, memory, log, TypeInv, TypeOK, ProcessOK, FilesOK,
     SavedInv, SavedOK, Running
<1>14. ASSUME NEW p \in Query, Log(p) PROVE SavedOK(q)'
  BY <1>14 DEF Log, Goto, Process, Outside, files, log, TypeInv, TypeOK, ProcessOK, FilesOK,
     SavedInv, SavedOK, Running, GoesOn
<1>15. ASSUME NEW p \in Query, PrintResult(p) PROVE SavedOK(q)'
  BY <1>15 DEF PrintResult, Return, Ended, files, log, Goto, TypeInv, TypeOK, ProcessOK, FilesOK,
     SavedInv, SavedOK, Running
<1>16. ASSUME NEW p \in Query, Silent(p) PROVE SavedOK(q)'
  <2>1. SavedOK(p) /\ pc[p] = "print" /\ runs[p] \in 0 .. 2 /\ n[p] \in 0 .. 4
    BY <1>16 DEF Silent, TypeInv, TypeOK, ProcessOK, FilesOK, SavedInv
  <2>2. n[p] <= 2 * (runs[p] - 1) + 2 /\ runs[p] >= 1
    BY <2>1 DEF SavedOK, Running
  <2>3. CASE q = p
    <3>1. CASE pc'[p] = "start"
      <4>1. runs[p] = 1 /\ runs'[p] = 2 /\ n'[p] = n[p]
        BY <1>16, <3>1 DEF Silent, Ended, Fault, Goto, Return, files, log, TypeInv, TypeOK, ProcessOK
      <4> QED BY <4>1, <2>2, <2>3, <3>1 DEF SavedOK, Running
    <3>2. CASE pc'[p] # "start"
      <4>1. pc'[p] = "done"
        BY <1>16, <3>2 DEF Silent, Ended, Fault, Goto, Return, files, log, TypeInv, TypeOK, ProcessOK
      <4> QED BY <4>1, <2>3 DEF SavedOK, Running
    <3> QED BY <3>1, <3>2
  <2>4. CASE q # p
    <3>1. SavedOK(q) /\ pc'[q] = pc[q] /\ runs'[q] = runs[q] /\ n'[q] = n[q] /\ line'[q] = line[q]
      BY <1>16, <2>4 DEF Silent, Ended, Fault, Goto, Return, files, log, TypeInv, TypeOK, ProcessOK, SavedInv
    <3> QED BY <3>1 DEF SavedOK
  <2> QED BY <2>3, <2>4
<1>17. ASSUME NEW p \in Query, Exit(p) PROVE SavedOK(q)'
  BY <1>17 DEF Exit, Return, Ended, files, log, Goto, TypeInv, TypeOK, ProcessOK, FilesOK, SavedInv,
     SavedOK, Running
<1>18. ASSUME NEW p \in Query, Timeout(p) PROVE SavedOK(q)'
  BY <1>18 DEF Timeout, Fault, Return, Ended, files, log, Goto, TypeInv, TypeOK, ProcessOK, FilesOK,
     SavedInv, SavedOK, Running
<1>19. ASSUME NEW p \in Query, NEW m \in Model, 
             \/ AskModel(p, m) \/ AskProvider(p, m)
      PROVE  SavedOK(q)'
  <2>1. UNCHANGED <<pc, runs, n, line>>
    BY <1>19 DEF AskModel, Returned, Paid, Process, Outside, files, log, AskProvider
  <2> QED BY <2>1 DEF TypeInv, TypeOK, ProcessOK, FilesOK, SavedInv, SavedOK, Running
<1>20. ASSUME NEW p \in Query, Read(p) PROVE SavedOK(q)'
  <2>1. UNCHANGED <<pc, runs, n, line>>
    BY <1>20 DEF Read, process, files, log, memory
  <2> QED BY <2>1 DEF TypeInv, TypeOK, ProcessOK, FilesOK, SavedInv, SavedOK, Running
<1>21. CASE UNCHANGED vars
  BY <1>21 DEF vars, memory, process, files, log, TypeInv, TypeOK, ProcessOK, FilesOK, SavedInv,
     SavedOK, Running
<1>22. ASSUME NEW p \in Query, SaveRaises(p) PROVE SavedOK(q)'
  <2>1. SavedOK(p) /\ pc[p] \in {"open", "write", "own", "log"} /\ runs[p] \in 0 .. 2 /\ n[p] \in 0 .. 4
    BY <1>22 DEF SaveRaises, TypeInv, TypeOK, ProcessOK, FilesOK, SavedInv
  <2>2. UNCHANGED <<n, runs>>
    BY <1>22 DEF SaveRaises
  <2>3. CASE q # p
    <3>1. SavedOK(q) /\ pc'[q] = pc[q] /\ line'[q] = line[q]
      BY <1>22, <2>3 DEF SaveRaises, Goto, TypeInv, TypeOK, ProcessOK, SavedInv
    <3> QED BY <2>2, <3>1 DEF SavedOK
  <2>4. CASE q = p /\ Drops(p)
    <3>1. pc'[p] = "browser" /\ line'[p] = "browser" /\ line[p] # "browser"
      BY <1>22, <2>4 DEF SaveRaises, Drops, Goto, TypeInv, TypeOK, ProcessOK
    <3> QED BY <2>1, <2>2, <2>4, <3>1 DEF SavedOK, Running
  <2>5. CASE q = p /\ ~Drops(p)
    <3>1. pc'[p] = "exit" /\ line'[p] = line[p]
      BY <1>22, <2>5 DEF SaveRaises, Goto, TypeInv, TypeOK, ProcessOK
    <3> QED BY <2>1, <2>2, <2>5, <3>1 DEF SavedOK, Running
  <2> QED BY <2>3, <2>4, <2>5
<1> QED
  BY <1>1, <1>2, <1>3, <1>4, <1>5, <1>6, <1>7, <1>8, <1>9, <1>10, <1>11, <1>12,
     <1>13, <1>14, <1>15, <1>16, <1>17, <1>18, <1>19, <1>20, <1>21, <1>22
     DEF Next, Step

\* A step is one query's, and the others' processes know nothing of it.
LEMMA Moves == TypeInv /\ [Next]_vars => \A q \in Query : Act(q) \/ Kept(q)
<1> SUFFICES ASSUME TypeInv, [Next]_vars, NEW q \in Query, ~Act(q) PROVE Kept(q)
  OBVIOUS
<1>1. ASSUME NEW p \in Query, Call(p), q # p PROVE Kept(q)
  BY <1>1 DEF Call, Goto, memory, files, log, Kept, TypeInv, TypeOK, ProcessOK, ResultOK, FilesOK
<1>2. ASSUME NEW p \in Query, Start(p), q # p PROVE Kept(q)
  BY <1>2 DEF Start, Goto, Process, Outside, files, log, Kept, TypeInv, TypeOK, ProcessOK, ResultOK,
     FilesOK
<1>3. ASSUME NEW p \in Query, Health(p), q # p PROVE Kept(q)
  BY <1>3 DEF Health, Goto, Process, Outside, files, log, Kept, TypeInv, TypeOK, ProcessOK, ResultOK,
     FilesOK
<1>4. ASSUME NEW p \in Query, NEW m \in Model, AskModel(p, m), q # p PROVE Kept(q)
  BY <1>4 DEF AskModel, Returned, Paid, Process, Outside, files, log, Kept, TypeInv, TypeOK,
     ProcessOK, ResultOK, FilesOK
<1>5. ASSUME NEW p \in Query, Gathered(p), q # p PROVE Kept(q)
  BY <1>5 DEF Gathered, Goto, Process, Outside, files, log, Kept, TypeInv, TypeOK, ProcessOK,
     ResultOK, FilesOK
<1>6. ASSUME NEW p \in Query, AskSonar(p), q # p PROVE Kept(q)
  BY <1>6 DEF AskSonar, Returned, Goto, Process, Outside, files, log, Kept, TypeInv, TypeOK,
     ProcessOK, ResultOK, FilesOK
<1>7. ASSUME NEW p \in Query, NEW m \in Model, AskProvider(p, m), q # p PROVE Kept(q)
  BY <1>7 DEF AskProvider, Returned, Paid, Process, Outside, files, log, Kept, TypeInv, TypeOK,
     ProcessOK, ResultOK, FilesOK
<1>8. ASSUME NEW p \in Query, ProvidersGathered(p), q # p PROVE Kept(q)
  BY <1>8 DEF ProvidersGathered, Goto, Process, Outside, files, log, Kept, TypeInv, TypeOK,
     ProcessOK, ResultOK, FilesOK
<1>9. ASSUME NEW p \in Query, Synthesise(p), q # p PROVE Kept(q)
  BY <1>9 DEF Synthesise, Paid, Goto, Process, Outside, files, log, Kept, TypeInv, TypeOK, ProcessOK,
     ResultOK, FilesOK
<1>10. ASSUME NEW p \in Query, BrowserAnswers(p), q # p PROVE Kept(q)
  BY <1>10 DEF BrowserAnswers, Goto, Process, Outside, files, log, Kept, TypeInv, TypeOK, ProcessOK,
     ResultOK, FilesOK
<1>11. ASSUME NEW p \in Query, BrowserFails(p), q # p PROVE Kept(q)
  BY <1>11 DEF BrowserFails, Goto, Process, Outside, files, log, Kept, TypeInv, TypeOK, ProcessOK,
     ResultOK, FilesOK
<1>12. ASSUME NEW p \in Query, BrowserRaises(p), q # p PROVE Kept(q)
  BY <1>12 DEF BrowserRaises, Fault, Goto, Process, files, log, Kept, TypeInv, TypeOK, ProcessOK,
     ResultOK, FilesOK
<1>13. ASSUME NEW p \in Query, Open(p), q # p PROVE Kept(q)
  BY <1>13 DEF Open, OpenLatest, Goto, process, Saving, memory, log, Kept, TypeInv, TypeOK,
     ProcessOK, ResultOK, FilesOK
<1>14. ASSUME NEW p \in Query, Write(p), q # p PROVE Kept(q)
  BY <1>14 DEF Write, WriteLatest, Goto, process, Saving, memory, log, Kept, TypeInv, TypeOK,
     ProcessOK, ResultOK, FilesOK
<1>15. ASSUME NEW p \in Query, Own(p), q # p PROVE Kept(q)
  BY <1>15 DEF Own, OwnFile, Goto, process, memory, log, Kept, TypeInv, TypeOK, ProcessOK, ResultOK,
     FilesOK
<1>16. ASSUME NEW p \in Query, Log(p), q # p PROVE Kept(q)
  BY <1>16 DEF Log, Goto, Process, Outside, files, log, Kept, TypeInv, TypeOK, ProcessOK, ResultOK,
     FilesOK
<1>17. ASSUME NEW p \in Query, PrintResult(p), q # p PROVE Kept(q)
  BY <1>17 DEF PrintResult, Return, Ended, files, log, Goto, Kept, TypeInv, TypeOK, ProcessOK,
     ResultOK, FilesOK
<1>18. ASSUME NEW p \in Query, Silent(p), q # p PROVE Kept(q)
  BY <1>18 DEF Silent, Ended, Fault, Goto, Return, files, log, Kept, TypeInv, TypeOK, ProcessOK,
     ResultOK, FilesOK
<1>19. ASSUME NEW p \in Query, Exit(p), q # p PROVE Kept(q)
  BY <1>19 DEF Exit, Return, Ended, files, log, Goto, Kept, TypeInv, TypeOK, ProcessOK, ResultOK,
     FilesOK
<1>20. ASSUME NEW p \in Query, Timeout(p), q # p PROVE Kept(q)
  BY <1>20 DEF Timeout, Fault, Return, Ended, files, log, Goto, Kept, TypeInv, TypeOK, ProcessOK,
     ResultOK, FilesOK
<1>21. ASSUME NEW p \in Query, Read(p), q # p PROVE Kept(q)
  BY <1>21 DEF Read, process, files, log, memory, Kept, TypeInv, TypeOK, ProcessOK, ResultOK, FilesOK
<1>22. CASE UNCHANGED vars
  BY <1>22 DEF vars, memory, process, files, log, Kept, TypeInv, TypeOK, ProcessOK, ResultOK, FilesOK
<1>23. ASSUME NEW p \in Query, SaveRaises(p), q # p PROVE Kept(q)
  BY <1>23 DEF SaveRaises, Goto, Kept, TypeInv, TypeOK, ProcessOK, ResultOK, FilesOK
<1> QED
  BY <1>1, <1>2, <1>3, <1>4, <1>5, <1>6, <1>7, <1>8, <1>9, <1>10, <1>11, <1>12,
     <1>13, <1>14, <1>15, <1>16, <1>17, <1>18, <1>19, <1>20, <1>21, <1>22, <1>23
     DEF Next, Act, Step

\* What the steps below need of the types.
LEMMA CostTypes ==
    ASSUME TypeInv
    PROVE  /\ pc = [q \in Query |-> pc[q]] /\ models = [q \in Query |-> models[q]]
           /\ synth = [q \in Query |-> synth[q]] /\ owed = [q \in Query |-> owed[q]]
           /\ \A q \in Query : models[q] \in Result /\ owed[q] \in Nat /\ CostOK(q)
BY DEF TypeInv, TypeOK, ProcessOK, ResultOK, CostInv

\* A result's cost is a number.
LEMMA CostNat ==
    ASSUME TypeInv, NEW q \in Query
    PROVE  TotalCost(q) \in Nat /\ Cardinality(Billed(models[q])) \in Nat
BY CostTypes, CostOfBilled, FS_CardinalityType DEF CostOK

\* What a model's answer adds to the result's cost is what is billed for it.
LEMMA AskedCost ==
    ASSUME TypeInv, NEW q \in Query, NEW m \in Model, AskModel(q, m) \/ AskProvider(q, m)
    PROVE  /\ IsFiniteSet(Billed(models'[q]))
           /\ TotalCost(q)' - TotalCost(q) = owed'[q] - owed[q]
           /\ TotalCost(q)' \in Nat /\ owed'[q] \in Nat
<1>1. CASE UNCHANGED <<models, owed>>
  BY <1>1, CostTypes, CostOfBilled, CostNat DEF AskModel, AskProvider, CostOK
<1>2. ASSUME NEW s \in {<<"api", m>>, <<"direct", m>>}, s \notin DOMAIN models[q],
             NEW o \in Outcome, models' = [models EXCEPT ![q] = With(@, s, o)],
             IF o = "error" THEN UNCHANGED owed ELSE Paid(q)
      PROVE  /\ IsFiniteSet(Billed(models'[q]))
             /\ TotalCost(q)' - TotalCost(q) = owed'[q] - owed[q]
             /\ TotalCost(q)' \in Nat /\ owed'[q] \in Nat
  <2>1. /\ s \in Source /\ s \in Api \cup Direct
        /\ models[q] \in Result /\ IsFiniteSet(Billed(models[q]))
        /\ models'[q] = With(models[q], s, o)
    BY <1>2, CostTypes, Kinds DEF CostOK
  <2>2. /\ IsFiniteSet(Billed(models'[q]))
        /\ Cardinality(Billed(models'[q])) =
              IF o = "error" THEN Cardinality(Billed(models[q]))
              ELSE Cardinality(Billed(models[q])) + 1
    BY <1>2, <2>1, BilledWith
  <2>3. owed'[q] = IF o = "error" THEN owed[q] ELSE owed[q] + 1
    BY <1>2, CostTypes DEF Paid
  <2>4. synth'[q] = synth[q]
    BY DEF AskModel, AskProvider
  <2> QED BY <2>2, <2>3, <2>4, CostTypes, CostOfBilled, CostNat
<1> QED BY <1>1, <1>2 DEF AskModel, AskProvider, Returned, Outcome

\* What the synthesis adds to it is what is billed for that.
LEMMA SynthesisCost ==
    ASSUME TypeInv, NEW q \in Query, Synthesise(q)
    PROVE  /\ TotalCost(q)' - TotalCost(q) = owed'[q] - owed[q]
           /\ TotalCost(q)' \in Nat /\ owed'[q] \in Nat
<1>1. models'[q] = models[q] /\ synth[q] # "opus" /\ owed[q] \in Nat
  BY CostTypes DEF Synthesise, CostOK
<1>2. \/ synth'[q] = "opus" /\ owed'[q] = owed[q] + 1
      \/ synth'[q] # "opus" /\ owed'[q] = owed[q]
  BY <1>1, CostTypes DEF Synthesise, Paid
<1> QED BY <1>1, <1>2, CostOfBilled, CostNat

\* What the browser brings costs nothing.
LEMMA BrowserCost ==
    ASSUME TypeInv, NEW q \in Query, BrowserAnswers(q) \/ BrowserFails(q)
    PROVE  TotalCost(q)' = 0 /\ Billed(models'[q]) = {} /\ owed'[q] = owed[q]
<1>1. Billed(models'[q]) = {} /\ synth'[q] # "opus" /\ owed'[q] = owed[q]
  BY CostTypes, BilledNothing DEF BrowserAnswers, BrowserFails
<1> QED BY <1>1, CostOfBilled, FS_EmptySet, SMTT(30)

\* A process that starts has no result yet.
LEMMA StartCost ==
    ASSUME TypeInv, NEW q \in Query, Start(q) \/ Health(q)
    PROVE  /\ TotalCost(q)' = 0 /\ models'[q] = NoModels /\ synth'[q] # "opus"
           /\ owed'[q] = owed[q] /\ Billed(models'[q]) = {}
<1>1. models'[q] = NoModels /\ synth'[q] # "opus" /\ owed'[q] = owed[q]
  BY CostTypes DEF Start, Health, CostOK
<1>2. Billed(models'[q]) = {}
  BY <1>1, BilledNothing
<1>3. TotalCost(q)' = Cardinality({}) + 0
  BY <1>1, <1>2, CostOfBilled
<1> QED BY <1>1, <1>2, <1>3, FS_EmptySet

\* What has to be logged has been billed.
LEMMA CostStep == TypeInv /\ [Next]_vars => CostInv'
<1> SUFFICES ASSUME TypeInv, NEW q \in Query, Act(q) \/ Kept(q) PROVE CostOK(q)'
  BY Moves DEF CostInv
<1>1. ASSUME Call(q) PROVE CostOK(q)'
  BY <1>1, CostTypes, CostOfBilled DEF Call, Goto, memory, files, log, CostOK
<1>2. ASSUME Start(q) PROVE CostOK(q)'
  <2>1. pc'[q] \notin {"open", "write", "own", "log"} /\ owed[q] \in Nat
    BY <1>2, CostTypes DEF Start, First, Goto
  <2> QED BY <1>2, <2>1, StartCost, FS_EmptySet DEF CostOK
<1>3. ASSUME Health(q) PROVE CostOK(q)'
  <2>1. owed[q] \in Nat
    BY CostTypes
  <2> QED BY <1>3, <2>1, StartCost, FS_EmptySet DEF CostOK
<1>4. ASSUME NEW m \in Model, AskModel(q, m) PROVE CostOK(q)'
  BY <1>4, AskedCost, CostTypes, CostNat DEF AskModel, CostOK
<1>5. ASSUME Gathered(q) PROVE CostOK(q)'
  BY <1>5, CostTypes, CostOfBilled DEF Gathered, Goto, Process, Outside, files, log, CostOK
<1>6. ASSUME AskSonar(q) PROVE CostOK(q)'
  <2>1. CASE models' = [models EXCEPT ![q] = NoModels]
    <3>1. Billed(models'[q]) = {} /\ Cardinality({}) = 0 /\ IsFiniteSet({})
      BY <2>1, CostTypes, BilledNothing, FS_EmptySet
    <3> QED BY <1>6, <3>1, CostTypes, CostOfBilled DEF AskSonar, Goto, CostOK
  <2>2. ASSUME NEW o \in Outcome, models' = [models EXCEPT ![q] = With(@, Sonar, o)]
        PROVE  CostOK(q)'
    <3>1. /\ IsFiniteSet(Billed(models'[q]))
          /\ Cardinality(Billed(models'[q])) = Cardinality(Billed(models[q]))
      <4>1. /\ Sonar \in Source /\ models[q] \in Result /\ IsFiniteSet(Billed(models[q]))
            /\ models'[q] = With(models[q], Sonar, o)
        BY <2>2, CostTypes, Kinds DEF CostOK
      <4>2. /\ IsFiniteSet(Billed(With(models[q], Sonar, o)))
            /\ Cardinality(Billed(With(models[q], Sonar, o))) = Cardinality(Billed(models[q]))
        BY <4>1, BilledWith
      <4> QED BY <4>1, <4>2
    <3>2. pc'[q] \in {"synth", "tier3"}
      BY <1>6, CostTypes DEF AskSonar, Goto
    <3> QED BY <1>6, <3>1, <3>2, CostTypes, CostOfBilled DEF AskSonar, CostOK
  <2> QED BY <1>6, <2>1, <2>2 DEF AskSonar, Returned, Outcome
<1>7. ASSUME NEW m \in Model, AskProvider(q, m) PROVE CostOK(q)'
  BY <1>7, AskedCost, CostTypes, CostNat DEF AskProvider, CostOK
<1>8. ASSUME ProvidersGathered(q) PROVE CostOK(q)'
  BY <1>8, CostTypes, CostOfBilled DEF ProvidersGathered, Goto, Process, Outside, files, log, CostOK
<1>9. ASSUME Synthesise(q) PROVE CostOK(q)'
  <2>1. pc'[q] \in {"synth", "open"} /\ models'[q] = models[q] /\ (pc'[q] = "synth" => synth'[q] # "opus")
    BY <1>9, CostTypes DEF Synthesise, Goto, CostOK
  <2>2. TotalCost(q) <= owed[q] /\ IsFiniteSet(Billed(models[q])) /\ owed[q] \in Nat
    BY <1>9, CostTypes DEF Synthesise, CostOK
  <2> QED BY <1>9, <2>1, <2>2, SynthesisCost, CostNat DEF CostOK
<1>10. ASSUME BrowserAnswers(q) PROVE CostOK(q)'
  <2>1. synth'[q] # "opus" /\ pc'[q] \in {"synth", "open"} /\ owed[q] \in Nat
    BY <1>10, CostTypes DEF BrowserAnswers, Goto
  <2> QED BY <1>10, <2>1, BrowserCost, FS_EmptySet DEF CostOK
<1>11. ASSUME BrowserFails(q) PROVE CostOK(q)'
  <2>1. synth'[q] # "opus" /\ pc'[q] \in {"synth", "open"} /\ owed[q] \in Nat
    BY <1>11, CostTypes DEF BrowserFails, Goto
  <2> QED BY <1>11, <2>1, BrowserCost, FS_EmptySet DEF CostOK
<1>12. ASSUME BrowserRaises(q) PROVE CostOK(q)'
  BY <1>12, CostTypes, CostOfBilled DEF BrowserRaises, Fault, Goto, Process, files, log, CostOK
<1>13. ASSUME Open(q) PROVE CostOK(q)'
  BY <1>13, CostTypes, CostOfBilled DEF Open, OpenLatest, Goto, process, Saving, memory, log, CostOK
<1>14. ASSUME Write(q) PROVE CostOK(q)'
  BY <1>14, CostTypes, CostOfBilled DEF Write, WriteLatest, Goto, process, Saving, memory, log,
     CostOK
<1>15. ASSUME Own(q) PROVE CostOK(q)'
  BY <1>15, CostTypes, CostOfBilled DEF Own, OwnFile, Goto, process, memory, log, CostOK
<1>16. ASSUME Log(q) PROVE CostOK(q)'
  BY <1>16, CostTypes, CostOfBilled DEF Log, Goto, Process, Outside, files, log, CostOK
<1>17. ASSUME PrintResult(q) PROVE CostOK(q)'
  <2>1. Billed(models'[q]) = {} /\ Cardinality({}) = 0 /\ IsFiniteSet({})
    BY <1>17, CostTypes, BilledNothing, FS_EmptySet DEF PrintResult, Return, Ended, files, log, Goto
  <2> QED BY <1>17, <2>1, CostTypes, CostOfBilled DEF PrintResult, Return, Ended, files, log, Goto, CostOK
<1>18. ASSUME Silent(q) PROVE CostOK(q)'
  <2>1. Billed(models'[q]) = {} /\ Cardinality({}) = 0 /\ IsFiniteSet({})
    BY <1>18, CostTypes, BilledNothing, FS_EmptySet DEF Silent, Ended, Fault, Goto, Return, files, log
  <2> QED BY <1>18, <2>1, CostTypes, CostOfBilled DEF Silent, Ended, Fault, Goto, Return, files, log, CostOK
<1>19. ASSUME Exit(q) PROVE CostOK(q)'
  <2>1. Billed(models'[q]) = {} /\ Cardinality({}) = 0 /\ IsFiniteSet({})
    BY <1>19, CostTypes, BilledNothing, FS_EmptySet DEF Exit, Return, Ended, files, log, Goto
  <2> QED BY <1>19, <2>1, CostTypes, CostOfBilled DEF Exit, Return, Ended, files, log, Goto, CostOK
<1>20. ASSUME Timeout(q) PROVE CostOK(q)'
  <2>1. Billed(models'[q]) = {} /\ Cardinality({}) = 0 /\ IsFiniteSet({})
    BY <1>20, CostTypes, BilledNothing, FS_EmptySet DEF Timeout, Fault, Return, Ended, files, log, Goto
  <2> QED BY <1>20, <2>1, CostTypes, CostOfBilled DEF Timeout, Fault, Return, Ended, files, log, Goto, CostOK
<1>21. ASSUME Read(q) PROVE CostOK(q)'
  <2>1. UNCHANGED <<pc, models, synth, owed>>
    BY <1>21 DEF Read, process, files, log, memory
  <2> QED BY <2>1, CostTypes, CostOfBilled DEF CostOK
<1>22. CASE Kept(q)
  BY <1>22, CostTypes, CostOfBilled DEF Kept, CostOK
<1>23. ASSUME SaveRaises(q) PROVE CostOK(q)'
  <2>1. CASE Drops(q)
    <3>1. Billed(models'[q]) = {} /\ IsFiniteSet({}) /\ pc'[q] = "browser"
      BY <1>23, <2>1, CostTypes, BilledNothing, FS_EmptySet DEF SaveRaises, Goto
    <3> QED BY <3>1 DEF CostOK
  <2>2. CASE ~Drops(q)
    <3>1. models' = models /\ pc'[q] = "exit"
      BY <1>23, <2>2, CostTypes DEF SaveRaises, Goto
    <3> QED BY <3>1, CostTypes DEF CostOK
  <2> QED BY <2>1, <2>2
<1> QED
  BY <1>1, <1>2, <1>3, <1>4, <1>5, <1>6, <1>7, <1>8, <1>9, <1>10, <1>11, <1>12,
     <1>13, <1>14, <1>15, <1>16, <1>17, <1>18, <1>19, <1>20, <1>21, <1>22, <1>23
     DEF Act, Step

\* The invariant behind the rest holds in every reachable state.
LEMMA TypeCorrectInv == Spec => []TypeInv
<1>1. TypeInv /\ [Next]_vars => TypeInv'
  BY ProcessStep, TriesStep, ResultStep, FilesStep, SavedStep, CostStep DEF TypeInv, TypeOK
<1> QED BY <1>1, TypeInit, PTL DEF Spec

\* Types: a call makes at most one attempt more than its retries, the handler
\* runs the process twice at most, a query saves at most four results, and no
\* more is ever logged as spent than was billed.
THEOREM TypeCorrect == Spec => []TypeOK
<1>1. TypeInv => TypeOK
  BY DEF TypeInv
<1> QED BY <1>1, TypeCorrectInv, PTL

\* What the steps below need of the types.
LEMMA AnswerTypes ==
    ASSUME TypeInv
    PROVE  /\ pc = [q \in Query |-> pc[q]] /\ models = [q \in Query |-> models[q]]
           /\ answered = [q \in Query |-> answered[q]]
           /\ \A q \in Query : models[q] \in Result
BY DEF TypeInv, TypeOK, ProcessOK, ResultOK

\* No fallback throws a text away: Sonar, the providers and, in mode auto, the browser
\* are asked when there was none.
LEMMA AnswerStep == TypeInv /\ AnswerInv /\ [Next]_vars => AnswerInv'
<1> SUFFICES ASSUME TypeInv, AnswerInv, NEW q \in Query, Act(q) \/ Kept(q) PROVE AnswerOK(q)'
  BY Moves DEF AnswerInv
<1>1. ASSUME Call(q) PROVE AnswerOK(q)'
  BY <1>1, AnswerTypes DEF Call, Goto, memory, files, log, AnswerInv, AnswerOK
<1>2. ASSUME Start(q) PROVE AnswerOK(q)'
  BY <1>2, AnswerTypes DEF Start, Goto, Process, Outside, files, log, AnswerInv, AnswerOK, First
<1>3. ASSUME Health(q) PROVE AnswerOK(q)'
  BY <1>3, AnswerTypes DEF Health, Goto, Process, Outside, files, log, AnswerInv, AnswerOK
<1>4. ASSUME NEW m \in Model, AskModel(q, m) PROVE AnswerOK(q)'
  <2>1. \/ UNCHANGED <<models, answered>>
        \/ \E o \in Outcome : Returned(q, <<"api", m>>, o)
    BY <1>4 DEF AskModel, Outcome
  <2>2. ASSUME NEW o \in Outcome, Returned(q, <<"api", m>>, o) PROVE AnswerOK(q)'
    <3>1. /\ models'[q] = With(models[q], <<"api", m>>, o)
          /\ answered'[q] = IF o = "text" THEN answered[q] \cup {<<"api", m>>} ELSE answered[q]
      BY <2>2, AnswerTypes DEF Returned
    <3>2. /\ DOMAIN models'[q] = DOMAIN models[q] \cup {<<"api", m>>} /\ models'[q][<<"api", m>>] = o
          /\ \A x \in DOMAIN models[q] : x # <<"api", m>> => models'[q][x] = models[q][x]
      <4> DEFINE s == <<"api", m>>
      <4>1. s \in Source /\ models[q] \in Result /\ models'[q] = With(models[q], s, o)
        BY <3>1, AnswerTypes, Kinds
      <4> HIDE DEF s
      <4>2. /\ DOMAIN models'[q] = DOMAIN models[q] \cup {s} /\ models'[q][s] = o
            /\ \A x \in DOMAIN models[q] : x # s => models'[q][x] = models[q][x]
        <5>1. /\ DOMAIN With(models[q], s, o) = DOMAIN models[q] \cup {s}
              /\ With(models[q], s, o)[s] = o
              /\ \A x \in DOMAIN models[q] : x # s => With(models[q], s, o)[x] = models[q][x]
          BY <4>1, WithType
        <5> QED BY <4>1, <5>1
      <4> QED BY <4>2 DEF s
    <3> QED BY <1>4, <3>1, <3>2, AnswerTypes DEF AskModel, Process, AnswerInv, AnswerOK, Goto
  <2> QED BY <1>4, <2>1, <2>2, AnswerTypes DEF AskModel, Process, AnswerInv, AnswerOK
<1>5. ASSUME Gathered(q) PROVE AnswerOK(q)'
  BY <1>5, AnswerTypes DEF Gathered, Goto, Process, Outside, files, log, AnswerInv, AnswerOK,
     AllEmpty
<1>6. ASSUME AskSonar(q) PROVE AnswerOK(q)'
  <2>1. CASE models' = [models EXCEPT ![q] = NoModels] /\ UNCHANGED answered
    BY <1>6, <2>1, AnswerTypes DEF AskSonar, Goto, Process, AnswerInv, AnswerOK
  <2>2. ASSUME NEW o \in Outcome, Returned(q, Sonar, o), Goto(q, "synth") PROVE AnswerOK(q)'
    <3>1. /\ models'[q] = With(models[q], Sonar, o) /\ pc'[q] = "synth"
          /\ dropped' = dropped
          /\ q \notin dropped => answered'[q] \subseteq IF o = "text" THEN {Sonar} ELSE {}
      BY <1>6, <2>2, AnswerTypes DEF AskSonar, Process, Returned, AnswerInv, AnswerOK, Goto
    <3>2. Sonar \in DOMAIN models'[q] /\ models'[q][Sonar] = o
      <4>1. Sonar \in Source /\ models[q] \in Result
        BY AnswerTypes, Kinds
      <4>2. DOMAIN With(models[q], Sonar, o) = DOMAIN models[q] \cup {Sonar}
            /\ With(models[q], Sonar, o)[Sonar] = o
        BY <4>1, WithType
      <4> QED BY <3>1, <4>2
    <3> QED BY <3>1, <3>2 DEF AnswerOK
  <2> QED BY <1>6, <2>1, <2>2 DEF AskSonar, Outcome
<1>7. ASSUME NEW m \in Model, AskProvider(q, m) PROVE AnswerOK(q)'
  <2>1. \/ UNCHANGED <<models, answered>>
        \/ \E o \in Outcome : Returned(q, <<"direct", m>>, o)
    BY <1>7 DEF AskProvider, Outcome
  <2>2. ASSUME NEW o \in Outcome, Returned(q, <<"direct", m>>, o) PROVE AnswerOK(q)'
    <3>1. /\ models'[q] = With(models[q], <<"direct", m>>, o)
          /\ answered'[q] = IF o = "text" THEN answered[q] \cup {<<"direct", m>>} ELSE answered[q]
      BY <2>2, AnswerTypes DEF Returned
    <3>2. /\ DOMAIN models'[q] = DOMAIN models[q] \cup {<<"direct", m>>} /\ models'[q][<<"direct", m>>] = o
          /\ \A x \in DOMAIN models[q] : x # <<"direct", m>> => models'[q][x] = models[q][x]
      <4> DEFINE s == <<"direct", m>>
      <4>1. s \in Source /\ models[q] \in Result /\ models'[q] = With(models[q], s, o)
        BY <3>1, AnswerTypes, Kinds
      <4> HIDE DEF s
      <4>2. /\ DOMAIN models'[q] = DOMAIN models[q] \cup {s} /\ models'[q][s] = o
            /\ \A x \in DOMAIN models[q] : x # s => models'[q][x] = models[q][x]
        <5>1. /\ DOMAIN With(models[q], s, o) = DOMAIN models[q] \cup {s}
              /\ With(models[q], s, o)[s] = o
              /\ \A x \in DOMAIN models[q] : x # s => With(models[q], s, o)[x] = models[q][x]
          BY <4>1, WithType
        <5> QED BY <4>1, <5>1
      <4> QED BY <4>2 DEF s
    <3> QED BY <1>7, <3>1, <3>2, AnswerTypes DEF AskProvider, Process, AnswerInv, AnswerOK, Goto
  <2> QED BY <1>7, <2>1, <2>2, AnswerTypes DEF AskProvider, Process, AnswerInv, AnswerOK
<1>8. ASSUME ProvidersGathered(q) PROVE AnswerOK(q)'
  BY <1>8, AnswerTypes DEF ProvidersGathered, Goto, Process, Outside, files, log, AnswerInv, AnswerOK
<1>9. ASSUME Synthesise(q) PROVE AnswerOK(q)'
  BY <1>9, AnswerTypes DEF Synthesise, Paid, Goto, Process, Outside, files, log, AnswerInv, AnswerOK
<1>10. ASSUME BrowserAnswers(q) PROVE AnswerOK(q)'
  <2>1. PICK cards \in {{}, Card} :
            models'[q] = [s \in cards |-> "text"] /\ answered'[q] = answered[q] \cup cards
    BY <1>10, AnswerTypes DEF BrowserAnswers
  <2>2. pc'[q] \in {"synth", "open"}
    BY <1>10, AnswerTypes DEF BrowserAnswers, Goto
  <2>3. dropped' = dropped /\ (q \notin dropped => answered[q] = {})
    BY <1>10 DEF BrowserAnswers, Process, AnswerInv, AnswerOK
  <2> QED BY <2>1, <2>2, <2>3 DEF AnswerOK
<1>11. ASSUME BrowserFails(q) PROVE AnswerOK(q)'
  BY <1>11, AnswerTypes DEF BrowserFails, Goto, Process, Outside, files, log, AnswerInv, AnswerOK
<1>12. ASSUME BrowserRaises(q) PROVE AnswerOK(q)'
  BY <1>12, AnswerTypes DEF BrowserRaises, Fault, Goto, Process, files, log, AnswerInv, AnswerOK
<1>13. ASSUME Open(q) PROVE AnswerOK(q)'
  BY <1>13, AnswerTypes DEF Open, OpenLatest, Goto, process, Saving, memory, log, AnswerInv, AnswerOK
<1>14. ASSUME Write(q) PROVE AnswerOK(q)'
  BY <1>14, AnswerTypes DEF Write, WriteLatest, Goto, process, Saving, memory, log, AnswerInv,
     AnswerOK
<1>15. ASSUME Own(q) PROVE AnswerOK(q)'
  BY <1>15, AnswerTypes DEF Own, OwnFile, Goto, process, memory, log, AnswerInv, AnswerOK
<1>16. ASSUME Log(q) PROVE AnswerOK(q)'
  BY <1>16, AnswerTypes DEF Log, Goto, Process, Outside, files, log, AnswerInv, AnswerOK, GoesOn,
     AllEmpty
<1>17. ASSUME PrintResult(q) PROVE AnswerOK(q)'
  BY <1>17, AnswerTypes DEF PrintResult, Return, Ended, files, log, Goto, AnswerInv, AnswerOK
<1>18. ASSUME Silent(q) PROVE AnswerOK(q)'
  BY <1>18, AnswerTypes DEF Silent, Ended, Fault, Goto, Return, files, log, AnswerInv, AnswerOK
<1>19. ASSUME Exit(q) PROVE AnswerOK(q)'
  BY <1>19, AnswerTypes DEF Exit, Return, Ended, files, log, Goto, AnswerInv, AnswerOK
<1>20. ASSUME Timeout(q) PROVE AnswerOK(q)'
  BY <1>20, AnswerTypes DEF Timeout, Fault, Return, Ended, files, log, Goto, AnswerInv, AnswerOK
<1>21. ASSUME Read(q) PROVE AnswerOK(q)'
  <2>1. UNCHANGED <<pc, models, answered, dropped>>
    BY <1>21 DEF Read, process, files, log, memory
  <2> QED BY <2>1 DEF AnswerInv, AnswerOK
<1>22. CASE Kept(q)
  BY <1>22 DEF Kept, AnswerInv, AnswerOK
<1>23. ASSUME SaveRaises(q) PROVE AnswerOK(q)'
  <2>1. CASE Drops(q)
    <3>1. q \in dropped'
      BY <1>23, <2>1 DEF SaveRaises
    <3> QED BY <3>1 DEF AnswerOK
  <2>2. CASE ~Drops(q)
    <3>1. UNCHANGED <<models, answered, dropped>> /\ pc'[q] = "exit"
      BY <1>23, <2>2, AnswerTypes DEF SaveRaises, Goto
    <3> QED BY <3>1 DEF AnswerInv, AnswerOK
  <2> QED BY <2>1, <2>2
<1> QED
  BY <1>1, <1>2, <1>3, <1>4, <1>5, <1>6, <1>7, <1>8, <1>9, <1>10, <1>11, <1>12,
     <1>13, <1>14, <1>15, <1>16, <1>17, <1>18, <1>19, <1>20, <1>21, <1>22, <1>23
     DEF Act, Step

\* No text that a model has returned to the process is missing from the models of the
\* result it ends with and has saved, whichever fallbacks it went along
\* (query_all_models, query_direct_providers, run_auto_query), unless the saving of an
\* API result failed and mode auto went on to the browser without it.
THEOREM Answers == Spec => []AnswersKept
<1>1. Init => AnswerInv
  BY DEF Init, AnswerInv, AnswerOK
<1>2. TypeInv /\ AnswerInv /\ [Next]_vars => AnswerInv'
  BY AnswerStep
<1>3. AnswerInv => AnswersKept
  BY DEF AnswerInv, AnswerOK, AnswersKept
<1> QED BY <1>1, <1>2, <1>3, TypeCorrectInv, PTL DEF Spec


\* What the steps below need of the types.
LEMMA LedgerTypes ==
    ASSUME TypeInv
    PROVE  /\ pc = [q \in Query |-> pc[q]] /\ told = [q \in Query |-> told[q]]
           /\ owed = [q \in Query |-> owed[q]]
           /\ \A q \in Query : owed[q] \in Nat
BY DEF TypeInv, TypeOK, ProcessOK, ResultOK, FilesOK

\* Without the fallbacks the result always costs what is owed, and Log pays it.
LEMMA LedgerStep == TypeInv /\ LedgerInv /\ [Next]_vars => LedgerInv'
<1> SUFFICES ASSUME TypeInv, LedgerInv, NEW q \in Query, Act(q) \/ Kept(q) PROVE LedgerOK(q)'
  BY Moves DEF LedgerInv
<1>1. ASSUME Call(q) PROVE LedgerOK(q)'
  BY <1>1, LedgerTypes, CostOfBilled DEF Call, Goto, memory, files, log, LedgerInv, LedgerOK
<1>2. ASSUME Start(q) PROVE LedgerOK(q)'
  <2>1. /\ pc'[q] \in {"exit", "browser", "tier3", "models", "health"} /\ pc[q] = "start"
        /\ pc'[q] = "health" => setting[q].fallback
        /\ UNCHANGED <<setting, told, unlogged>>
    BY <1>2, LedgerTypes DEF Start, First, Goto, Process, Outside
  <2> QED BY <1>2, <2>1, StartCost DEF LedgerInv, LedgerOK
<1>3. ASSUME Health(q) PROVE LedgerOK(q)'
  BY <1>3, LedgerTypes, CostOfBilled DEF Health, Goto, Process, Outside, files, log, LedgerInv,
     LedgerOK
<1>4. ASSUME NEW m \in Model, AskModel(q, m) PROVE LedgerOK(q)'
  <2>1. UNCHANGED <<setting, pc, told, unlogged>> /\ pc[q] = "models"
    BY <1>4 DEF AskModel, Process, Outside
  <2> QED BY <1>4, <2>1, AskedCost, CostNat, LedgerTypes DEF LedgerInv, LedgerOK
<1>5. ASSUME Gathered(q) PROVE LedgerOK(q)'
  BY <1>5, LedgerTypes, CostOfBilled DEF Gathered, Goto, Process, Outside, files, log, LedgerInv,
     LedgerOK
<1>6. ASSUME AskSonar(q) PROVE LedgerOK(q)'
  BY <1>6, LedgerTypes, CostOfBilled DEF AskSonar, Returned, Goto, Process, Outside, files, log,
     LedgerInv, LedgerOK
<1>7. ASSUME NEW m \in Model, AskProvider(q, m) PROVE LedgerOK(q)'
  <2>1. UNCHANGED <<setting, pc, told, unlogged>> /\ pc[q] = "tier3"
    BY <1>7 DEF AskProvider, Process, Outside
  <2> QED BY <1>7, <2>1, AskedCost, CostNat, LedgerTypes DEF LedgerInv, LedgerOK
<1>8. ASSUME ProvidersGathered(q) PROVE LedgerOK(q)'
  BY <1>8, LedgerTypes, CostOfBilled DEF ProvidersGathered, Goto, Process, Outside, files, log,
     LedgerInv, LedgerOK
<1>9. ASSUME Synthesise(q) PROVE LedgerOK(q)'
  <2>1. pc[q] = "synth" /\ pc'[q] \in {"synth", "open"} /\ UNCHANGED <<setting, told, unlogged>>
    BY <1>9, LedgerTypes DEF Synthesise, Goto, Process, Outside
  <2> QED BY <1>9, <2>1, SynthesisCost, CostNat, LedgerTypes DEF LedgerInv, LedgerOK
<1>10. ASSUME BrowserAnswers(q) PROVE LedgerOK(q)'
  <2>1. pc[q] = "browser" /\ pc'[q] \in {"synth", "open"} /\ UNCHANGED <<setting, told, unlogged>>
    BY <1>10, LedgerTypes DEF BrowserAnswers, Goto, Process, Outside
  <2> QED BY <1>10, <2>1, BrowserCost, LedgerTypes DEF LedgerInv, LedgerOK
<1>11. ASSUME BrowserFails(q) PROVE LedgerOK(q)'
  <2>1. pc[q] = "browser" /\ pc'[q] \in {"synth", "open"} /\ UNCHANGED <<setting, told, unlogged>>
    BY <1>11, LedgerTypes DEF BrowserFails, Goto, Process, Outside
  <2> QED BY <1>11, <2>1, BrowserCost, LedgerTypes DEF LedgerInv, LedgerOK
<1>12. ASSUME BrowserRaises(q) PROVE LedgerOK(q)'
  BY <1>12, LedgerTypes, CostOfBilled DEF BrowserRaises, Fault, Goto, Process, files, log, LedgerInv,
     LedgerOK
<1>13. ASSUME Open(q) PROVE LedgerOK(q)'
  BY <1>13, LedgerTypes, CostOfBilled DEF Open, OpenLatest, Goto, process, Saving, memory, log,
     LedgerInv, LedgerOK
<1>14. ASSUME Write(q) PROVE LedgerOK(q)'
  BY <1>14, LedgerTypes, CostOfBilled DEF Write, WriteLatest, Goto, process, Saving, memory, log,
     LedgerInv, LedgerOK
<1>15. ASSUME Own(q) PROVE LedgerOK(q)'
  BY <1>15, LedgerTypes, CostOfBilled DEF Own, OwnFile, Goto, process, memory, log, LedgerInv,
     LedgerOK
<1>16. ASSUME Log(q) PROVE LedgerOK(q)'
  <2>1. /\ pc[q] = "log" /\ pc'[q] \in {"browser", "print"} /\ UNCHANGED <<setting, told>>
        /\ \/ unlogged' = unlogged /\ owed'[q] = owed[q] - TotalCost(q)
           \/ q \in unlogged'
    BY <1>16, LedgerTypes DEF Log, Goto, Process
  <2> QED BY <2>1, CostNat, LedgerTypes DEF LedgerInv, LedgerOK
<1>17. ASSUME PrintResult(q) PROVE LedgerOK(q)'
  BY <1>17, LedgerTypes, CostOfBilled DEF PrintResult, Return, Ended, files, log, Goto, LedgerInv,
     LedgerOK
<1>18. ASSUME Silent(q) PROVE LedgerOK(q)'
  BY <1>18, LedgerTypes, CostOfBilled DEF Silent, Ended, Fault, Goto, Return, files, log, LedgerInv,
     LedgerOK
<1>19. ASSUME Exit(q) PROVE LedgerOK(q)'
  BY <1>19, LedgerTypes, CostOfBilled DEF Exit, Return, Ended, files, log, Goto, LedgerInv, LedgerOK
<1>20. ASSUME Timeout(q) PROVE LedgerOK(q)'
  BY <1>20, LedgerTypes, CostOfBilled DEF Timeout, Fault, Return, Ended, files, log, Goto, LedgerInv,
     LedgerOK
<1>21. ASSUME Read(q) PROVE LedgerOK(q)'
  BY <1>21, LedgerTypes, CostOfBilled DEF Read, process, files, log, memory, LedgerInv, LedgerOK
<1>22. CASE Kept(q)
  BY <1>22, CostOfBilled DEF Kept, LedgerInv, LedgerOK
<1>23. ASSUME SaveRaises(q) PROVE LedgerOK(q)'
  <2>1. /\ pc[q] \in {"open", "write", "own", "log"} /\ pc'[q] \in {"browser", "exit"}
        /\ UNCHANGED <<setting, told>> /\ q \in unlogged'
    BY <1>23, LedgerTypes DEF SaveRaises, Goto
  <2> QED BY <2>1 DEF LedgerInv, LedgerOK
<1> QED
  BY <1>1, <1>2, <1>3, <1>4, <1>5, <1>6, <1>7, <1>8, <1>9, <1>10, <1>11, <1>12,
     <1>13, <1>14, <1>15, <1>16, <1>17, <1>18, <1>19, <1>20, <1>21, <1>22, <1>23
     DEF Act, Step

\* With the fallbacks off the run log accounts for every billed call that
\* returned, when the tool call has: also for those of an API attempt that mode
\* auto gave up, and of a process whose output was lost (append_run_log); unless a
\* result could not be saved or a line not be written.
THEOREM Ledger == Spec => []PaidIsLogged
<1>1. Init => LedgerInv
  BY DEF Init, LedgerInv, LedgerOK
<1>2. TypeInv /\ LedgerInv /\ [Next]_vars => LedgerInv'
  BY LedgerStep
<1>3. LedgerInv => PaidIsLogged
  BY DEF LedgerInv, LedgerOK, PaidIsLogged
<1> QED BY <1>1, <1>2, <1>3, TypeCorrectInv, PTL DEF Spec

\* What the steps below need of the types.
LEMMA FileTypes ==
    ASSUME TypeInv
    PROVE  /\ pc = [q \in Query |-> pc[q]] /\ told = [q \in Query |-> told[q]]
           /\ own = [q \in Query |-> own[q]] /\ n = [q \in Query |-> n[q]]
           /\ got = [q \in Query |-> got[q]]
BY DEF TypeInv, TypeOK, ProcessOK, FilesOK

\* A step that leaves council_latest.json alone.
Still ==
    /\ UNCHANGED <<latest, mixed, met>>
    /\ \A r \in Query : pc'[r] = "write" => pc[r] = "write"

\* What another query's step does to a query's reading of council_latest.json: it
\* opens the file, or writes it, or leaves it and starts no writing.
LEMMA Elsewhere ==
    TypeInv /\ [Next]_vars => \A q \in Query :
        \/ Act(q)
        \/ Kept(q) /\ \/ q \in met'
                      \/ \E r \in Query \ {q} : pc[r] = "write" /\ met' = met
                      \/ Still
<1> SUFFICES ASSUME TypeInv, [Next]_vars, NEW q \in Query, ~Act(q), q \notin met',
                    ~ \E r \in Query \ {q} : pc[r] = "write" /\ met' = met
             PROVE  Still
  BY Moves
<1>1. ASSUME NEW p \in Query, Call(p) PROVE Still
  BY <1>1, FileTypes DEF Call, Goto, memory, files, log, Still
<1>2. ASSUME NEW p \in Query, Start(p) PROVE Still
  BY <1>2, FileTypes DEF Start, Goto, Process, Outside, files, log, First, Still
<1>3. ASSUME NEW p \in Query, Health(p) PROVE Still
  BY <1>3, FileTypes DEF Health, Goto, Process, Outside, files, log, Still
<1>4. ASSUME NEW p \in Query, Gathered(p) PROVE Still
  BY <1>4, FileTypes DEF Gathered, Goto, Process, Outside, files, log, Still
<1>5. ASSUME NEW p \in Query, AskSonar(p) PROVE Still
  BY <1>5, FileTypes DEF AskSonar, Returned, Goto, Process, Outside, files, log, Still
<1>6. ASSUME NEW p \in Query, ProvidersGathered(p) PROVE Still
  BY <1>6, FileTypes DEF ProvidersGathered, Goto, Process, Outside, files, log, Still
<1>7. ASSUME NEW p \in Query, Synthesise(p) PROVE Still
  BY <1>7, FileTypes DEF Synthesise, Paid, Goto, Process, Outside, files, log, Still
<1>8. ASSUME NEW p \in Query, BrowserAnswers(p) PROVE Still
  BY <1>8, FileTypes DEF BrowserAnswers, Goto, Process, Outside, files, log, Still
<1>9. ASSUME NEW p \in Query, BrowserFails(p) PROVE Still
  BY <1>9, FileTypes DEF BrowserFails, Goto, Process, Outside, files, log, Still
<1>10. ASSUME NEW p \in Query, BrowserRaises(p) PROVE Still
  BY <1>10, FileTypes DEF BrowserRaises, Fault, Goto, Process, files, log, Still
<1>11. ASSUME NEW p \in Query, Open(p) PROVE FALSE
  BY <1>11 DEF Open, OpenLatest, Act, Step
<1>12. ASSUME NEW p \in Query, Write(p) PROVE FALSE
  BY <1>12 DEF Write, Act, Step
<1>13. ASSUME NEW p \in Query, Own(p) PROVE Still
  BY <1>13, FileTypes DEF Own, OwnFile, Goto, process, memory, log, Still
<1>14. ASSUME NEW p \in Query, Log(p) PROVE Still
  BY <1>14, FileTypes DEF Log, Goto, Process, Outside, files, log, Still
<1>15. ASSUME NEW p \in Query, PrintResult(p) PROVE Still
  BY <1>15, FileTypes DEF PrintResult, Return, Ended, files, log, Goto, Still
<1>16. ASSUME NEW p \in Query, Silent(p) PROVE Still
  BY <1>16, FileTypes DEF Silent, Ended, Fault, Goto, Return, files, log, Still
<1>17. ASSUME NEW p \in Query, Exit(p) PROVE Still
  BY <1>17, FileTypes DEF Exit, Return, Ended, files, log, Goto, Still
<1>18. ASSUME NEW p \in Query, Timeout(p) PROVE Still
  BY <1>18, FileTypes DEF Timeout, Fault, Return, Ended, files, log, Goto, Still
<1>19. ASSUME NEW p \in Query, Read(p) PROVE Still
  BY <1>19, FileTypes DEF Read, process, files, log, memory, Still
<1>20. ASSUME NEW p \in Query, NEW m \in Model, AskModel(p, m) \/ AskProvider(p, m) PROVE Still
  BY <1>20 DEF AskModel, AskProvider, Outside, files, log, Still
<1>21. CASE UNCHANGED vars
  BY <1>21 DEF vars, files, log, Still
<1>22. ASSUME NEW p \in Query, SaveRaises(p) PROVE Still
  <2>1. p # q /\ UNCHANGED met /\ \A r \in Query : pc'[r] = "write" => pc[r] = "write"
    BY <1>22, FileTypes DEF SaveRaises, Goto, Act
  <2>2. pc[p] # "write"
    BY <2>1
  <2> QED BY <1>22, <2>1, <2>2 DEF SaveRaises, Still
<1> QED
  BY <1>1, <1>2, <1>3, <1>4, <1>5, <1>6, <1>7, <1>8, <1>9, <1>10, <1>11, <1>12,
     <1>13, <1>14, <1>15, <1>16, <1>17, <1>18, <1>19, <1>20, <1>21, <1>22 DEF Next, Step

\* While nobody else opens it, council_latest.json holds what this query saved last.
LEMMA FileStep == TypeInv /\ FileInv /\ [Next]_vars => FileInv'
<1> DEFINE Left(q) ==
        Kept(q) /\ \/ q \in met'
                   \/ \E r \in Query \ {q} : pc[r] = "write" /\ met' = met
                   \/ Still
<1> SUFFICES ASSUME TypeInv, FileInv, NEW q \in Query, Act(q) \/ Left(q) PROVE FileOK(q)'
  BY Elsewhere DEF FileInv
<1>1. ASSUME Call(q) PROVE FileOK(q)'
  BY <1>1, FileTypes DEF Call, Goto, memory, files, log, FileInv, FileOK, Still
<1>2. ASSUME Start(q) PROVE FileOK(q)'
  BY <1>2, FileTypes DEF Start, Goto, Process, Outside, files, log, FileInv, FileOK, Still, First
<1>3. ASSUME Health(q) PROVE FileOK(q)'
  BY <1>3, FileTypes DEF Health, Goto, Process, Outside, files, log, FileInv, FileOK, Still
<1>4. ASSUME NEW m \in Model, AskModel(q, m) PROVE FileOK(q)'
  BY <1>4, FileTypes DEF AskModel, Returned, Paid, Process, Outside, files, log, FileInv, FileOK,
     Still
<1>5. ASSUME Gathered(q) PROVE FileOK(q)'
  BY <1>5, FileTypes DEF Gathered, Goto, Process, Outside, files, log, FileInv, FileOK, Still
<1>6. ASSUME AskSonar(q) PROVE FileOK(q)'
  BY <1>6, FileTypes DEF AskSonar, Returned, Goto, Process, Outside, files, log, FileInv, FileOK,
     Still
<1>7. ASSUME NEW m \in Model, AskProvider(q, m) PROVE FileOK(q)'
  BY <1>7, FileTypes DEF AskProvider, Returned, Paid, Process, Outside, files, log, FileInv, FileOK,
     Still
<1>8. ASSUME ProvidersGathered(q) PROVE FileOK(q)'
  BY <1>8, FileTypes DEF ProvidersGathered, Goto, Process, Outside, files, log, FileInv, FileOK,
     Still
<1>9. ASSUME Synthesise(q) PROVE FileOK(q)'
  BY <1>9, FileTypes DEF Synthesise, Paid, Goto, Process, Outside, files, log, FileInv, FileOK, Still
<1>10. ASSUME BrowserAnswers(q) PROVE FileOK(q)'
  BY <1>10, FileTypes DEF BrowserAnswers, Goto, Process, Outside, files, log, FileInv, FileOK, Still
<1>11. ASSUME BrowserFails(q) PROVE FileOK(q)'
  BY <1>11, FileTypes DEF BrowserFails, Goto, Process, Outside, files, log, FileInv, FileOK, Still
<1>12. ASSUME BrowserRaises(q) PROVE FileOK(q)'
  BY <1>12, FileTypes DEF BrowserRaises, Fault, Goto, Process, files, log, FileInv, FileOK, Still
<1>13. ASSUME Open(q) PROVE FileOK(q)'
  <2>1. told[q] = "nothing" /\ got[q] = None /\ q \notin mixed' /\ pc'[q] = "write"
    BY <1>13, FileTypes DEF Open, OpenLatest, Goto, FileInv, FileOK
  <2>2. q \notin met' => \A r \in Query \ {q} : pc'[r] # "write"
    BY <1>13, FileTypes DEF Open, OpenLatest, Goto, Saving
  <2>3. told' = told /\ got' = got
    BY <1>13 DEF Open
  <2> QED BY <2>1, <2>2, <2>3 DEF FileOK
<1>14. ASSUME Write(q) PROVE FileOK(q)'
  BY <1>14, FileTypes DEF Write, WriteLatest, Goto, process, Saving, memory, log, FileInv, FileOK,
     Still
<1>15. ASSUME Own(q) PROVE FileOK(q)'
  BY <1>15, FileTypes DEF Own, OwnFile, Goto, process, memory, log, FileInv, FileOK, Still
<1>16. ASSUME Log(q) PROVE FileOK(q)'
  BY <1>16, FileTypes DEF Log, Goto, Process, Outside, files, log, FileInv, FileOK, Still
<1>17. ASSUME PrintResult(q) PROVE FileOK(q)'
  BY <1>17, FileTypes DEF PrintResult, Return, Ended, files, log, Goto, FileInv, FileOK, Still
<1>18. ASSUME Silent(q) PROVE FileOK(q)'
  BY <1>18, FileTypes DEF Silent, Ended, Fault, Goto, Return, files, log, FileInv, FileOK, Still
<1>19. ASSUME Exit(q) PROVE FileOK(q)'
  BY <1>19, FileTypes DEF Exit, Return, Ended, files, log, Goto, FileInv, FileOK, Still
<1>20. ASSUME Timeout(q) PROVE FileOK(q)'
  BY <1>20, FileTypes DEF Timeout, Fault, Return, Ended, files, log, Goto, FileInv, FileOK, Still,
     Running
<1>21. ASSUME Read(q) PROVE FileOK(q)'
  BY <1>21, FileTypes DEF Read, process, files, log, memory, FileInv, FileOK, Still
<1>22. CASE Left(q)
  BY <1>22 DEF Kept, FileInv, FileOK, Still
<1>23. ASSUME SaveRaises(q) PROVE FileOK(q)'
  <2>1. /\ told[q] = "nothing" /\ got[q] = None /\ pc'[q] \in {"browser", "exit"}
        /\ UNCHANGED <<told, got>>
    BY <1>23, FileTypes DEF SaveRaises, Goto, FileInv, FileOK
  <2> QED BY <2>1 DEF FileOK
<1> QED
  BY <1>1, <1>2, <1>3, <1>4, <1>5, <1>6, <1>7, <1>8, <1>9, <1>10, <1>11, <1>12,
     <1>13, <1>14, <1>15, <1>16, <1>17, <1>18, <1>19, <1>20, <1>21, <1>22, <1>23
     DEF Act, Step

\* The result a session is told of can be read again: the invocation's own file
\* holds it, and council_read gives it unless another query has been saving since
\* this one's save began (save_results, read_cached).
THEOREM Files == Spec => []ResultKept
<1>1. Init => FileInv
  BY DEF Init, FileInv, FileOK
<1>2. TypeInv /\ FileInv /\ [Next]_vars => FileInv'
  BY FileStep
<1>3. FileInv => ResultKept
  BY DEF FileInv, FileOK, ResultKept
<1> QED BY <1>1, <1>2, <1>3, TypeCorrectInv, PTL DEF Spec
==============================================================================
