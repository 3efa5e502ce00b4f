---------------------------- MODULE CouncilQuery ----------------------------
(***************************************************************************)
(* A council_query tool call of the browser bridge (server.js): it spawns  *)
(* council_query.py with an invocation id, waits for it with a timeout,    *)
(* runs it again once if it printed nothing, and turns its output into an  *)
(* answer.  The process asks the models over the Responses API (with its   *)
(* fallbacks: Sonar, then the providers directly) or the browser, has Opus *)
(* synthesise, and saves the result in files that every query shares.      *)
(* council_read then reads the last one saved.                             *)
(*                                                                         *)
(* A result is <<query, number>>; its content is which sources answered.   *)
(* A step is one outside call, one access to a shared file, or one         *)
(* decision of the server.  Left out: the copy kept under history/, which  *)
(* nothing reads; the wording; the degraded flag and its fallback_log.     *)
(***************************************************************************)
EXTENDS Integers, FiniteSets

CONSTANTS
    Query,             \* the tool calls, of any number of bridge servers
    Model,             \* ANALYSIS_MODELS
    None,              \* no file, or not read yet
    Torn,              \* a file that is not JSON
    Settings,          \* with what modes, options, keys and switches they run
    Retries,           \* PERPLEXITY_RETRIES
    SynthesisRetries,  \* SYNTHESIS_RETRIES
    MaxFault           \* bound: kills, first silent exits, raises, files that
                       \* cannot be written

ASSUME RetryAssumption == Retries \in Nat /\ SynthesisRetries \in Nat
ASSUME FaultAssumption == MaxFault \in Nat
ASSUME NoneAssumption == None # Torn /\ {None, Torn} \cap (Query \X (1 .. 4)) = {}

\* Whose text a result may hold: a model over the Responses API, by its own
\* provider, or on a card of the council page; and Sonar.
Sonar == <<"sonar", None>>
Api == {"api"} \X Model
Direct == {"direct"} \X Model
Card == {"card"} \X Model
Source == Api \cup Direct \cup Card \cup {Sonar}

Setting == [mode : {"api", "direct", "browser", "auto"},
            key : BOOLEAN,          \* PERPLEXITY_API_KEY is set
            opusKey : BOOLEAN,      \* ANTHROPIC_API_KEY is set
            opus : BOOLEAN,         \* --opus-synthesis
            fallback : BOOLEAN,     \* FALLBACK_ENABLED
            tier3 : BOOLEAN,        \* DIRECT_PROVIDERS_ENABLED
            direct : SUBSET Model]  \* models whose provider key is set

ASSUME OpusAssumption == "opus" \notin Model  \* see Part
ASSUME SettingAssumption == Settings \subseteq [Query -> Setting]

VARIABLES
    setting,   \* of each call
    pc,        \* where its process, or the server's handler, is
    runs,      \* processes started for it
    line,      \* the pipeline that is running: api, direct or browser
    tries,     \* attempts so far: per model, and ("opus") of the synthesis
    models,    \* the sources of the result so far, with what they returned
    synth,     \* whose synthesis the result holds
    failed,    \* the browser's failure, or no
    answered,  \* sources that returned text to this process
    dropped,   \* calls whose process has dropped an API result it could not save
    n,         \* results saved so far
    owed,      \* billed calls that no line of the run log accounts for yet
    unlogged,  \* calls of which a line of the run log was not written
    latest,    \* council_latest.json
    own,       \* council_<invocation_id>.json
    mixed,     \* calls in whose writing of latest another one has written
    met,       \* calls that shared latest with another since they opened it
    told,      \* what the tool call returned
    got,       \* what council_read gave the session afterwards
    faults

memory == <<line, tries, models, synth, failed, answered, dropped>>
process == <<runs, memory>>
files == <<n, latest, own, mixed, met>>
log == <<owed, unlogged>>
vars == <<setting, pc, process, files, log, told, got, faults>>

Part == Model \cup {"opus"}
NoTries == [p \in Part |-> 0]
NoModels == [s \in {} |-> "error"]
Result == UNION {[S -> {"text", "empty", "error"}] : S \in SUBSET Source}
Running == {"start", "health", "models", "sonar", "tier3", "synth", "browser",
            "open", "write", "own", "log", "print"}

Init ==
    /\ setting \in Settings
    /\ pc = [q \in Query |-> "idle"]
    /\ runs = [q \in Query |-> 0]
    /\ line = [q \in Query |-> "none"]
    /\ tries = [q \in Query |-> NoTries]
    /\ models = [q \in Query |-> NoModels]
    /\ synth = [q \in Query |-> "none"]
    /\ failed = [q \in Query |-> "no"]
    /\ answered = [q \in Query |-> {}]
    /\ dropped = {}
    /\ n = [q \in Query |-> 0]
    /\ owed = [q \in Query |-> 0]
    /\ unlogged = {}
    /\ latest = None
    /\ own = [q \in Query |-> None]
    /\ mixed = {}
    /\ met = {}
    /\ told = [q \in Query |-> "nothing"]
    /\ got = [q \in Query |-> None]
    /\ faults = 0

------------------------------------------------------------------------------

Fault == faults < MaxFault /\ faults' = faults + 1
Goto(q, l) == pc' = [pc EXCEPT ![q] = l]
Paid(q) == owed' = [owed EXCEPT ![q] = @ + 1]

\* A loop of 1 + retries attempts: is attempt k, from 0, the last
Last(k, retries) == k >= retries

With(m, s, o) == [x \in DOMAIN m \cup {s} |-> IF x = s THEN o ELSE m[x]]

\* Mutant of AllEmpty: any(...)
OneEmpty(q) == \E s \in DOMAIN models[q] : models[q][s] # "text"

\* all(not r.get("response") for r in results)
AllEmpty(q) == \A s \in DOMAIN models[q] : models[q][s] # "text"

\* What a source's call returns, into the result
Returned(q, s, o) ==
    /\ models' = [models EXCEPT ![q] = With(@, s, o)]
    /\ answered' = IF o = "text" THEN [answered EXCEPT ![q] = @ \cup {s}] ELSE answered

Process == <<setting, runs, dropped>>
Outside == <<files, unlogged, told, got, faults>>

------------------------------------------------------------------------------
(* The server's handler and main                                           *)

\* The handler spawns the process
Call(q) ==
    /\ pc[q] = "idle"
    /\ Goto(q, "start")
    /\ runs' = [runs EXCEPT ![q] = 1]
    /\ UNCHANGED <<setting, memory, files, log, told, got, faults>>

\* print_validation: only mode api insists on the Perplexity key
Rejected(s) == s.mode = "api" /\ ~s.key

\* The API client needs the key too: in mode auto its exception sends the
\* query to the browser
First(s) ==
    IF s.mode = "browser" \/ (s.mode = "auto" /\ ~s.key) THEN "browser"
    ELSE IF s.mode = "direct" THEN "tier3"
    ELSE IF s.fallback THEN "health" ELSE "models"

Pipeline(s) ==
    IF First(s) = "browser" THEN "browser" ELSE IF First(s) = "tier3" THEN "direct" ELSE "api"

\* main
Start(q) ==
    /\ pc[q] = "start"
    /\ Goto(q, IF Rejected(setting[q]) THEN "exit" ELSE First(setting[q]))
    /\ line' = [line EXCEPT ![q] = Pipeline(setting[q])]
    /\ UNCHANGED <<Process, tries, models, synth, failed, answered, owed, Outside>>

------------------------------------------------------------------------------
(* The API pipeline: query_all_models and its fallbacks                    *)

\* _test_responses_api_health: any answer to the ping will do
Health(q) ==
    /\ pc[q] = "health"
    /\ \E l \in {"models", "sonar"} : Goto(q, l)
    /\ UNCHANGED <<Process, line, tries, models, synth, failed, answered, owed, Outside>>

\* One attempt of query_perplexity_model.  An empty answer is an answer.
AskModel(q, m) ==
    /\ pc[q] = "models"
    /\ <<"api", m>> \notin DOMAIN models[q]
    /\ \/ /\ \E o \in {"text", "empty"} : Returned(q, <<"api", m>>, o)
          /\ Paid(q)
          /\ tries' = [tries EXCEPT ![q][m] = 0]
       \/ /\ Last(tries[q][m], Retries)
          /\ Returned(q, <<"api", m>>, "error")
          /\ tries' = [tries EXCEPT ![q][m] = 0]
          /\ UNCHANGED owed
       \/ /\ ~Last(tries[q][m], Retries)
          /\ tries' = [tries EXCEPT ![q][m] = @ + 1]
          /\ UNCHANGED <<models, answered, owed>>
    /\ UNCHANGED <<Process, pc, line, synth, failed, Outside>>

\* gather has every model's result
Gathered(q) ==
    /\ pc[q] = "models"
    /\ Api \subseteq DOMAIN models[q]
    /\ Goto(q, IF AllEmpty(q) /\ setting[q].fallback THEN "sonar" ELSE "synth")
    /\ UNCHANGED <<Process, line, tries, models, synth, failed, answered, owed, Outside>>

\* query_sonar_fallback, after a failed health check or empty models.  If it
\* fails too, the providers' results, where enabled, replace everything.
AskSonar(q) ==
    /\ pc[q] = "sonar"
    /\ \/ Returned(q, Sonar, "text") /\ Goto(q, "synth")
       \/ /\ ~setting[q].tier3
          /\ \E o \in {"empty", "error"} : Returned(q, Sonar, o)
          /\ Goto(q, "synth")
       \/ /\ setting[q].tier3
          /\ models' = [models EXCEPT ![q] = NoModels]
          /\ Goto(q, "tier3")
          /\ UNCHANGED answered
    /\ UNCHANGED <<Process, line, tries, synth, failed, owed, Outside>>

\* One adapter of query_direct_providers; without its key it makes no call
AskProvider(q, m) ==
    /\ pc[q] = "tier3"
    /\ <<"direct", m>> \notin DOMAIN models[q]
    /\ \/ /\ m \in setting[q].direct
          /\ \E o \in {"text", "empty"} : Returned(q, <<"direct", m>>, o)
          /\ Paid(q)
       \/ Returned(q, <<"direct", m>>, "error") /\ UNCHANGED owed
    /\ UNCHANGED <<Process, pc, line, tries, synth, failed, Outside>>

ProvidersGathered(q) ==
    /\ pc[q] = "tier3"
    /\ Direct \subseteq DOMAIN models[q]
    /\ Goto(q, "synth")
    /\ UNCHANGED <<Process, line, tries, models, synth, failed, answered, owed, Outside>>

\* One attempt of run_opus_synthesis.  If the last one fails, the browser's own
\* synthesis stays.
Synthesise(q) ==
    /\ pc[q] = "synth"
    /\ \/ /\ setting[q].opusKey
          /\ synth' = [synth EXCEPT ![q] = "opus"]
          /\ Paid(q)
          /\ Goto(q, "open")
          /\ tries' = [tries EXCEPT ![q]["opus"] = 0]
       \/ /\ setting[q].opusKey => Last(tries[q]["opus"], SynthesisRetries)
          /\ synth' = [synth EXCEPT ![q] = IF line[q] = "browser" THEN @ ELSE "error"]
          /\ Goto(q, "open")
          /\ tries' = [tries EXCEPT ![q]["opus"] = 0]
          /\ UNCHANGED owed
       \/ /\ setting[q].opusKey /\ ~Last(tries[q]["opus"], SynthesisRetries)
          /\ tries' = [tries EXCEPT ![q]["opus"] = @ + 1]
          /\ UNCHANGED <<pc, synth, owed>>
    /\ UNCHANGED <<Process, line, models, failed, answered, Outside>>

------------------------------------------------------------------------------
(* The browser pipeline: run_browser_query                                 *)

\* council.run returns cards and a synthesis
BrowserAnswers(q) ==
    /\ pc[q] = "browser"
    /\ \E cards \in {{}, Card}, text \in BOOLEAN :
         /\ models' = [models EXCEPT ![q] = [s \in cards |-> "text"]]
         /\ answered' = [answered EXCEPT ![q] = @ \cup cards]
         /\ synth' = [synth EXCEPT ![q] = IF text THEN "native" ELSE "none"]
         /\ Goto(q, IF setting[q].opus /\ (text \/ cards # {}) THEN "synth" ELSE "open")
    /\ UNCHANGED <<Process, line, tries, failed, owed, Outside>>

\* ... or an error, which is saved like a result, whose cost is 0
BrowserFails(q) ==
    /\ pc[q] = "browser"
    /\ \E f \in {"busy", "error"} : failed' = [failed EXCEPT ![q] = f]
    /\ models' = [models EXCEPT ![q] = NoModels]
    /\ synth' = [synth EXCEPT ![q] = "none"]
    /\ Goto(q, "open")
    /\ UNCHANGED <<Process, line, tries, answered, owed, Outside>>

\* ... or raises, and the process ends with a traceback
BrowserRaises(q) ==
    /\ pc[q] = "browser"
    /\ Fault
    /\ Goto(q, "exit")
    /\ UNCHANGED <<Process, line, tries, models, synth, failed, answered, log,
                   files, told, got>>

------------------------------------------------------------------------------
(* save_results and append_run_log                                         *)

Saving == {q \in Query : pc[q] = "write"}

\* write_text of council_latest.json opens, and thereby empties, the file ...
OpenLatest(q) ==
    /\ latest' = Torn
    /\ mixed' = mixed \ {q}
    /\ met' = (met \ {q}) \cup (Query \ {q})
                \cup (IF Saving # {} THEN {q} ELSE {})

\* ... and writes it.  Over another's text that is longer, it leaves a tail.
WriteLatest(q) ==
    /\ \/ latest' = <<q, n[q]>>
       \/ q \in mixed /\ latest' = Torn
    /\ mixed' = mixed \cup (Saving \ {q})

Open(q) ==
    /\ pc[q] = "open"
    /\ OpenLatest(q)
    /\ n' = [n EXCEPT ![q] = @ + 1]
    /\ Goto(q, "write")
    /\ UNCHANGED <<setting, process, own, log, told, got, faults>>

Write(q) ==
    /\ pc[q] = "write"
    /\ WriteLatest(q)
    /\ own' = [own EXCEPT ![q] = Torn]
    /\ Goto(q, "own")
    /\ UNCHANGED <<setting, process, n, met, log, told, got, faults>>

\* Mutant of OwnFile: one file for all invocations
SharedFile(q) == CHOOSE x \in Query : TRUE

\* The file that the invocation id names
OwnFile(q) == q

Own(q) ==
    /\ pc[q] = "own"
    /\ own' = [own EXCEPT ![OwnFile(q)] = n[q]]
    /\ Goto(q, "log")
    /\ UNCHANGED <<setting, process, n, latest, mixed, met, log, told, got, faults>>

\* Sonar and the cards are free
ModelCost(q) ==
    Cardinality({s \in DOMAIN models[q] \cap (Api \cup Direct) : models[q][s] # "error"})

\* total_cost: the models' and the synthesis'
TotalCost(q) == ModelCost(q) + (IF synth[q] = "opus" THEN 1 ELSE 0)

\* run_auto_query goes on to the browser when no model had a text ...
GoesOn(q) == setting[q].mode = "auto" /\ line[q] = "api" /\ AllEmpty(q)

\* append_run_log swallows an error of its own
Log(q) ==
    /\ pc[q] = "log"
    /\ \/ /\ owed' = [owed EXCEPT ![q] = @ - TotalCost(q)]
          /\ UNCHANGED <<unlogged, faults>>
       \/ Fault /\ unlogged' = unlogged \cup {q} /\ UNCHANGED owed
    /\ Goto(q, IF GoesOn(q) THEN "browser" ELSE "print")
    /\ line' = [line EXCEPT ![q] = IF GoesOn(q) THEN "browser" ELSE @]
    /\ UNCHANGED <<Process, tries, models, synth, failed, answered, files, told, got>>

\* ... and when the API pipeline raised
Drops(q) == setting[q].mode = "auto" /\ line[q] = "api"

\* save_results raises, at latest, at its own file or (before the run log) at the
\* copy under history/: the files are left as they are, latest perhaps in pieces,
\* and no line is logged.  Mode auto takes it for a failure of the API and drops
\* the result; any other process ends with a traceback.
SaveRaises(q) ==
    /\ pc[q] \in {"open", "write", "own", "log"}
    /\ Fault
    /\ IF pc[q] = "write"
       THEN latest' \in {latest, Torn} /\ mixed' = mixed \cup (Saving \ {q})
       ELSE UNCHANGED <<latest, mixed>>
    /\ unlogged' = unlogged \cup {q}
    /\ IF Drops(q)
       THEN /\ Goto(q, "browser") /\ line' = [line EXCEPT ![q] = "browser"]
            /\ models' = [models EXCEPT ![q] = NoModels]
            /\ synth' = [synth EXCEPT ![q] = "none"]
            /\ dropped' = dropped \cup {q}
       ELSE Goto(q, "exit") /\ UNCHANGED <<line, models, synth, dropped>>
    /\ UNCHANGED <<setting, runs, tries, failed, answered, n, own, met, owed, told, got>>

------------------------------------------------------------------------------
(* What the server makes of the process                                    *)

\* a process takes its memory with it
Ended(q) ==
    /\ line' = [line EXCEPT ![q] = "none"]
    /\ tries' = [tries EXCEPT ![q] = NoTries]
    /\ models' = [models EXCEPT ![q] = NoModels]
    /\ synth' = [synth EXCEPT ![q] = "none"]
    /\ failed' = [failed EXCEPT ![q] = "no"]
    /\ answered' = [answered EXCEPT ![q] = {}]
    /\ dropped' = dropped \ {q}

\* the handler returns
Return(q, answer) ==
    /\ told' = [told EXCEPT ![q] = answer]
    /\ Goto(q, "done")

\* format_synthesis_output's text of any failure explains BROWSER_BUSY, and the
\* handler takes each output of a first run that holds the word for one
PrintResult(q) ==
    /\ pc[q] = "print"
    /\ Return(q, IF failed[q] # "no" /\ runs[q] = 1 THEN "busy" ELSE "answer")
    /\ Ended(q)
    /\ UNCHANGED <<setting, runs, files, log, got, faults>>

\* The process exits 0 and has printed nothing: once it is run again
Silent(q) ==
    /\ pc[q] = "print"
    /\ Ended(q)
    /\ \/ /\ runs[q] = 1
          /\ Fault
          /\ runs' = [runs EXCEPT ![q] = 2]
          /\ Goto(q, "start")
          /\ UNCHANGED told
       \/ /\ runs[q] = 2
          /\ Return(q, "empty")
          /\ UNCHANGED <<runs, faults>>
    /\ UNCHANGED <<setting, files, log, got>>

\* Exit code 1: execFile rejects and the handler throws
Exit(q) ==
    /\ pc[q] = "exit"
    /\ Return(q, "error")
    /\ Ended(q)
    /\ UNCHANGED <<setting, runs, files, log, got, faults>>

\* The handler's timeout: the process is killed wherever it is
Timeout(q) ==
    /\ pc[q] \in Running
    /\ Fault
    /\ Return(q, "error")
    /\ Ended(q)
    /\ UNCHANGED <<setting, runs, files, log, got>>

\* council_read, by a session that has its answer: read_cached, which the tool
\* gives no invocation id
Read(q) ==
    /\ told[q] \in {"answer", "busy"}
    /\ got[q] = None
    /\ got' = [got EXCEPT ![q] = latest]
    /\ UNCHANGED <<setting, pc, process, files, log, told, faults>>

Step(q) ==
    \/ Start(q) \/ Health(q) \/ Gathered(q) \/ AskSonar(q) \/ ProvidersGathered(q)
    \/ \E m \in Model : AskModel(q, m) \/ AskProvider(q, m)
    \/ Synthesise(q) \/ BrowserAnswers(q) \/ BrowserFails(q)
    \/ Open(q) \/ Write(q) \/ Own(q) \/ Log(q) \/ PrintResult(q) \/ Exit(q)

Next == \E q \in Query :
    Step(q) \/ Call(q) \/ BrowserRaises(q) \/ SaveRaises(q) \/ Silent(q) \/ Timeout(q) \/ Read(q)

Spec == Init /\ [][Next]_vars

------------------------------------------------------------------------------
(* Properties                                                              *)

\* Types; among them that a call makes at most 1 + Retries attempts and a
\* query at most four results.
ProcessOK ==
    /\ setting \in Settings
    /\ pc \in [Query -> Running \cup {"idle", "exit", "done"}]
    /\ runs \in [Query -> 0 .. 2]
    /\ line \in [Query -> {"none", "api", "direct", "browser"}]
    /\ synth \in [Query -> {"none", "native", "opus", "error"}]
    /\ failed \in [Query -> {"no", "busy", "error"}]
TriesOK ==
    /\ tries \in [Query -> [Part -> Nat]]
    /\ \A q \in Query : /\ \A m \in Model : tries[q][m] <= Retries
                        /\ tries[q]["opus"] <= SynthesisRetries
ResultOK ==
    /\ models \in [Query -> Result]
    /\ answered \in [Query -> SUBSET Source]
    /\ owed \in [Query -> Nat]
    /\ dropped \subseteq Query /\ unlogged \subseteq Query
FilesOK ==
    /\ n \in [Query -> 0 .. 4]
    /\ latest \in {None, Torn} \cup (Query \X (1 .. 4))
    /\ own \in [Query -> {None, Torn} \cup (1 .. 4)]
    /\ mixed \subseteq Query /\ met \subseteq Query
    /\ told \in [Query -> {"nothing", "answer", "busy", "empty", "error"}]
    /\ got \in [Query -> {None, Torn} \cup (Query \X (1 .. 4))]
    /\ faults \in 0 .. MaxFault
TypeOK == ProcessOK /\ TriesOK /\ ResultOK /\ FilesOK

\* The result a session is told of can be read again: the invocation's own file
\* holds it, although others save at the same time, mode auto saves twice and
\* the handler may have run the process twice (save_results, "Save
\* per-invocation file"); and council_read gives it, unless another query has
\* been saving since this one's save began.
ResultKept == \A q \in Query :
    /\ told[q] \in {"answer", "busy"} => own[q] = n[q]
    /\ got[q] # None /\ q \notin met => got[q] = <<q, n[q]>>

\* No text that a model has returned to the process is missing from the models of the
\* result it ends with - which it saves, and council_read gives; what it prints is the
\* synthesis only - along whichever fallbacks the query went.  Except in mode auto,
\* which drops an API result that could not be saved and asks the browser instead.
AnswersKept == \A q \in Query : pc[q] = "print" /\ q \notin dropped =>
    answered[q] \subseteq {s \in DOMAIN models[q] : models[q][s] = "text"}

\* With the fallbacks off, as they are by default, the run log accounts for every
\* billed call that returned, also for those of an API attempt that mode auto gave
\* up and of a process whose output was lost; but for a result that could not be
\* saved, and a line that could not be written.
PaidIsLogged == \A q \in Query :
    /\ told[q] \in {"answer", "busy", "empty"}
    /\ ~setting[q].fallback /\ q \notin unlogged
    => owed[q] = 0

\* The session is told that the browser is busy only if it was.  (server.js,
\* "Check for browser busy error (concurrent session holding the profile lock)".)
\* Does not hold: README, section 4.
BusyIsBusy == [][\A q \in Query :
    told[q] # "busy" /\ told'[q] = "busy" => failed[q] = "busy"]_vars
==============================================================================
