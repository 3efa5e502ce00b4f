---------------------------- MODULE FileLocksProofs ----------------------------
(***************************************************************************)
(* Theorems about FileLocks, for any number of agents, files and attempts. *)
(***************************************************************************)
EXTENDS FileLocks, TLAPS

\* Between opening the temporary file and renaming it
InFile == {"fill", "replace"}

\* The temporary file is used by one writer at a time, who gets into the table
\* what it means to write.
WriterInv ==
    /\ \A p, q \in Agent : pc[p] \in InFile /\ pc[q] \in InFile => p = q
    /\ \A p \in Agent : fd[p] = IF pc[p] = "fill" THEN "tmp" ELSE "none"
    /\ \A p \in Agent : pc[p] = "fill" => tmp = Empty
    /\ \A p \in Agent : pc[p] = "replace" => tmp = copy[p]

\* A copy about to be written has the entries of the other agents that are in the
\* table, unless their owner still waits for this writer; and it has the
\* writer's own as they are.
CopyInv ==
    \A p \in Agent : pc[p] \in Writing =>
        /\ \A f \in File : \A q \in Agent \ {p} :
             disk[f] = q => \/ copy[p][f] = q
                            \/ pc[q] = "verify" /\ op[q].arg = f /\ p \in racing[q]
        /\ \A f \in File :
             copy[p][f] = p => disk[f] = p \/ (op[p].kind = "acquire" /\ f = op[p].arg)
        /\ \A f \in held[p] :
             \/ copy[p][f] = p
             \/ op[p].kind = "release" /\ f = op[p].arg
             \/ op[p].kind = "releaseAll"
        /\ op[p].kind = "acquire" => copy[p][op[p].arg] = p

\* What is held is in the table; what is being acquired is not held.
HeldInv ==
    /\ old = {}
    /\ \A p \in Agent : \A f \in held[p] : disk[f] = p
    /\ \A p \in Agent :
         op[p].kind = "acquire" /\ pc[p] \in Writing \cup {"verify"} => op[p].arg \notin held[p]

\* An operation in progress is one of the three; the verification is acquire's.
OpInv ==
    /\ \A p \in Agent : pc[p] # "idle" => op[p].kind # "none"
    /\ \A p \in Agent : pc[p] = "verify" => op[p].kind = "acquire"

\* The types of what a process's own steps change
ProgressOK ==
    /\ pc \in [Agent -> Location] /\ op \in [Agent -> Op] /\ attempt \in [Agent -> 0 .. Retries]
    /\ copy \in [Agent -> Table]

\* What the properties assume, and the inductive invariant
Quiet == Undisturbed /\ TwoOrNoneRestored
LocksInv == TypeOK /\ OpInv /\ (Quiet => WriterInv /\ CopyInv /\ HeldInv)

------------------------------------------------------------------------------

\* The operations
LEMMA Ops ==
    /\ NoOp \in Op
    /\ \A kind \in {"acquire", "release"}, f \in File : [kind |-> kind, arg |-> f] \in Op
    /\ [kind |-> "releaseAll", arg |-> Nobody] \in Op
    /\ \A o \in Op : /\ o.kind \in {"none", "acquire", "release", "releaseAll"}
                     /\ o.kind \in {"acquire", "release"} => o.arg \in File
BY DEF Op, NoOp

\* Tables, and what the operations make of one
LEMMA Tables ==
    /\ Empty \in Table
    /\ \A t \in Table, f \in File, a \in Agent \cup {Nobody} :
         t[f] \in Agent \cup {Nobody} /\ [t EXCEPT ![f] = a] \in Table
    /\ \A t \in Table, a \in Agent : [f \in File |-> IF t[f] = a THEN Nobody ELSE t[f]] \in Table
    /\ disk \in Table => Cleaned \in Table
BY DEF Table, Empty, Cleaned

\* Where a process is after it has returned ...
LEMMA Returned == \A p \in Agent : TypeOK /\ Return(p) => ProgressOK'
BY Ops, Tables, RetriesAssumption DEF TypeOK, ProgressOK, Return, Goto, Location

\* ... or goes on to write ...
LEMMA WritesBack == \A p \in Agent, t \in Table : TypeOK /\ WriteBack(p, t) => ProgressOK'
BY DEF TypeOK, ProgressOK, WriteBack, Goto, Location, Writing

\* ... or tries again.
LEMMA Retried == \A a \in Agent : TypeOK /\ RetryOrFail(a) => ProgressOK'
<1> SUFFICES ASSUME NEW a \in Agent, TypeOK, RetryOrFail(a) PROVE ProgressOK'
  OBVIOUS
<1>1. CASE Return(a)
  BY <1>1, Returned
<1>2. CASE ~Return(a)
  <2>1. /\ attempt[a] < Retries /\ attempt' = [attempt EXCEPT ![a] = attempt[a] + 1]
        /\ copy' = [copy EXCEPT ![a] = Empty] /\ Goto(a, "read") /\ UNCHANGED op
    BY <1>2 DEF RetryOrFail
  <2>2. attempt' \in [Agent -> 0 .. Retries]
    BY <2>1, RetriesAssumption DEF TypeOK
  <2>3. copy' \in [Agent -> Table]
    BY <2>1, Tables DEF TypeOK
  <2>4. pc' \in [Agent -> Location] /\ op' \in [Agent -> Op]
    BY <2>1 DEF Goto, TypeOK, Location
  <2> QED BY <2>2, <2>3, <2>4 DEF ProgressOK
<1> QED BY <1>1, <1>2

\* What a process gains and loses are files.
LEMMA GainsAndLoses ==
    \A a \in Agent : TypeOK /\ op[a].kind \in {"acquire", "release"} /\ (Gain(a) \/ Lose(a)) =>
        held' \in [Agent -> SUBSET File]
<1> SUFFICES ASSUME NEW a \in Agent, TypeOK, op[a].kind \in {"acquire", "release"}, Gain(a) \/ Lose(a)
             PROVE  held' \in [Agent -> SUBSET File]
  OBVIOUS
<1>1. op[a].arg \in File
  BY Ops DEF TypeOK
<1> QED BY <1>1 DEF TypeOK, Gain, Lose

\* TypeOK's last conjunct
RacingOK == \A a \in Agent : a \notin racing[a] /\ (racing[a] # {} => pc[a] = "verify")

\* Only a process that waits is raced; and it moves only when it is not any more.
LEMMA StillRacing ==
    \A p \in Agent : TypeOK /\ UNCHANGED racing /\ racing[p] = {} /\ (\A q \in Agent \ {p} : pc'[q] = pc[q])
        => RacingOK'
BY DEF TypeOK, RacingOK

\* The invariant holds when nobody has locked anything.
LEMMA LocksInit == Init => LocksInv
<1> SUFFICES ASSUME Init PROVE LocksInv
  OBVIOUS
<1>1. Empty \in Table
  BY DEF Empty, Table
<1>2. TypeOK
  <2>1. /\ disk \in Table /\ tmp \in Table \cup {Absent} /\ old \subseteq File \X Agent
        /\ fd \in [Agent -> Handle] /\ held \in [Agent -> SUBSET File]
        /\ racing \in [Agent -> SUBSET Agent] /\ restored \in BOOLEAN
    BY <1>1 DEF Init, Handle
  <2>2. ProgressOK
    BY <1>1, Ops, RetriesAssumption DEF Init, ProgressOK, Location
  <2>3. mishaps \in 0 .. MaxMishap /\ \A a \in Agent : a \notin racing[a] /\ racing[a] = {}
    BY BoundAssumption DEF Init
  <2> QED BY <2>1, <2>2, <2>3 DEF TypeOK, ProgressOK
<1>3. OpInv
  BY DEF Init, OpInv
<1>4. WriterInv /\ CopyInv /\ HeldInv
  BY DEF Init, WriterInv, CopyInv, HeldInv, InFile, Writing
<1> QED BY <1>2, <1>3, <1>4 DEF LocksInv

\* Every variable keeps its type.
LEMMA TypesStep == TypeOK /\ OpInv /\ [Next]_vars => TypeOK'
<1> SUFFICES ASSUME TypeOK /\ OpInv, [Next]_vars PROVE TypeOK'
  OBVIOUS
<1>1. ASSUME NEW a \in Agent, NEW f \in File, Acquire(a, f) PROVE TypeOK'
  BY <1>1, Ops, RetriesAssumption DEF Acquire, Start, Goto, files, TypeOK, Location, Writing,
     Handle
<1>2. ASSUME NEW a \in Agent, NEW f \in File, Release(a, f) PROVE TypeOK'
  BY <1>2, Ops, RetriesAssumption DEF Release, Start, Goto, files, TypeOK, Location, Writing,
     Handle
<1>3. ASSUME NEW a \in Agent, ReleaseAll(a) PROVE TypeOK'
  BY <1>3, Ops, RetriesAssumption DEF ReleaseAll, Start, Goto, files, TypeOK, Location, Writing,
     Handle
<1>4. ASSUME NEW a \in Agent, AcquireRead(a) PROVE TypeOK'
  <2>1. UNCHANGED <<files, fd, racing, restored, mishaps>>
    BY <1>4 DEF AcquireRead
  <2>2. ProgressOK'
    <3>1. \A t \in Table : [t EXCEPT ![op[a].arg] = a] \in Table
      BY <1>4, Ops, Tables DEF AcquireRead, TypeOK
    <3>2. Cleaned \in Table
      BY Tables DEF TypeOK
    <3> QED BY <1>4, <3>1, <3>2, Returned, Retried, WritesBack DEF AcquireRead
  <2>3. held' \in [Agent -> SUBSET File]
    BY <1>4, GainsAndLoses DEF AcquireRead, TypeOK
  <2>4. racing[a] = {} /\ \A q \in Agent \ {a} : pc'[q] = pc[q]
    BY <1>4 DEF AcquireRead, TypeOK, Return, RetryOrFail, WriteBack, Goto
  <2>5. RacingOK'
    BY <2>1, <2>4, StillRacing
  <2> QED BY <2>1, <2>2, <2>3, <2>5 DEF TypeOK, ProgressOK, RacingOK, files
<1>5. ASSUME NEW a \in Agent, Verify(a) PROVE TypeOK'
  <2>1. UNCHANGED <<files, fd, racing, restored, mishaps>>
    BY <1>5 DEF Verify
  <2>2. ProgressOK'
    BY <1>5, Returned, Retried DEF Verify
  <2>3. held' \in [Agent -> SUBSET File]
    <3>1. op[a].kind = "acquire"
      BY <1>5 DEF Verify, OpInv
    <3> QED BY <1>5, <3>1, GainsAndLoses DEF Verify, TypeOK
  <2>4. racing[a] = {} /\ \A q \in Agent \ {a} : pc'[q] = pc[q]
    BY <1>5 DEF Verify, TypeOK, Return, RetryOrFail, WriteBack, Goto
  <2>5. RacingOK'
    BY <2>1, <2>4, StillRacing
  <2> QED BY <2>1, <2>2, <2>3, <2>5 DEF TypeOK, ProgressOK, RacingOK, files
<1>6. ASSUME NEW a \in Agent, ReleaseRead(a) PROVE TypeOK'
  <2>1. UNCHANGED <<files, fd, racing, restored, mishaps>>
    BY <1>6 DEF ReleaseRead
  <2>2. ProgressOK'
    <3>1. [disk EXCEPT ![op[a].arg] = Nobody] \in Table
      BY <1>6, Ops, Tables DEF ReleaseRead, TypeOK
    <3> QED BY <1>6, <3>1, Returned, WritesBack DEF ReleaseRead
  <2>3. held' \in [Agent -> SUBSET File]
    BY <1>6, GainsAndLoses DEF ReleaseRead, TypeOK
  <2>4. racing[a] = {} /\ \A q \in Agent \ {a} : pc'[q] = pc[q]
    BY <1>6 DEF ReleaseRead, TypeOK, Return, RetryOrFail, WriteBack, Goto
  <2>5. RacingOK'
    BY <2>1, <2>4, StillRacing
  <2> QED BY <2>1, <2>2, <2>3, <2>5 DEF TypeOK, ProgressOK, RacingOK, files
<1>7. ASSUME NEW a \in Agent, ReleaseAllRead(a) PROVE TypeOK'
  <2>1. UNCHANGED <<files, fd, racing, restored, mishaps>>
    BY <1>7 DEF ReleaseAllRead
  <2>2. ProgressOK'
    <3>1. [f \in File |-> IF disk[f] = a THEN Nobody ELSE disk[f]] \in Table
      BY Tables DEF TypeOK
    <3> QED BY <1>7, <3>1, Returned, WritesBack DEF ReleaseAllRead
  <2>3. held' \in [Agent -> SUBSET File]
    BY <1>7 DEF ReleaseAllRead, TypeOK
  <2>4. racing[a] = {} /\ \A q \in Agent \ {a} : pc'[q] = pc[q]
    BY <1>7 DEF ReleaseAllRead, TypeOK, Return, RetryOrFail, WriteBack, Goto
  <2>5. RacingOK'
    BY <2>1, <2>4, StillRacing
  <2> QED BY <2>1, <2>2, <2>3, <2>5 DEF TypeOK, ProgressOK, RacingOK, files
<1>8. ASSUME NEW a \in Agent, Open(a) PROVE TypeOK'
  BY <1>8, Tables, BoundAssumption DEF Open, Mishap, Goto, TypeOK, Location, Writing, Handle
<1>9. ASSUME NEW a \in Agent, Fill(a) PROVE TypeOK'
  BY <1>9, Ops, Tables DEF Fill, Written, Goto, TypeOK, Location, Writing, Handle
<1>10. ASSUME NEW a \in Agent, Replace(a) PROVE TypeOK'
  <2>1. /\ disk' \in Table /\ tmp' = Absent /\ UNCHANGED mishaps /\ restored' \in BOOLEAN
        /\ pc[a] = "replace" /\ old' \subseteq old
    BY <1>10 DEF Replace, TypeOK
  <2>2. fd' \in [Agent -> Handle]
    BY <1>10 DEF Replace, TypeOK, Handle
  <2>3. CASE op[a].kind = "acquire"
    <3>1. /\ racing' = [Landed(a, racing) EXCEPT ![a] = {q \in Agent \ {a} : pc[q] \in Writing}]
          /\ pc' = [pc EXCEPT ![a] = "verify"] /\ UNCHANGED <<op, attempt, copy, held>>
      BY <1>10, <2>3 DEF Replace, Goto
    <3>2. racing' \in [Agent -> SUBSET Agent]
      BY <3>1 DEF Landed, TypeOK
    <3>3. RacingOK'
      BY <3>1 DEF RacingOK, Landed, TypeOK
    <3>4. pc' \in [Agent -> Location]
      BY <3>1 DEF TypeOK, Location
    <3> QED BY <2>1, <2>2, <3>1, <3>2, <3>3, <3>4 DEF TypeOK, RacingOK
  <2>4. CASE op[a].kind \in {"release", "releaseAll"}
    <3>1. racing' = Landed(a, racing) /\ Return(a)
      BY <1>10, <2>4 DEF Replace
    <3>2. ProgressOK'
      BY <3>1, Returned
    <3>3. held' \in [Agent -> SUBSET File]
      BY <1>10, <2>4, GainsAndLoses DEF Replace, TypeOK
    <3>4. racing' \in [Agent -> SUBSET Agent]
      BY <3>1 DEF Landed, TypeOK
    <3>5. \A q \in Agent \ {a} : pc'[q] = pc[q]
      BY <3>1 DEF Return, Goto, TypeOK
    <3>6. racing[a] = {}
      BY <2>1 DEF TypeOK
    <3>7. RacingOK'
      BY <3>1, <3>5, <3>6 DEF Landed, TypeOK, RacingOK
    <3> QED BY <2>1, <2>2, <3>2, <3>3, <3>4, <3>7 DEF TypeOK, ProgressOK, RacingOK
  <2> QED BY <1>10, <2>3, <2>4 DEF Replace
<1>11. ASSUME NEW a \in Agent, ReplaceFails(a) PROVE TypeOK'
  <2>1. /\ racing' = Landed(a, racing) /\ Return(a) /\ pc[a] = "replace"
        /\ UNCHANGED <<files, fd, held, restored, mishaps>>
    BY <1>11 DEF ReplaceFails
  <2>2. ProgressOK'
    BY <2>1, Returned
  <2>3. racing' \in [Agent -> SUBSET Agent]
    BY <2>1 DEF Landed, TypeOK
  <2>4. racing[a] = {} /\ \A q \in Agent \ {a} : pc'[q] = pc[q]
    BY <2>1 DEF Return, Goto, TypeOK
  <2>5. RacingOK'
    BY <2>1, <2>4 DEF Landed, TypeOK, RacingOK
  <2> QED BY <2>1, <2>2, <2>3, <2>5 DEF TypeOK, ProgressOK, RacingOK, files
<1>12. ASSUME NEW a \in Agent, Overtime(a) PROVE TypeOK'
  BY <1>12, Tables, BoundAssumption DEF Overtime, Mishap, files, TypeOK, Location, Writing,
     Handle
<1>13. ASSUME NEW f \in File, Expire(f) PROVE TypeOK'
  <2>1. <<f, disk[f]>> \in File \X Agent
    BY <1>13, Tables DEF Expire, TypeOK
  <2>2. mishaps' \in 0 .. MaxMishap
    BY <1>13, BoundAssumption DEF Expire, Mishap, TypeOK
  <2> QED BY <1>13, <2>1, <2>2 DEF Expire, TypeOK
<1>14. CASE UNCHANGED vars
  BY <1>14 DEF vars, files, TypeOK, Location, Writing, Handle
<1> QED
  BY <1>1, <1>2, <1>3, <1>4, <1>5, <1>6, <1>7, <1>8, <1>9, <1>10, <1>11, <1>12,
     <1>13, <1>14
     DEF Next, Call, Step, Write

\* An operation that has begun has a kind, and only acquire verifies.
LEMMA OpStep == TypeOK /\ OpInv /\ [Next]_vars => OpInv'
<1> SUFFICES ASSUME TypeOK /\ OpInv, [Next]_vars PROVE OpInv'
  OBVIOUS
<1>1. ASSUME NEW a \in Agent, NEW f \in File, Acquire(a, f) PROVE OpInv'
  BY <1>1 DEF Acquire, Start, Goto, files, TypeOK, OpInv
<1>2. ASSUME NEW a \in Agent, NEW f \in File, Release(a, f) PROVE OpInv'
  BY <1>2 DEF Release, Start, Goto, files, TypeOK, OpInv
<1>3. ASSUME NEW a \in Agent, ReleaseAll(a) PROVE OpInv'
  BY <1>3 DEF ReleaseAll, Start, Goto, files, TypeOK, OpInv
<1>4. ASSUME NEW a \in Agent, AcquireRead(a) PROVE OpInv'
  BY <1>4 DEF AcquireRead, Gain, Return, RetryOrFail, WriteBack, files, Goto, TypeOK, OpInv
<1>5. ASSUME NEW a \in Agent, Verify(a) PROVE OpInv'
  BY <1>5 DEF Verify, Gain, Return, RetryOrFail, files, Goto, TypeOK, OpInv
<1>6. ASSUME NEW a \in Agent, ReleaseRead(a) PROVE OpInv'
  BY <1>6 DEF ReleaseRead, WriteBack, Lose, Return, files, Goto, TypeOK, OpInv
<1>7. ASSUME NEW a \in Agent, ReleaseAllRead(a) PROVE OpInv'
  BY <1>7 DEF ReleaseAllRead, WriteBack, Return, files, Goto, TypeOK, OpInv
<1>8. ASSUME NEW a \in Agent, Open(a) PROVE OpInv'
  BY <1>8 DEF Open, Mishap, Goto, TypeOK, OpInv
<1>9. ASSUME NEW a \in Agent, Fill(a) PROVE OpInv'
  BY <1>9 DEF Fill, Written, Goto, TypeOK, OpInv
<1>10. ASSUME NEW a \in Agent, Replace(a) PROVE OpInv'
  BY <1>10 DEF Replace, Landed, Goto, Lose, Return, TypeOK, OpInv
<1>11. ASSUME NEW a \in Agent, ReplaceFails(a) PROVE OpInv'
  BY <1>11 DEF ReplaceFails, Landed, Return, files, Goto, TypeOK, OpInv
<1>12. ASSUME NEW a \in Agent, Overtime(a) PROVE OpInv'
  BY <1>12 DEF Overtime, Mishap, files, TypeOK, OpInv
<1>13. ASSUME NEW f \in File, Expire(f) PROVE OpInv'
  BY <1>13 DEF Expire, Mishap, TypeOK, OpInv
<1>14. CASE UNCHANGED vars
  BY <1>14 DEF vars, files, TypeOK, OpInv
<1> QED
  BY <1>1, <1>2, <1>3, <1>4, <1>5, <1>6, <1>7, <1>8, <1>9, <1>10, <1>11, <1>12,
     <1>13, <1>14
     DEF Next, Call, Step, Write

\* Nothing undoes a mishap or a restored entry.
LEMMA QuietStays == TypeOK /\ [Next]_vars /\ Quiet' => Quiet /\ UNCHANGED mishaps
<1> SUFFICES ASSUME TypeOK, [Next]_vars, Quiet' PROVE Quiet /\ UNCHANGED mishaps
  OBVIOUS
<1>1. mishaps \in Nat /\ MaxMishap \in Nat
  BY BoundAssumption DEF TypeOK
<1>2. \/ UNCHANGED <<restored, mishaps>>
      \/ mishaps' = mishaps + 1
      \/ UNCHANGED mishaps /\ \E p \in Agent : restored' = (mishaps = 0 /\ (restored \/ Restores(p)))
  BY DEF Next, Call, Step, Write, Acquire, Release, ReleaseAll, Start, AcquireRead, Verify,
         ReleaseRead, ReleaseAllRead, Open, Fill, Replace, ReplaceFails, Overtime, Expire,
         Mishap, vars
<1>3. mishaps' = 0
  BY DEF Quiet, Undisturbed
<1>4. UNCHANGED mishaps
  BY <1>1, <1>2, <1>3
<1>5. restored => restored'
  <2>1. mishaps = 0
    BY <1>3, <1>4
  <2>2. mishaps' # mishaps + 1
    BY <1>1, <1>4
  <2> QED BY <1>2, <2>1, <2>2, Zenon
<1> QED BY <1>3, <1>4, <1>5 DEF Quiet, Undisturbed, TwoOrNoneRestored

\* Nobody opens the temporary file while another has it.
LEMMA WriterStep == TypeOK /\ OpInv /\ Quiet /\ Quiet' /\ WriterInv /\ CopyInv /\ HeldInv /\ [Next]_vars => WriterInv'
<1> SUFFICES ASSUME TypeOK /\ OpInv /\ Quiet /\ Quiet' /\ WriterInv /\ CopyInv /\ HeldInv, [Next]_vars PROVE WriterInv'
  OBVIOUS
<1>1. ASSUME NEW a \in Agent, NEW f \in File, Acquire(a, f) PROVE WriterInv'
  BY <1>1 DEF Acquire, Start, Goto, files, WriterInv, InFile, Quiet, Undisturbed, TypeOK
<1>2. ASSUME NEW a \in Agent, NEW f \in File, Release(a, f) PROVE WriterInv'
  BY <1>2 DEF Release, Start, Goto, files, WriterInv, InFile, Quiet, Undisturbed, TypeOK
<1>3. ASSUME NEW a \in Agent, ReleaseAll(a) PROVE WriterInv'
  BY <1>3 DEF ReleaseAll, Start, Goto, files, WriterInv, InFile, Quiet, Undisturbed, TypeOK
<1>4. ASSUME NEW a \in Agent, AcquireRead(a) PROVE WriterInv'
  BY <1>4 DEF AcquireRead, Gain, Return, RetryOrFail, WriteBack, files, Goto, WriterInv, InFile,
     Quiet, Undisturbed, TypeOK
<1>5. ASSUME NEW a \in Agent, Verify(a) PROVE WriterInv'
  BY <1>5 DEF Verify, Gain, Return, RetryOrFail, files, Goto, WriterInv, InFile, Quiet,
     Undisturbed, TypeOK
<1>6. ASSUME NEW a \in Agent, ReleaseRead(a) PROVE WriterInv'
  BY <1>6 DEF ReleaseRead, WriteBack, Lose, Return, files, Goto, WriterInv, InFile, Quiet,
     Undisturbed, TypeOK
<1>7. ASSUME NEW a \in Agent, ReleaseAllRead(a) PROVE WriterInv'
  BY <1>7 DEF ReleaseAllRead, WriteBack, Return, files, Goto, WriterInv, InFile, Quiet,
     Undisturbed, TypeOK
<1>8. ASSUME NEW a \in Agent, Open(a) PROVE WriterInv'
  BY <1>8 DEF Open, Mishap, Goto, WriterInv, InFile, Quiet, Undisturbed, TypeOK, OthersIn
<1>9. ASSUME NEW a \in Agent, Fill(a) PROVE WriterInv'
  BY <1>9 DEF Fill, Written, Goto, WriterInv, InFile, Quiet, Undisturbed, TypeOK
<1>10. ASSUME NEW a \in Agent, Replace(a) PROVE WriterInv'
  BY <1>10 DEF Replace, Landed, Goto, Lose, Return, WriterInv, InFile, Quiet, Undisturbed,
     TypeOK
<1>11. ASSUME NEW a \in Agent, ReplaceFails(a) PROVE WriterInv'
  BY <1>11 DEF ReplaceFails, Landed, Return, files, Goto, WriterInv, InFile, Quiet, Undisturbed,
     TypeOK
<1>12. ASSUME NEW a \in Agent, Overtime(a) PROVE WriterInv'
  BY <1>12 DEF Overtime, Mishap, files, WriterInv, InFile, Quiet, Undisturbed, TypeOK
<1>13. ASSUME NEW f \in File, Expire(f) PROVE WriterInv'
  BY <1>13 DEF Expire, Mishap, WriterInv, InFile, Quiet, Undisturbed, TypeOK
<1>14. CASE UNCHANGED vars
  BY <1>14 DEF vars, files, WriterInv, InFile, Quiet, Undisturbed, TypeOK
<1> QED
  BY <1>1, <1>2, <1>3, <1>4, <1>5, <1>6, <1>7, <1>8, <1>9, <1>10, <1>11, <1>12,
     <1>13, <1>14
     DEF Next, Call, Step, Write

\* A step of a moves nobody else.
Alone(a) ==
    \A q \in Agent \ {a} :
        pc'[q] = pc[q] /\ op'[q] = op[q] /\ copy'[q] = copy[q] /\ held'[q] = held[q]

\* The invariant, where the properties' assumption holds
LocksHold == TypeOK /\ OpInv /\ Quiet /\ WriterInv /\ CopyInv /\ HeldInv

\* A step that leaves the table alone and its agent not about to write
LEMMA Outside ==
    ASSUME NEW a \in Agent, TypeOK, CopyInv, Alone(a), UNCHANGED disk,
           pc'[a] \notin Writing, racing[a] = {},
           \A p, q \in Agent \ {a} : p \in racing[q] => p \in racing'[q]
    PROVE  CopyInv'
<1> SUFFICES ASSUME NEW p \in Agent, pc'[p] \in Writing
             PROVE  /\ \A f \in File : \A q \in Agent \ {p} :
                         disk[f] = q => \/ copy'[p][f] = q
                                        \/ pc'[q] = "verify" /\ op'[q].arg = f /\ p \in racing'[q]
                    /\ \A f \in File : copy'[p][f] = p =>
                         disk[f] = p \/ (op'[p].kind = "acquire" /\ f = op'[p].arg)
                    /\ \A f \in held'[p] : \/ copy'[p][f] = p
                                           \/ op'[p].kind = "release" /\ f = op'[p].arg
                                           \/ op'[p].kind = "releaseAll"
                    /\ op'[p].kind = "acquire" => copy'[p][op'[p].arg] = p
  BY DEF CopyInv
<1>1. /\ p # a /\ pc[p] \in Writing /\ copy'[p] = copy[p] /\ op'[p] = op[p]
      /\ held'[p] = held[p]
  BY DEF Alone
<1>2. ASSUME NEW f \in File, NEW q \in Agent \ {p}, disk[f] = q
      PROVE  copy[p][f] = q \/ (pc'[q] = "verify" /\ op'[q].arg = f /\ p \in racing'[q])
  <2>1. copy[p][f] = q \/ (pc[q] = "verify" /\ op[q].arg = f /\ p \in racing[q])
    BY <1>1, <1>2 DEF CopyInv
  <2> QED BY <1>1, <2>1 DEF Alone
<1>3. /\ \A f \in File : copy[p][f] = p =>
           disk[f] = p \/ (op[p].kind = "acquire" /\ f = op[p].arg)
      /\ \A f \in held[p] : \/ copy[p][f] = p
                            \/ op[p].kind = "release" /\ f = op[p].arg
                            \/ op[p].kind = "releaseAll"
      /\ op[p].kind = "acquire" => copy[p][op[p].arg] = p
  BY <1>1 DEF CopyInv
<1> QED BY <1>1, <1>2, <1>3

\* A step of one that goes on to write what it has read and changed
LEMMA Copies ==
    ASSUME NEW a \in Agent, NEW t, TypeOK, CopyInv, Alone(a), UNCHANGED <<disk, racing, held, op>>,
           pc[a] = "read", copy'[a] = t,
           \A f \in File : \A q \in Agent \ {a} : disk[f] = q => t[f] = q,
           \A f \in File : t[f] = a => disk[f] = a \/ (op[a].kind = "acquire" /\ f = op[a].arg),
           \A f \in held[a] : \/ t[f] = a
                              \/ op[a].kind = "release" /\ f = op[a].arg
                              \/ op[a].kind = "releaseAll",
           op[a].kind = "acquire" => t[op[a].arg] = a
    PROVE  CopyInv'
<1> SUFFICES ASSUME NEW p \in Agent, pc'[p] \in Writing
             PROVE  /\ \A f \in File : \A q \in Agent \ {p} :
                         disk[f] = q => \/ copy'[p][f] = q
                                        \/ pc'[q] = "verify" /\ op[q].arg = f /\ p \in racing[q]
                    /\ \A f \in File : copy'[p][f] = p =>
                         disk[f] = p \/ (op[p].kind = "acquire" /\ f = op[p].arg)
                    /\ \A f \in held[p] : \/ copy'[p][f] = p
                                          \/ op[p].kind = "release" /\ f = op[p].arg
                                          \/ op[p].kind = "releaseAll"
                    /\ op[p].kind = "acquire" => copy'[p][op[p].arg] = p
  BY DEF CopyInv
<1>1. CASE p = a
  BY <1>1
<1>2. CASE p # a
  <2>1. pc[p] \in Writing /\ copy'[p] = copy[p]
    BY <1>2 DEF Alone
  <2>2. ASSUME NEW f \in File, NEW q \in Agent \ {p}, disk[f] = q
        PROVE  copy[p][f] = q \/ (pc'[q] = "verify" /\ op[q].arg = f /\ p \in racing[q])
    <3>1. copy[p][f] = q \/ (pc[q] = "verify" /\ op[q].arg = f /\ p \in racing[q])
      BY <2>1, <2>2 DEF CopyInv
    <3> QED BY <3>1 DEF Alone
  <2>3. /\ \A f \in File : copy[p][f] = p =>
             disk[f] = p \/ (op[p].kind = "acquire" /\ f = op[p].arg)
        /\ \A f \in held[p] : \/ copy[p][f] = p
                              \/ op[p].kind = "release" /\ f = op[p].arg
                              \/ op[p].kind = "releaseAll"
        /\ op[p].kind = "acquire" => copy[p][op[p].arg] = p
    BY <2>1 DEF CopyInv
  <2> QED BY <2>1, <2>2, <2>3
<1> QED BY <1>1, <1>2

\* A call begins.
LEMMA StartHolds ==
    ASSUME NEW a \in Agent, LocksHold, NEW kind, NEW arg, Start(a, kind, arg)
    PROVE  CopyInv' /\ HeldInv'
<1>1. /\ UNCHANGED <<disk, old, racing, held>> /\ Alone(a) /\ pc[a] = "idle" /\ pc'[a] = "read"
  BY DEF Start, Goto, files, Alone, LocksHold, TypeOK
<1>2. racing[a] = {}
  BY <1>1 DEF LocksHold, TypeOK
<1>3. CopyInv'
  BY <1>1, <1>2, Outside DEF LocksHold, Writing
<1>4. HeldInv'
  <2>1. ASSUME NEW p \in Agent, op'[p].kind = "acquire", pc'[p] \in Writing \cup {"verify"}
        PROVE  op'[p].arg \notin held[p]
    BY <1>1, <2>1 DEF Alone, Writing, LocksHold, HeldInv
  <2> QED BY <1>1, <2>1 DEF LocksHold, HeldInv
<1> QED BY <1>3, <1>4

\* A call returns, or tries again, without a write.
LEMMA BackHolds ==
    ASSUME NEW a \in Agent, LocksHold, Return(a) \/ RetryOrFail(a),
           UNCHANGED <<disk, old>>, racing[a] = {},
           \A p, q \in Agent \ {a} : p \in racing[q] => p \in racing'[q],
           \A p \in Agent \ {a} : held'[p] = held[p],
           \A f \in held'[a] : disk[f] = a
    PROVE  CopyInv' /\ HeldInv'
<1>1. Alone(a) /\ pc'[a] \in {"idle", "read"}
  BY DEF Return, RetryOrFail, Goto, Alone, LocksHold, TypeOK
<1>2. CopyInv'
  BY <1>1, Outside DEF LocksHold, Writing
<1>3. HeldInv'
  <2>1. ASSUME NEW p \in Agent PROVE \A f \in held'[p] : disk[f] = p
    BY DEF LocksHold, HeldInv
  <2>2. ASSUME NEW p \in Agent, op'[p].kind = "acquire", pc'[p] \in Writing \cup {"verify"}
        PROVE  op'[p].arg \notin held'[p]
    BY <1>1, <2>2 DEF Alone, Writing, LocksHold, HeldInv
  <2> QED BY <2>1, <2>2 DEF LocksHold, HeldInv
<1> QED BY <1>2, <1>3

\* A call goes on to write.
LEMMA WriteHolds ==
    ASSUME NEW a \in Agent, NEW t, LocksHold, WriteBack(a, t), pc[a] = "read",
           UNCHANGED <<disk, old, racing, held>>,
           \A f \in File : \A q \in Agent \ {a} : disk[f] = q => t[f] = q,
           \A f \in File : t[f] = a => disk[f] = a \/ (op[a].kind = "acquire" /\ f = op[a].arg),
           \A f \in held[a] : \/ t[f] = a
                              \/ op[a].kind = "release" /\ f = op[a].arg
                              \/ op[a].kind = "releaseAll",
           op[a].kind = "acquire" => t[op[a].arg] = a /\ disk[op[a].arg] # a
    PROVE  CopyInv' /\ HeldInv'
<1>1. Alone(a) /\ UNCHANGED op /\ copy'[a] = t
  BY DEF WriteBack, Goto, Alone, LocksHold, TypeOK
<1>2. TypeOK /\ CopyInv
  BY DEF LocksHold
<1>3. CopyInv'
  BY <1>1, <1>2, Copies
<1>4. HeldInv'
  <2>1. ASSUME NEW p \in Agent, op[p].kind = "acquire", pc'[p] \in Writing \cup {"verify"}
        PROVE  op[p].arg \notin held[p]
    <3>1. CASE p = a
      BY <2>1, <3>1 DEF LocksHold, HeldInv
    <3>2. CASE p # a
      BY <1>1, <2>1, <3>2 DEF Alone, LocksHold, HeldInv
    <3> QED BY <3>1, <3>2
  <2> QED BY <1>1, <2>1 DEF LocksHold, HeldInv
<1> QED BY <1>3, <1>4

\* A writer gets on with the temporary file.
LEMMA InPlace ==
    ASSUME NEW a \in Agent, LocksHold, UNCHANGED <<disk, old, op, copy, held, racing>>,
           NEW l \in Writing, pc[a] \in Writing, Goto(a, l)
    PROVE  CopyInv' /\ HeldInv'
<1>1. \A q \in Agent \ {a} : pc'[q] = pc[q]
  BY DEF Goto, LocksHold, TypeOK
<1>2. \A p \in Agent : pc'[p] \in Writing => pc[p] \in Writing
  BY <1>1
<1>3. \A q \in Agent : pc[q] = "verify" <=> pc'[q] = "verify"
  BY DEF Goto, LocksHold, TypeOK, Writing
<1>4. CopyInv'
  BY <1>2, <1>3 DEF LocksHold, CopyInv
<1>5. HeldInv'
  BY <1>2, <1>3 DEF LocksHold, HeldInv
<1> QED BY <1>4, <1>5

\* What a rename changes
LEMMA Replaced ==
    ASSUME NEW r \in Agent, LocksHold, Replace(r)
    PROVE  /\ pc[r] = "replace" /\ disk' = copy[r] /\ tmp = copy[r] /\ old' = {}
           /\ Alone(r)
           /\ \A q \in Agent \ {r} : racing'[q] = racing[q] \ {r}
           /\ restored' = (mishaps = 0 /\ (restored \/ Restores(r)))
           /\ \/ /\ op[r].kind = "acquire" /\ op'[r] = op[r] /\ held'[r] = held[r]
                 /\ racing'[r] = {q \in Agent \ {r} : pc[q] \in Writing} /\ pc'[r] = "verify"
              \/ /\ op[r].kind = "release" /\ pc'[r] = "idle"
                 /\ held'[r] = held[r] \ {op[r].arg}
              \/ op[r].kind = "releaseAll" /\ pc'[r] = "idle" /\ held'[r] = {}
<1>1. pc[r] = "replace" /\ disk' = copy[r] /\ tmp = copy[r]
  BY DEF Replace, LocksHold, WriterInv
<1>2. restored' = (mishaps = 0 /\ (restored \/ Restores(r)))
  BY Zenon DEF Replace
<1>3. old' = {}
  BY DEF Replace, LocksHold, HeldInv
<1>4. CASE op[r].kind = "acquire"
  <2>1. /\ racing' = [Landed(r, racing) EXCEPT ![r] = {q \in Agent \ {r} : pc[q] \in Writing}]
        /\ Goto(r, "verify") /\ UNCHANGED <<op, attempt, copy, held>>
    BY <1>4 DEF Replace
  <2>2. /\ racing'[r] = {q \in Agent \ {r} : pc[q] \in Writing}
        /\ \A q \in Agent \ {r} : racing'[q] = racing[q] \ {r}
    BY <2>1 DEF Landed
  <2>3. Alone(r) /\ pc'[r] = "verify"
    BY <2>1 DEF Alone, Goto, LocksHold, TypeOK
  <2> QED BY <1>1, <1>2, <1>3, <1>4, <2>1, <2>2, <2>3
<1>5. CASE op[r].kind = "release"
  <2>1. racing' = Landed(r, racing) /\ Lose(r) /\ Return(r)
    BY <1>5 DEF Replace
  <2>2. \A q \in Agent \ {r} : racing'[q] = racing[q] \ {r}
    BY <2>1 DEF Landed
  <2>3. Alone(r) /\ pc'[r] = "idle" /\ held'[r] = held[r] \ {op[r].arg}
    BY <2>1 DEF Alone, Return, Lose, Goto, LocksHold, TypeOK
  <2> QED BY <1>1, <1>2, <1>3, <1>5, <2>2, <2>3
<1>6. CASE op[r].kind = "releaseAll"
  <2>1. racing' = Landed(r, racing) /\ held' = [held EXCEPT ![r] = {}] /\ Return(r)
    BY <1>6 DEF Replace
  <2>2. \A q \in Agent \ {r} : racing'[q] = racing[q] \ {r}
    BY <2>1 DEF Landed
  <2>3. Alone(r) /\ pc'[r] = "idle" /\ held'[r] = {}
    BY <2>1 DEF Alone, Return, Goto, LocksHold, TypeOK
  <2> QED BY <1>1, <1>2, <1>3, <1>6, <2>2, <2>3
<1> QED BY <1>4, <1>5, <1>6 DEF Replace

\* A writer's copy takes the table's place.
LEMMA ReplaceHolds ==
    ASSUME NEW r \in Agent, LocksHold, Quiet', Replace(r)
    PROVE  CopyInv' /\ HeldInv'
<1>1. pc[r] = "replace" /\ pc[r] \in Writing /\ disk' = copy[r] /\ tmp = copy[r] /\ Alone(r)
  BY Replaced DEF Writing
<1>2. \A q \in Agent \ {r} : racing'[q] = racing[q] \ {r}
  BY Replaced
\* Nobody's entry is dropped by r unless its owner waits for r.
<1>3. ASSUME NEW q \in Agent \ {r}, NEW f \in File, disk[f] = q
      PROVE  copy[r][f] = q \/ (pc[q] = "verify" /\ op[q].arg = f)
  BY <1>1, <1>3 DEF LocksHold, CopyInv
<1>4. CopyInv'
  <2> SUFFICES ASSUME NEW p \in Agent, pc'[p] \in Writing
               PROVE  /\ \A f \in File : \A q \in Agent \ {p} :
                           copy[r][f] = q => \/ copy'[p][f] = q
                                             \/ /\ pc'[q] = "verify" /\ op'[q].arg = f
                                                /\ p \in racing'[q]
                      /\ \A f \in File : copy'[p][f] = p =>
                           copy[r][f] = p \/ (op'[p].kind = "acquire" /\ f = op'[p].arg)
                      /\ \A f \in held'[p] : \/ copy'[p][f] = p
                                             \/ op'[p].kind = "release" /\ f = op'[p].arg
                                             \/ op'[p].kind = "releaseAll"
                      /\ op'[p].kind = "acquire" => copy'[p][op'[p].arg] = p
    BY <1>1 DEF CopyInv
  <2>1. p # r
    BY Replaced DEF Writing
  <2>2. pc[p] \in Writing /\ copy'[p] = copy[p] /\ op'[p] = op[p] /\ held'[p] = held[p]
    BY <1>1, <2>1 DEF Alone
  <2>3. /\ \A f \in File : copy[p][f] = p =>
             disk[f] = p \/ (op[p].kind = "acquire" /\ f = op[p].arg)
        /\ \A f \in held[p] : \/ copy[p][f] = p
                              \/ op[p].kind = "release" /\ f = op[p].arg
                              \/ op[p].kind = "releaseAll"
        /\ op[p].kind = "acquire" => copy[p][op[p].arg] = p
    BY <2>2 DEF LocksHold, CopyInv
  <2>4. ASSUME NEW f \in File, disk[f] = p PROVE copy[r][f] = p
    BY <1>3, <2>1, <2>2, <2>4 DEF Writing
  <2>5. ASSUME NEW f \in File, NEW q \in Agent \ {p}, copy[r][f] = q, q # r, disk[f] = q
        PROVE  copy[p][f] = q \/ (pc'[q] = "verify" /\ op'[q].arg = f /\ p \in racing'[q])
    <3>1. copy[p][f] = q \/ (pc[q] = "verify" /\ op[q].arg = f /\ p \in racing[q])
      BY <2>2, <2>5 DEF LocksHold, CopyInv
    <3> QED BY <1>1, <1>2, <2>1, <2>5, <3>1 DEF Alone
  \* An entry that r brings back, seen by a third agent
  <2>6. ASSUME NEW f \in File, NEW q \in Agent \ {p}, copy[r][f] = q, q # r, disk[f] # q
        PROVE  FALSE
    <3>1. Restores(r)
      BY <1>1, <2>6, NobodyAssumption DEF Restores
    <3>2. mishaps = 0
      BY DEF LocksHold, Quiet, Undisturbed
    <3>3. restored'
      BY <3>1, <3>2, Replaced, Zenon
    <3> QED BY <2>1, <2>6, <3>3 DEF Quiet, TwoOrNoneRestored
  <2>7. ASSUME NEW f \in File, copy[r][f] = r
        PROVE  copy[p][f] = r \/ (pc'[r] = "verify" /\ op'[r].arg = f /\ p \in racing'[r])
    <3>1. disk[f] = r \/ (op[r].kind = "acquire" /\ f = op[r].arg)
      BY <1>1, <2>7 DEF LocksHold, CopyInv
    <3>2. CASE disk[f] = r
      BY <1>1, <2>1, <2>2, <3>2 DEF LocksHold, CopyInv
    <3>3. CASE op[r].kind = "acquire" /\ f = op[r].arg
      <4>1. /\ op'[r] = op[r] /\ pc'[r] = "verify"
            /\ racing'[r] = {q \in Agent \ {r} : pc[q] \in Writing}
        BY <3>3, Replaced
      <4> QED BY <2>1, <2>2, <3>3, <4>1
    <3> QED BY <3>1, <3>2, <3>3
  <2> QED BY <2>2, <2>3, <2>4, <2>5, <2>6, <2>7
<1>5. HeldInv'
  <2>1. old' = {}
    BY Replaced
  <2>2. ASSUME NEW p \in Agent, NEW f \in held'[p], p # r PROVE copy[r][f] = p
    <3>1. f \in held[p] /\ f \in File /\ disk[f] = p
      BY <1>1, <2>2 DEF Alone, LocksHold, HeldInv, TypeOK
    <3>2. copy[r][f] = p \/ (pc[p] = "verify" /\ op[p].arg = f)
      BY <1>3, <2>2, <3>1
    <3>3. pc[p] = "verify" => op[p].kind = "acquire" /\ op[p].arg \notin held[p]
      BY DEF LocksHold, OpInv, HeldInv
    <3> QED BY <3>1, <3>2, <3>3
  <2>3. ASSUME NEW f \in held'[r] PROVE copy[r][f] = r
    <3>1. /\ f \in held[r] /\ op[r].kind # "releaseAll"
          /\ ~(op[r].kind = "release" /\ f = op[r].arg)
      BY <2>3, Replaced
    <3> QED BY <1>1, <3>1 DEF LocksHold, CopyInv
  <2>4. ASSUME NEW p \in Agent, op'[p].kind = "acquire", pc'[p] \in Writing \cup {"verify"}
        PROVE  op'[p].arg \notin held'[p]
    <3>1. CASE p = r
      <4>1. op'[r] = op[r] /\ held'[r] = held[r]
        BY <2>4, <3>1, Replaced DEF Writing
      <4> QED BY <1>1, <2>4, <3>1, <4>1 DEF LocksHold, HeldInv
    <3>2. CASE p # r
      BY <1>1, <2>4, <3>2 DEF Alone, LocksHold, HeldInv
    <3> QED BY <3>1, <3>2
  <2> QED BY <1>1, <2>1, <2>2, <2>3, <2>4 DEF HeldInv
<1> QED BY <1>4, <1>5

\* No step but a mishap breaks what copies and holders rely on.
LEMMA HoldsStep == LocksHold /\ Quiet' /\ [Next]_vars => CopyInv' /\ HeldInv'
<1> SUFFICES ASSUME LocksHold, Quiet', [Next]_vars PROVE CopyInv' /\ HeldInv'
  OBVIOUS
<1> DEFINE Kept == CopyInv' /\ HeldInv'
<1>0. /\ old = {} /\ UNCHANGED mishaps /\ mishaps \in Nat
      /\ \A p \in Agent : racing[p] # {} => pc[p] = "verify"
      /\ \A p \in Agent : \A f \in held[p] : disk[f] = p
  BY QuietStays, BoundAssumption DEF LocksHold, HeldInv, TypeOK
<1>1. ASSUME NEW a \in Agent, NEW f \in File, Acquire(a, f) \/ Release(a, f) \/ ReleaseAll(a)
      PROVE  Kept
  BY <1>1, StartHolds DEF Acquire, Release, ReleaseAll
<1>2. ASSUME NEW a \in Agent, AcquireRead(a) PROVE Kept
  <2> DEFINE f == op[a].arg
  <2>1. /\ pc[a] = "read" /\ op[a].kind = "acquire" /\ racing[a] = {}
        /\ UNCHANGED <<disk, old, racing>>
    BY <1>0, <1>2 DEF AcquireRead, files
  <2>2. f \in File
    BY <2>1, Ops DEF LocksHold, TypeOK
  <2>3. Cleaned = disk
    BY <1>0 DEF Cleaned, LocksHold, TypeOK, Table
  <2>4. CASE disk[f] = a /\ Gain(a) /\ Return(a)
    <3>1. /\ \A p \in Agent \ {a} : held'[p] = held[p]
          /\ held'[a] = held[a] \cup {f}
      BY <2>4 DEF Gain, LocksHold, TypeOK
    <3> QED BY <1>0, <2>1, <2>4, <3>1, BackHolds
  <2>5. CASE RetryOrFail(a) /\ UNCHANGED held
    BY <1>0, <2>1, <2>5, BackHolds
  <2>6. CASE /\ disk[f] = Nobody /\ WriteBack(a, [disk EXCEPT ![f] = a])
             /\ UNCHANGED held
    <3> DEFINE t == [disk EXCEPT ![f] = a]
    <3>1. t[f] = a /\ \A g \in File \ {f} : t[g] = disk[g]
      BY <2>2 DEF LocksHold, TypeOK, Table
    <3>2. disk[f] \notin Agent
      BY <2>6, NobodyAssumption
    <3> HIDE DEF t
    <3>3. /\ \A g \in File : \A q \in Agent \ {a} : disk[g] = q => t[g] = q
          /\ \A g \in File : t[g] = a => disk[g] = a \/ (op[a].kind = "acquire" /\ g = op[a].arg)
          /\ \A g \in held[a] : t[g] = a
          /\ t[op[a].arg] = a /\ disk[op[a].arg] # a
      BY <1>0, <2>1, <3>1, <3>2 DEF LocksHold, TypeOK
    <3>4. WriteBack(a, t)
      BY <2>6 DEF t
    <3> QED BY <2>1, <2>6, <3>3, <3>4, WriteHolds
  <2> QED BY <1>2, <2>3, <2>4, <2>5, <2>6 DEF AcquireRead
<1>3. ASSUME NEW a \in Agent, Verify(a) PROVE Kept
  <2>1. racing[a] = {} /\ UNCHANGED <<disk, old, racing>>
    BY <1>3 DEF Verify, files
  <2>2. CASE disk[op[a].arg] = a /\ Gain(a) /\ Return(a)
    <3>1. /\ \A p \in Agent \ {a} : held'[p] = held[p]
          /\ held'[a] = held[a] \cup {op[a].arg}
      BY <2>2 DEF Gain, LocksHold, TypeOK
    <3> QED BY <1>0, <2>1, <2>2, <3>1, BackHolds
  <2>3. CASE RetryOrFail(a) /\ UNCHANGED held
    BY <1>0, <2>1, <2>3, BackHolds
  <2> QED BY <1>3, <2>2, <2>3 DEF Verify
<1>4. ASSUME NEW a \in Agent, ReleaseRead(a) PROVE Kept
  <2> DEFINE f == op[a].arg
  <2>1. /\ pc[a] = "read" /\ op[a].kind = "release" /\ racing[a] = {}
        /\ UNCHANGED <<disk, old, racing>>
    BY <1>0, <1>4 DEF ReleaseRead, files
  <2>2. f \in File
    BY <2>1, Ops DEF LocksHold, TypeOK
  <2>3. CASE Lose(a) /\ Return(a)
    <3>1. /\ \A p \in Agent \ {a} : held'[p] = held[p]
          /\ held'[a] = held[a] \ {f}
      BY <2>3 DEF Lose, LocksHold, TypeOK
    <3> QED BY <1>0, <2>1, <2>3, <3>1, BackHolds
  <2>4. CASE disk[f] = a /\ WriteBack(a, [disk EXCEPT ![f] = Nobody]) /\ UNCHANGED held
    <3> DEFINE t == [disk EXCEPT ![f] = Nobody]
    <3>1. t[f] = Nobody /\ \A g \in File \ {f} : t[g] = disk[g]
      BY <2>2 DEF LocksHold, TypeOK, Table
    <3>2. WriteBack(a, t)
      BY <2>4
    <3> HIDE DEF t
    <3>3. /\ \A g \in File : \A q \in Agent \ {a} : disk[g] = q => t[g] = q
          /\ \A g \in File : t[g] = a => disk[g] = a
          /\ \A g \in held[a] : t[g] = a \/ (op[a].kind = "release" /\ g = op[a].arg)
      BY <1>0, <2>1, <2>4, <3>1, NobodyAssumption DEF LocksHold, TypeOK
    <3> QED BY <2>1, <2>4, <3>2, <3>3, WriteHolds
  <2> QED BY <1>4, <2>3, <2>4 DEF ReleaseRead
<1>5. ASSUME NEW a \in Agent, ReleaseAllRead(a) PROVE Kept
  <2>1. /\ pc[a] = "read" /\ op[a].kind = "releaseAll" /\ racing[a] = {}
        /\ UNCHANGED <<disk, old, racing>>
    BY <1>0, <1>5 DEF ReleaseAllRead, files
  <2>2. CASE held' = [held EXCEPT ![a] = {}] /\ Return(a)
    <3>1. (\A p \in Agent \ {a} : held'[p] = held[p]) /\ held'[a] = {}
      BY <2>2 DEF LocksHold, TypeOK
    <3> QED BY <1>0, <2>1, <2>2, <3>1, BackHolds
  <2>3. CASE /\ WriteBack(a, [f \in File |-> IF disk[f] = a THEN Nobody ELSE disk[f]])
             /\ UNCHANGED held
    <3> DEFINE t == [f \in File |-> IF disk[f] = a THEN Nobody ELSE disk[f]]
    <3>1. /\ \A g \in File : \A q \in Agent \ {a} : disk[g] = q => t[g] = q
          /\ \A g \in File : t[g] = a => disk[g] = a
      BY NobodyAssumption
    <3>2. WriteBack(a, t)
      BY <2>3
    <3> HIDE DEF t
    <3> QED BY <2>1, <2>3, <3>1, <3>2, WriteHolds
  <2> QED BY <1>5, <2>2, <2>3 DEF ReleaseAllRead
<1>6. ASSUME NEW a \in Agent, Open(a) PROVE Kept
  BY <1>6, InPlace DEF Open, Writing
<1>7. ASSUME NEW a \in Agent, Fill(a) PROVE Kept
  <2>1. fd[a] = "tmp"
    BY <1>7 DEF Fill, LocksHold, WriterInv
  <2> QED BY <1>7, <2>1, InPlace DEF Fill, Writing
<1>8. ASSUME NEW a \in Agent, Replace(a) PROVE Kept
  BY <1>8, ReplaceHolds
<1>9. ASSUME NEW a \in Agent, ReplaceFails(a) PROVE Kept
  <2>1. /\ racing' = Landed(a, racing) /\ Return(a) /\ pc[a] = "replace"
        /\ UNCHANGED <<disk, old, held>>
    BY <1>9 DEF ReplaceFails, files
  <2>2. \A p, q \in Agent \ {a} : p \in racing[q] => p \in racing'[q]
    BY <2>1 DEF Landed
  <2> QED BY <1>0, <2>1, <2>2, BackHolds
<1>10. ASSUME NEW a \in Agent, Overtime(a) PROVE FALSE
  BY <1>0, <1>10 DEF Overtime, Mishap
<1>11. ASSUME NEW f \in File, Expire(f) PROVE FALSE
  BY <1>0, <1>11 DEF Expire, Mishap
<1>12. CASE UNCHANGED vars
  BY <1>12 DEF vars, files, LocksHold, CopyInv, HeldInv
<1> QED
  BY <1>1, <1>2, <1>3, <1>4, <1>5, <1>6, <1>7, <1>8, <1>9, <1>10, <1>11, <1>12
     DEF Next, Call, Step, Write

\* The inductive invariant
LEMMA LocksInvariant == Spec => []LocksInv
<1>1. Init => LocksInv
  BY LocksInit
<1>2. LocksInv /\ [Next]_vars => LocksInv'
  <2> SUFFICES ASSUME LocksInv, [Next]_vars PROVE LocksInv'
    OBVIOUS
  <2>1. TypeOK' /\ OpInv'
    BY TypesStep, OpStep DEF LocksInv
  <2>2. ASSUME Quiet' PROVE WriterInv' /\ CopyInv' /\ HeldInv'
    <3>1. Quiet
      BY <2>2, QuietStays DEF LocksInv
    <3>2. LocksHold
      BY <3>1 DEF LocksInv, LocksHold
    <3>3. WriterInv'
      BY <2>2, <3>2, WriterStep DEF LocksHold
    <3> QED BY <2>2, <3>2, <3>3, HoldsStep
  <2> QED BY <2>1, <2>2 DEF LocksInv
<1> QED BY <1>1, <1>2, PTL DEF Spec

\* Every variable keeps its type, and only a waiting agent races.
THEOREM TypeCorrect == Spec => []TypeOK
<1>1. LocksInv => TypeOK
  BY DEF LocksInv
<1> QED BY <1>1, LocksInvariant, PTL

\* An agent to which acquire has returned True has its entry in the file
\* (file_locking.py:155-163), whatever the others write meanwhile.
THEOREM Visible == Spec => []HeldIsVisible
<1>1. LocksInv => HeldIsVisible
  BY DEF LocksInv, Quiet, HeldInv, HeldIsVisible
<1> QED BY <1>1, LocksInvariant, PTL

\* No two agents hold a file at once (file_locking.py:103).
THEOREM Exclusion == Spec => []Exclusive
<1>1. LocksInv => Exclusive
  <2> SUFFICES ASSUME LocksInv, Quiet, NEW a \in Agent, NEW b \in Agent, a # b
               PROVE  held[a] \cap held[b] = {}
    BY DEF Exclusive, Quiet
  <2>1. \A p \in Agent : \A f \in held[p] : disk[f] = p
    BY DEF LocksInv, HeldInv
  <2> QED BY <2>1
<1> QED BY <1>1, LocksInvariant, PTL
==============================================================================
