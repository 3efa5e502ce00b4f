------------------------------ MODULE FileLocks ------------------------------
(***************************************************************************)
(* LockRegistry of automated-loop/file_locking.py: agents lock project     *)
(* files in one shared global_locks.json, without any lock on that file.   *)
(* Every operation reads the whole file, changes its copy and writes the   *)
(* whole copy back through one shared temporary file; acquire then waits   *)
(* for the sync delay and reads again to see whether its entry survived.   *)
(*                                                                         *)
(* A step is one read of the file, one open (which truncates), one write   *)
(* through the open handle, or one rename, with POSIX semantics: a rename  *)
(* takes the open handles along.  A torn or truncated file reads as no     *)
(* locks at all, so it is modelled by the empty table.                     *)
(***************************************************************************)
EXTENDS Integers, FiniteSets

CONSTANTS
    Agent,        \* the agents
    File,         \* the files that are locked
    Nobody,       \* no owner, no argument
    Retries,      \* config.lock_retry_attempts
    MaxMishap     \* bound: opens of the temporary file while another has it,
                  \* read-to-write spans that outlast a sync delay, and entries
                  \* that outlive lock_ttl_seconds, together

ASSUME NobodyAssumption == Nobody \notin Agent \cup File
ASSUME RetriesAssumption == Retries \in Nat \ {0}
ASSUME BoundAssumption == MaxMishap \in Nat

Table == [File -> Agent \cup {Nobody}]
Empty == [f \in File |-> Nobody]
Absent == [f \in {} |-> Nobody]

VARIABLES
    disk,     \* global_locks.json
    tmp,      \* global_locks.tmp: a table, or Absent
    old,      \* the entries <<file, owner>> past their TTL
    pc,       \* where each process is in its operation
    op,       \* the operation and the file it is for, if any
    attempt,  \* acquire's attempt number
    copy,     \* each process's copy of the table
    fd,       \* what its open handle writes to: a name in Handle
    held,     \* per agent: files for which acquire returned True, not released
    racing,   \* per waiting agent: processes that read before its write
    restored, \* history, while there is no mishap: a write of an older copy has
              \* brought an entry back
    mishaps   \* how much of the bound is used

files == <<disk, tmp, old>>
vars == <<files, pc, op, attempt, copy, fd, held, racing, restored, mishaps>>

NoOp == [kind |-> "none", arg |-> Nobody]
Op == {NoOp} \cup [kind : {"acquire", "release"}, arg : File]
             \cup [kind : {"releaseAll"}, arg : {Nobody}]
Handle == {"none", "tmp", "disk", "gone"}
Writing == {"open", "fill", "replace"}
Location == {"idle", "read", "verify"} \cup Writing

Init ==
    /\ disk = Empty
    /\ tmp = Absent
    /\ old = {}
    /\ pc = [p \in Agent |-> "idle"]
    /\ op = [p \in Agent |-> NoOp]
    /\ attempt = [p \in Agent |-> 0]
    /\ copy = [p \in Agent |-> Empty]
    /\ fd = [p \in Agent |-> "none"]
    /\ held = [a \in Agent |-> {}]
    /\ racing = [a \in Agent |-> {}]
    /\ restored = FALSE /\ mishaps = 0

------------------------------------------------------------------------------

Mishap == mishaps < MaxMishap /\ mishaps' = mishaps + 1
Goto(p, l) == pc' = [pc EXCEPT ![p] = l]
Start(p, kind, arg) ==
    /\ pc[p] = "idle"
    /\ Goto(p, "read")
    /\ op' = [op EXCEPT ![p] = [kind |-> kind, arg |-> arg]]
    /\ attempt' = [attempt EXCEPT ![p] = 1]
    /\ UNCHANGED <<files, copy, fd, held, racing, restored, mishaps>>

\* p's operation returns or raises
Return(p) ==
    /\ Goto(p, "idle")
    /\ op' = [op EXCEPT ![p] = NoOp]
    /\ attempt' = [attempt EXCEPT ![p] = 0]
    /\ copy' = [copy EXCEPT ![p] = Empty]

\* p goes on to write t back
WriteBack(p, t) ==
    /\ copy' = [copy EXCEPT ![p] = t]
    /\ Goto(p, "open")
    /\ UNCHANGED <<op, attempt>>

\* Mutant: a clobbered entry is written again without counting the attempt
RetryOrFailUncounted(a) ==
    /\ copy' = [copy EXCEPT ![a] = Empty]
    /\ Goto(a, "read")
    /\ UNCHANGED <<op, attempt>>

\* The end of an attempt: once more after the retry delay, or False
RetryOrFail(a) ==
    \/ /\ attempt[a] < Retries
       /\ attempt' = [attempt EXCEPT ![a] = @ + 1]
       /\ copy' = [copy EXCEPT ![a] = Empty]
       /\ Goto(a, "read")
       /\ UNCHANGED op
    \/ attempt[a] >= Retries /\ Return(a)

Gain(a) == held' = [held EXCEPT ![a] = @ \cup {op[a].arg}]
Lose(a) == held' = [held EXCEPT ![a] = @ \ {op[a].arg}]

\* _clean_expired_locks
Cleaned == [f \in File |-> IF <<f, disk[f]>> \in old THEN Nobody ELSE disk[f]]

------------------------------------------------------------------------------
(* acquire *)

Acquire(a, f) == Start(a, "acquire", f)

AcquireRead(a) ==
    LET f == op[a].arg IN
    /\ pc[a] = "read" /\ op[a].kind = "acquire"
    /\ \/ Cleaned[f] = a /\ Gain(a) /\ Return(a)
       \/ Cleaned[f] \notin {a, Nobody} /\ RetryOrFail(a) /\ UNCHANGED held
       \/ /\ Cleaned[f] = Nobody
          /\ WriteBack(a, [Cleaned EXCEPT ![f] = a])
          /\ UNCHANGED held
    /\ UNCHANGED <<files, fd, racing, restored, mishaps>>

\* Mutant: no verification after the wait
VerifySkipped(a) ==
    /\ pc[a] = "verify" /\ racing[a] = {}
    /\ Gain(a) /\ Return(a)
    /\ UNCHANGED <<files, fd, racing, restored, mishaps>>

\* Mutant: the verification does not wait for the sync delay
VerifyAtOnce(a) ==
    /\ pc[a] = "verify"
    /\ \/ disk[op[a].arg] = a /\ Gain(a) /\ Return(a)
       \/ disk[op[a].arg] # a /\ RetryOrFail(a) /\ UNCHANGED held
    /\ racing' = [racing EXCEPT ![a] = {}]
    /\ UNCHANGED <<files, fd, restored, mishaps>>

\* After the sync delay.  Whoever read before a's write has written by then,
\* unless it took longer than the delay (Overtime).  Expiry is not looked at.
Verify(a) ==
    /\ pc[a] = "verify"
    /\ racing[a] = {}
    /\ \/ disk[op[a].arg] = a /\ Gain(a) /\ Return(a)
       \/ disk[op[a].arg] # a /\ RetryOrFail(a) /\ UNCHANGED held
    /\ UNCHANGED <<files, fd, racing, restored, mishaps>>

Overtime(a) ==
    /\ pc[a] = "verify"
    /\ racing[a] # {}
    /\ Mishap
    /\ racing' = [racing EXCEPT ![a] = {}]
    /\ UNCHANGED <<files, pc, op, attempt, copy, fd, held, restored>>

------------------------------------------------------------------------------
(* release, release_all: no cleaning, no wait, no verification *)

Release(a, f) == f \in held[a] /\ Start(a, "release", f)

\* release_all for the agent itself; for a dead agent the orchestrator calls it
ReleaseAll(a) == Start(a, "releaseAll", Nobody)

ReleaseAllRead(a) ==
    /\ pc[a] = "read" /\ op[a].kind = "releaseAll"
    /\ \/ /\ \E f \in File : disk[f] = a
          /\ WriteBack(a, [f \in File |-> IF disk[f] = a THEN Nobody ELSE disk[f]])
          /\ UNCHANGED held
       \/ /\ \A f \in File : disk[f] # a
          /\ held' = [held EXCEPT ![a] = {}] /\ Return(a)
    /\ UNCHANGED <<files, fd, racing, restored, mishaps>>

ReleaseRead(a) ==
    LET f == op[a].arg IN
    /\ pc[a] = "read" /\ op[a].kind = "release"
    /\ \/ disk[f] = a /\ WriteBack(a, [disk EXCEPT ![f] = Nobody]) /\ UNCHANGED held
       \/ disk[f] # a /\ Lose(a) /\ Return(a)
    /\ UNCHANGED <<files, fd, racing, restored, mishaps>>

------------------------------------------------------------------------------
(* _write_locks: tmp_path.write_text, then tmp_path.replace *)

\* Who else is between opening the temporary file and renaming it
OthersIn(p) == {q \in Agent \ {p} : pc[q] \in {"fill", "replace"}}

Open(p) ==
    /\ pc[p] = "open"
    /\ \/ OthersIn(p) = {} /\ UNCHANGED mishaps
       \/ /\ OthersIn(p) # {} /\ Mishap
    /\ tmp' = Empty
    /\ fd' = [fd EXCEPT ![p] = "tmp"]
    /\ Goto(p, "fill")
    /\ UNCHANGED <<disk, old, op, attempt, copy, held, racing, restored>>

\* What is in the file after p's text is written at its start: over another
\* writer's longer text it leaves a tail that does not parse
Written(p, content) == {copy[p]} \cup (IF content = Empty THEN {} ELSE {Empty})

Fill(p) ==
    /\ pc[p] = "fill"
    /\ \/ fd[p] = "tmp" /\ tmp' \in Written(p, tmp) /\ UNCHANGED disk
       \/ fd[p] = "disk" /\ disk' \in Written(p, disk) /\ UNCHANGED tmp
       \/ fd[p] = "gone" /\ UNCHANGED <<disk, tmp>>
    /\ fd' = [fd EXCEPT ![p] = "none"]
    /\ Goto(p, "replace")
    /\ UNCHANGED <<old, op, attempt, copy, held, racing, restored, mishaps>>

\* p's write brings back an entry of another agent
Restores(p) == \E f \in File : disk[f] # tmp[f] /\ tmp[f] \notin {p, Nobody}

\* p is no longer between its read and its write
Landed(p, r) == [a \in Agent |-> r[a] \ {p}]

Replace(p) ==
    /\ pc[p] = "replace"
    /\ tmp # Absent
    /\ disk' = tmp
    /\ tmp' = Absent
    /\ fd' = [q \in Agent |-> IF fd[q] = "tmp" THEN "disk"
                             ELSE IF fd[q] = "none" THEN "none" ELSE "gone"]
    /\ \/ /\ op[p].kind = "acquire"
          /\ old' = old \ {<<op[p].arg, p>>}
          /\ racing' = [Landed(p, racing) EXCEPT ![p] =
                            {q \in Agent \ {p} : pc[q] \in Writing}]
          /\ Goto(p, "verify")
          /\ UNCHANGED <<op, attempt, copy, held>>
       \/ /\ op[p].kind = "release"
          /\ racing' = Landed(p, racing)
          /\ Lose(p) /\ Return(p)
          /\ UNCHANGED old
       \/ /\ op[p].kind = "releaseAll"
          /\ racing' = Landed(p, racing)
          /\ held' = [held EXCEPT ![p] = {}] /\ Return(p)
          /\ UNCHANGED old
    /\ restored' = (mishaps = 0 /\ (restored \/ Restores(p))) /\ UNCHANGED mishaps

\* Another writer has renamed the file away: FileNotFoundError to the caller
ReplaceFails(p) ==
    /\ pc[p] = "replace"
    /\ tmp = Absent
    /\ racing' = Landed(p, racing)
    /\ Return(p)
    /\ UNCHANGED <<files, fd, held, restored, mishaps>>

------------------------------------------------------------------------------

\* An entry reaches its TTL; nothing ever renews one
Expire(f) ==
    /\ disk[f] # Nobody /\ <<f, disk[f]>> \notin old
    /\ Mishap
    /\ old' = old \cup {<<f, disk[f]>>}
    /\ UNCHANGED <<disk, tmp, pc, op, attempt, copy, fd, held, racing, restored>>

Call(a) == \E f \in File : Acquire(a, f) \/ Release(a, f) \/ ReleaseAll(a)
Write(p) == Open(p) \/ Fill(p) \/ Replace(p) \/ ReplaceFails(p)
Step(a) == AcquireRead(a) \/ Verify(a) \/ ReleaseRead(a) \/ ReleaseAllRead(a)

Next ==
    \/ \E a \in Agent : Call(a) \/ Step(a) \/ Write(a) \/ Overtime(a)
    \/ \E f \in File : Expire(f)

Spec == Init /\ [][Next]_vars

\* A process that is running goes on with the call it is in
FairSpec ==
    /\ Spec
    /\ \A a \in Agent : WF_vars(Step(a) \/ Write(a))

------------------------------------------------------------------------------

\* Every variable has its type, and only a waiting agent races
TypeOK ==
    /\ disk \in Table
    /\ tmp \in Table \cup {Absent}
    /\ old \subseteq File \X Agent
    /\ pc \in [Agent -> Location]
    /\ op \in [Agent -> Op]
    /\ attempt \in [Agent -> 0 .. Retries]
    /\ copy \in [Agent -> Table]
    /\ fd \in [Agent -> Handle]
    /\ held \in [Agent -> SUBSET File]
    /\ racing \in [Agent -> SUBSET Agent] /\ restored \in BOOLEAN
    /\ mishaps \in 0 .. MaxMishap
    /\ \A a \in Agent : a \notin racing[a] /\ (racing[a] # {} => pc[a] = "verify")

\* No two agents have had the temporary file open at once, no call has
\* outlasted another's sync delay, and no entry has expired.
Undisturbed == mishaps = 0

\* There are two agents, or no write of an older copy has brought back an entry:
\* in the eyes of a third agent, what is gone stays gone.
TwoOrNoneRestored ==
    restored => \A a, b, c \in Agent : a = b \/ b = c \/ a = c

\* Two agents never both hold a file: acquire returned True to one, and until
\* that one releases it the other's acquire does not (file_locking.py:103).
Exclusive ==
    Undisturbed /\ TwoOrNoneRestored =>
        \A a, b \in Agent : a # b => held[a] \cap held[b] = {}

\* No agent's write of the whole table drops the entry of a lock another has
\* verified (lines 155-163): what the wait before the verification is for.
HeldIsVisible ==
    Undisturbed /\ TwoOrNoneRestored => \A a \in Agent : \A f \in held[a] : disk[f] = a

\* "Acquire a lock on a file using write-wait-verify protocol", for any number of
\* agents.  Does not hold for three: README, section 4.
ExclusiveForAll ==
    Undisturbed => \A a, b \in Agent : a # b => held[a] \cap held[b] = {}

\* Every acquire, release and release_all comes back, whatever the others do
\* and however often they take the file away again (lines 110-167).
CallReturns == \A a \in Agent : pc[a] # "idle" ~> pc[a] = "idle"
==============================================================================
