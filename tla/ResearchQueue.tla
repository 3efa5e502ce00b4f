---------------------------- MODULE ResearchQueue ----------------------------
(***************************************************************************)
(* The cross-process FIFO queue of council-automation/research_queue.py.   *)
(*                                                                         *)
(* Sessions (operating-system processes) share a directory that holds a    *)
(* sequence counter, one ticket file per run and active.lock.  A session   *)
(* draws a number, writes its ticket, and polls: only the owner of the     *)
(* lowest ticket tries active.lock, and whoever holds active.lock runs.    *)
(* Every poll first deletes the tickets of dead processes and the tickets  *)
(* whose heartbeat is older than TTL_S.  A daemon thread per run rewrites  *)
(* the ticket to refresh the heartbeat.                                    *)
(*                                                                         *)
(* What is atomic here is what is atomic there: one file read, one         *)
(* os.replace, one unlink, one lock operation.  A directory listing is one *)
(* step.  Wall-clock time is the set "stale" of tickets whose heartbeat_at *)
(* is more than TTL_S ago.                                                 *)
(***************************************************************************)
EXTENDS Integers, FiniteSets

CONSTANTS
    Session,        \* the processes that call acquire_slot
    NoSession,      \* what the lock holds when nobody holds it
    MaxSeq,         \* bound: numbers the counter hands out
    MaxCrash,       \* bound: processes that die
    MaxStall,       \* bound: suspensions and wedges longer than TTL_S
    MaxExpire,      \* bound: waits that exceed MAX_WAIT_S
    MaxError        \* bound: OSErrors on the queue's files

ASSUME SessionAssumption == NoSession \notin Session
ASSUME BoundAssumption ==
    /\ MaxSeq \in Nat /\ MaxCrash \in Nat /\ MaxStall \in Nat
    /\ MaxExpire \in Nat /\ MaxError \in Nat

Seqs == 1 .. MaxSeq
Stamp == {"waiting", "active"}

VARIABLES
    counter,   \* the counter file
    disk,      \* the tickets directory: per number, "absent" or its "state"
    stale,     \* the tickets whose heartbeat_at is older than TTL_S
    pidOf,     \* the pid written in a ticket (and in its file name)
    lock,      \* who holds active.lock
    snapshot,  \* perplexity-queue.json: what the last publisher wrote
    pc,        \* where each session's acquire_slot is
    seq,       \* the number of each session's current run, 0 outside a run
    doomed,    \* what gc_dead_tickets has decided to unlink
    buf,       \* what a read-modify-write of the ticket has read
    text,      \* the snapshot a publisher has computed and not yet written
    ret,       \* where publish_snapshot returns to
    hb,        \* the run's heartbeat thread: "off", "sleep", or what it read
    ghost,     \* heartbeat writes pending after stop() gave up on the join
    orphan,    \* tickets whose heartbeat thread outlives its run
    faults     \* how much of each bound is spent

dir == <<counter, disk, stale, pidOf>>
vars == <<dir, lock, snapshot, pc, seq, doomed, buf, text, ret, hb, ghost,
          orphan, faults>>

------------------------------------------------------------------------------
(* Locations of acquire_slot *)

InPoll     == {"scan", "head", "try", "rescan", "recheck", "wait", "touch",
               "touchWrite"}
InSnap     == {"snapScan", "snapList", "snapWrite"}
InStamp    == {"stamp", "stampWrite"}
InExit     == {"stop", "unlink", "leave"}
Location   == {"idle", "publish", "log", "running", "dead"}
              \cup InPoll \cup InSnap \cup InStamp \cup InExit

Blank == [active |-> {}, queued |-> {}]
SnapshotType == [active : SUBSET Seqs, queued : SUBSET Seqs]
FaultKind == {"crash", "stall", "expire", "error"}

\* p's ticket is written and p has not been promoted
Waiting(p) == pc[p] \in InPoll \/ pc[p] = "log" \/ (pc[p] \in InSnap /\ ret[p] = "scan")
\* p has been promoted and has not yet released the slot
Active(p) == pc[p] \in InStamp \/ pc[p] = "running"
             \/ (pc[p] \in InSnap /\ ret[p] = "running")

Tickets == {s \in Seqs : disk[s] # "absent"}
Alive(p) == pc[p] # "dead"
\* Mutant of Reclaimable: a sibling's pid that may not be queried counts as dead
ReclaimableDenied(s) == TRUE
\* Mutant of Reclaimable: no heartbeat backstop
ReclaimableByPid(s) == ~Alive(pidOf[s])
\* gc_dead_tickets' verdict on one ticket
Reclaimable(s) == ~Alive(pidOf[s]) \/ s \in stale
\* The run that wrote ticket s has not left acquire_slot
Attended(s) == pidOf[s] \in Session /\ seq[pidOf[s]] = s

Init ==
    /\ counter = 0
    /\ disk = [s \in Seqs |-> "absent"]
    /\ stale = {}
    /\ pidOf = [s \in Seqs |-> NoSession]
    /\ lock = NoSession
    /\ snapshot = Blank
    /\ pc = [p \in Session |-> "idle"]
    /\ seq = [p \in Session |-> 0]
    /\ doomed = [p \in Session |-> {}]
    /\ buf = [p \in Session |-> "none"]
    /\ text = [p \in Session |-> Blank]
    /\ ret = [p \in Session |-> "scan"]
    /\ hb = [p \in Session |-> "off"]
    /\ ghost = {}
    /\ orphan = {}
    /\ faults = [f \in FaultKind |-> 0]

Goto(p, l) == pc' = [pc EXCEPT ![p] = l]
\* _atomic_write of ticket s / f.unlink() of the tickets in S
Put(s, st) == disk' = [disk EXCEPT ![s] = st]
Remove(S) == disk' = [s \in Seqs |-> IF s \in S THEN "absent" ELSE disk[s]]
IsHead(p, S) == seq[p] \in S /\ \A s \in S : seq[p] <= s
Spend(f) == faults' = [faults EXCEPT ![f] = @ + 1]

------------------------------------------------------------------------------
(* Enqueue *)

\* atomic_next_seq, under counter.lock
Draw(p) ==
    /\ pc[p] = "idle"
    /\ counter < MaxSeq
    /\ counter' = counter + 1
    /\ seq' = [seq EXCEPT ![p] = counter + 1]
    /\ Goto(p, "publish")
    /\ UNCHANGED <<disk, stale, pidOf, lock, snapshot, doomed, buf, text, ret,
                   hb, ghost, orphan, faults>>

WriteTicket(p) ==
    /\ pc[p] = "publish"
    /\ Put(seq[p], "waiting")
    /\ pidOf' = [pidOf EXCEPT ![seq[p]] = p]
    /\ Goto(p, "log")
    /\ UNCHANGED <<counter, stale, lock, snapshot, seq, doomed, buf, text, ret,
                   hb, ghost, orphan, faults>>

\* log_event("enqueued"), then the heartbeat thread starts
LogEnqueued(p) ==
    /\ pc[p] = "log"
    /\ hb' = [hb EXCEPT ![p] = "sleep"]
    /\ Goto(p, "scan")
    /\ UNCHANGED <<dir, lock, snapshot, seq, doomed, buf, text, ret, ghost,
                   orphan, faults>>

\* An OSError out of write_ticket or of this log_event finds no handler: the
\* call ends there, in the second case with its ticket on disk
EnqueueError(p) ==
    /\ pc[p] \in {"publish", "log"}
    /\ faults.error < MaxError
    /\ Spend("error")
    /\ ret' = [ret EXCEPT ![p] = "leave"]
    /\ Goto(p, "leave")
    /\ UNCHANGED <<dir, lock, snapshot, seq, doomed, buf, text, hb, ghost,
                   orphan>>

------------------------------------------------------------------------------
(* live_tickets: read all tickets and judge them, unlink, list again *)

AfterScan == [scan |-> "head", rescan |-> "recheck", snapScan |-> "snapList"]

Scan(p) ==
    /\ pc[p] \in DOMAIN AfterScan
    /\ doomed' = [doomed EXCEPT ![p] = {s \in Tickets : Reclaimable(s)}]
    /\ Goto(p, AfterScan[pc[p]])
    /\ UNCHANGED <<dir, lock, snapshot, seq, buf, text, ret, hb, ghost, orphan,
                   faults>>

\* A ticket that cannot be read or unlinked for the moment is passed over by gc
GcSkips(p) ==
    /\ pc[p] \in {"head", "recheck", "snapList"}
    /\ faults.error < MaxError
    /\ Spend("error")
    /\ \E s \in doomed[p] : doomed' = [doomed EXCEPT ![p] = @ \ {s}]
    /\ UNCHANGED <<dir, lock, snapshot, pc, seq, buf, text, ret, hb, ghost,
                   orphan>>

Reap(p) ==
    /\ Remove(doomed[p])
    /\ stale' = stale \ doomed[p]
    /\ doomed' = [doomed EXCEPT ![p] = {}]

\* The listing after gc, S, lacks the tickets that cannot be read
Lists(p, S) ==
    \/ S = Tickets \ doomed[p] /\ UNCHANGED faults
    \/ /\ faults.error < MaxError
       /\ Spend("error")
       /\ \E s \in Tickets : S = Tickets \ (doomed[p] \cup {s})

\* The first listing of a poll: is my ticket the lowest?
Head(p) ==
    /\ pc[p] = "head"
    /\ Reap(p)
    /\ \E S \in SUBSET Tickets :
          Lists(p, S) /\ Goto(p, IF IsHead(p, S) THEN "try" ELSE "wait")
    /\ UNCHANGED <<counter, pidOf, lock, snapshot, seq, buf, text, ret, hb,
                   ghost, orphan>>

\* Mutant of TryLock: the Timeout is swallowed as if the lock were held
TryLockIgnored(p) ==
    /\ pc[p] = "try"
    /\ lock' = IF lock = NoSession THEN p ELSE lock
    /\ Goto(p, "rescan")
    /\ UNCHANGED <<dir, snapshot, seq, doomed, buf, text, ret, hb, ghost,
                   orphan, faults>>
\* Mutant of TryLock: the ticket is stamped before the recheck
TryLockStamping(p) ==
    /\ pc[p] = "try"
    /\ \/ lock = NoSession /\ lock' = p /\ Put(seq[p], "active") /\ Goto(p, "rescan")
       \/ lock # NoSession /\ Goto(p, "wait") /\ UNCHANGED <<lock, disk>>
    /\ UNCHANGED <<counter, stale, pidOf, snapshot, seq, doomed, buf, text, ret,
                   hb, ghost, orphan, faults>>
\* lock.acquire(timeout=0); Timeout falls through to the MAX_WAIT_S test
TryLock(p) ==
    /\ pc[p] = "try"
    /\ \/ lock = NoSession /\ lock' = p /\ Goto(p, "rescan")
       \/ lock # NoSession /\ Goto(p, "wait") /\ UNCHANGED lock
    /\ UNCHANGED <<dir, snapshot, seq, doomed, buf, text, ret, hb, ghost,
                   orphan, faults>>

\* Mutant of Recheck: promoted without looking again
RecheckSkipped(p) ==
    /\ pc[p] = "recheck"
    /\ Reap(p)
    /\ Goto(p, "stamp")
    /\ UNCHANGED <<counter, pidOf, lock, snapshot, seq, buf, text, ret, hb,
                   ghost, orphan, faults>>
\* Mutant of Recheck: the way back to the poll forgets lock.release()
RecheckKeepsLock(p) ==
    /\ pc[p] = "recheck"
    /\ Reap(p)
    /\ \E S \in SUBSET Tickets :
          Lists(p, S) /\ Goto(p, IF IsHead(p, S) THEN "stamp" ELSE "scan")
    /\ UNCHANGED <<counter, pidOf, lock, snapshot, seq, buf, text, ret, hb,
                   ghost, orphan>>
\* The listing under the lock: promoted if still the lowest; otherwise
\* release and poll again, without the MAX_WAIT_S test
Recheck(p) ==
    /\ pc[p] = "recheck"
    /\ Reap(p)
    /\ \E S \in SUBSET Tickets :
          /\ Lists(p, S)
          /\ \/ IsHead(p, S) /\ Goto(p, "stamp") /\ UNCHANGED lock
             \/ ~IsHead(p, S) /\ Goto(p, "scan") /\ lock' = NoSession
    /\ UNCHANGED <<counter, pidOf, snapshot, seq, buf, text, ret, hb, ghost,
                   orphan>>

------------------------------------------------------------------------------
(* The rest of a poll: give up, or touch_heartbeat and publish_snapshot *)

Expire(p) ==
    /\ pc[p] = "wait"
    /\ faults.expire < MaxExpire
    /\ Spend("expire")
    /\ ret' = [ret EXCEPT ![p] = "leave"]
    /\ Goto(p, "stop")
    /\ UNCHANGED <<dir, lock, snapshot, seq, doomed, buf, text, hb, ghost,
                   orphan>>

KeepWaiting(p) ==
    /\ pc[p] = "wait"
    /\ Goto(p, "touch")
    /\ UNCHANGED <<dir, lock, snapshot, seq, doomed, buf, text, ret, hb, ghost,
                   orphan, faults>>

\* Mutant of TouchRead: a vanished ticket is not skipped
TouchReadBlind(p) ==
    /\ pc[p] = "touch"
    /\ buf' = [buf EXCEPT ![p] = disk[seq[p]]]
    /\ Goto(p, "touchWrite")
    /\ UNCHANGED <<dir, lock, snapshot, seq, doomed, text, ret, hb, ghost,
                   orphan, faults>>
\* An unreadable (reclaimed) ticket is skipped: it is never written again
TouchRead(p) ==
    /\ pc[p] = "touch"
    /\ \/ /\ disk[seq[p]] = "absent"
          /\ Goto(p, "snapScan")
          /\ ret' = [ret EXCEPT ![p] = "scan"]
          /\ UNCHANGED buf
       \/ /\ disk[seq[p]] # "absent"
          /\ buf' = [buf EXCEPT ![p] = disk[seq[p]]]
          /\ Goto(p, "touchWrite")
          /\ UNCHANGED ret
    /\ UNCHANGED <<dir, lock, snapshot, seq, doomed, text, hb, ghost, orphan,
                   faults>>

TouchWrite(p) ==
    /\ pc[p] = "touchWrite"
    /\ Put(seq[p], buf[p])
    /\ stale' = stale \ {seq[p]}
    /\ buf' = [buf EXCEPT ![p] = "none"]
    /\ ret' = [ret EXCEPT ![p] = "scan"]
    /\ Goto(p, "snapScan")
    /\ UNCHANGED <<counter, pidOf, lock, snapshot, seq, doomed, text, hb,
                   ghost, orphan, faults>>

\* An OSError of touch_heartbeat or of the "active" stamp is caught: the ticket
\* stays as it is
SkipTicket(p) ==
    /\ pc[p] \in {"touch", "touchWrite"} \cup InStamp
    /\ faults.error < MaxError
    /\ Spend("error")
    /\ buf' = [buf EXCEPT ![p] = "none"]
    /\ ret' = [ret EXCEPT ![p] = IF pc[p] \in InStamp THEN "running" ELSE "scan"]
    /\ Goto(p, "snapScan")
    /\ UNCHANGED <<dir, lock, snapshot, seq, doomed, text, hb, ghost, orphan>>

\* publish_snapshot's listing: the last "active" ticket is the active run,
\* the tickets that are not "active" are queued
Listing(S) ==
    LET running == {s \in S : disk[s] = "active"} IN
    [active |-> {s \in running : \A r \in running : r <= s},
     queued |-> S \ running]

SnapList(p) ==
    /\ pc[p] = "snapList"
    /\ Reap(p)
    /\ \E S \in SUBSET Tickets :
          Lists(p, S) /\ text' = [text EXCEPT ![p] = Listing(S)]
    /\ Goto(p, "snapWrite")
    /\ UNCHANGED <<counter, pidOf, lock, snapshot, seq, buf, ret, hb, ghost,
                   orphan>>

\* Under snapshot.lock; a publisher that cannot get it in time skips the write
SnapWrite(p) ==
    /\ pc[p] = "snapWrite"
    /\ \/ snapshot' = text[p]
       \/ /\ \E q \in Session \ {p} : pc[q] = "snapWrite"
          /\ UNCHANGED snapshot
    /\ text' = [text EXCEPT ![p] = Blank]
    /\ Goto(p, ret[p])
    /\ UNCHANGED <<dir, lock, seq, doomed, buf, ret, hb, ghost, orphan, faults>>

\* The exception leaves the generator past its handlers: the heartbeat thread
\* runs on and the ticket stays
Abandon(p) ==
    /\ ret' = [ret EXCEPT ![p] = "leave"]
    /\ orphan' = orphan \cup {seq[p]}
    /\ hb' = [hb EXCEPT ![p] = "off"]
    /\ Goto(p, "leave")

\* publish_snapshot catches the Timeout of its lock and no OSError.  Out of
\* the wait loop the error takes the "except BaseException" path, whose own
\* log_event may fail as well; right after the promotion no handler is
\* installed yet; at the end the error just propagates.
SnapError(p) ==
    /\ pc[p] = "snapWrite"
    /\ faults.error < MaxError
    /\ Spend("error")
    /\ text' = [text EXCEPT ![p] = Blank]
    /\ \/ /\ ret[p] = "scan"
          /\ ret' = [ret EXCEPT ![p] = "leave"]
          /\ Goto(p, "stop")
          /\ UNCHANGED <<hb, orphan>>
       \/ ret[p] \in {"scan", "running"} /\ Abandon(p)
       \/ /\ ret[p] = "leave"
          /\ Goto(p, "leave")
          /\ UNCHANGED <<ret, hb, orphan>>
    /\ UNCHANGED <<dir, lock, snapshot, seq, doomed, buf, ghost>>

\* So does log_event: no OSError of "started" is caught, nor one of "error"
\* when "timeout" could not be written before
LogError(p) ==
    /\ pc[p] = "wait" \/ (pc[p] = "snapScan" /\ ret[p] = "running")
    /\ faults.error < MaxError
    /\ Spend("error")
    /\ Abandon(p)
    /\ UNCHANGED <<dir, lock, snapshot, seq, doomed, buf, text, ghost>>

------------------------------------------------------------------------------
(* The promoted run *)

\* The "active" stamp is a second read-modify-write of the ticket; what it
\* reads and writes back is the heartbeat_at
StampRead(p) ==
    /\ pc[p] = "stamp"
    /\ \/ /\ disk[seq[p]] = "absent"
          /\ ret' = [ret EXCEPT ![p] = "running"]
          /\ Goto(p, "snapScan")
          /\ UNCHANGED buf
       \/ /\ disk[seq[p]] # "absent"
          /\ buf' = [buf EXCEPT ![p] = IF seq[p] \in stale THEN "old" ELSE "new"]
          /\ Goto(p, "stampWrite")
          /\ UNCHANGED ret
    /\ UNCHANGED <<dir, lock, snapshot, seq, doomed, text, hb, ghost, orphan,
                   faults>>

StampWrite(p) ==
    /\ pc[p] = "stampWrite"
    /\ Put(seq[p], "active")
    /\ stale' = IF buf[p] = "old" THEN stale \cup {seq[p]} ELSE stale \ {seq[p]}
    /\ buf' = [buf EXCEPT ![p] = "none"]
    /\ ret' = [ret EXCEPT ![p] = "running"]
    /\ Goto(p, "snapScan")
    /\ UNCHANGED <<counter, pidOf, lock, snapshot, seq, doomed, text, hb,
                   ghost, orphan, faults>>

\* The with-body ends, normally or not: the lock goes first
Release(p) ==
    /\ pc[p] = "running"
    /\ lock' = NoSession
    /\ ret' = [ret EXCEPT ![p] = "leave"]
    /\ Goto(p, "stop")
    /\ UNCHANGED <<dir, snapshot, seq, doomed, buf, text, hb, ghost, orphan,
                   faults>>

------------------------------------------------------------------------------
(* The way out: heartbeat.stop(), unlink, publish_snapshot *)

\* Mutant of StopHeartbeat: the event is set and the thread is not joined
StopWithoutJoin(p) ==
    /\ pc[p] = "stop"
    /\ ghost' = IF hb[p] \in Stamp
                THEN ghost \cup {[seq |-> seq[p], state |-> hb[p], pid |-> p]}
                ELSE ghost
    /\ hb' = [hb EXCEPT ![p] = "off"]
    /\ Goto(p, "unlink")
    /\ UNCHANGED <<dir, lock, snapshot, seq, doomed, buf, text, ret, orphan,
                   faults>>
StopHeartbeat(p) ==
    /\ pc[p] = "stop"
    /\ hb[p] = "sleep"
    /\ hb' = [hb EXCEPT ![p] = "off"]
    /\ Goto(p, "unlink")
    /\ UNCHANGED <<dir, lock, snapshot, seq, doomed, buf, text, ret, ghost,
                   orphan, faults>>

\* join(timeout=5.0) returns although the thread is between read and write
JoinTimeout(p) ==
    /\ pc[p] = "stop"
    /\ hb[p] \in Stamp
    /\ faults.stall < MaxStall
    /\ Spend("stall")
    /\ ghost' = ghost \cup {[seq |-> seq[p], state |-> hb[p], pid |-> p]}
    /\ hb' = [hb EXCEPT ![p] = "off"]
    /\ Goto(p, "unlink")
    /\ UNCHANGED <<dir, lock, snapshot, seq, doomed, buf, text, ret, orphan>>

Unlink(p) ==
    /\ pc[p] = "unlink"
    /\ Remove({seq[p]})
    /\ stale' = stale \ {seq[p]}
    /\ Goto(p, "snapScan")
    /\ UNCHANGED <<counter, pidOf, lock, snapshot, seq, doomed, buf, text, ret,
                   hb, ghost, orphan, faults>>

\* ticket_path.unlink() fails: the ticket stays, without a heartbeat
UnlinkError(p) ==
    /\ pc[p] = "unlink"
    /\ faults.error < MaxError
    /\ Spend("error")
    /\ Goto(p, "snapScan")
    /\ UNCHANGED <<dir, lock, snapshot, seq, doomed, buf, text, ret, hb, ghost,
                   orphan>>

\* The generator's frame is gone.  After an error right behind the promotion
\* its FileLock was never released explicitly: BaseFileLock.__del__ does it.
Leave(p) ==
    /\ pc[p] = "leave"
    /\ seq' = [seq EXCEPT ![p] = 0]
    /\ lock' = IF lock = p THEN NoSession ELSE lock
    /\ Goto(p, "idle")
    /\ UNCHANGED <<dir, snapshot, doomed, buf, text, ret, hb, ghost, orphan,
                   faults>>

------------------------------------------------------------------------------
(* The heartbeat thread *)

HbRead(p) ==
    /\ hb[p] = "sleep"
    /\ pc[p] # "stop"
    /\ disk[seq[p]] # "absent"
    /\ hb' = [hb EXCEPT ![p] = disk[seq[p]]]
    /\ UNCHANGED <<dir, lock, snapshot, pc, seq, doomed, buf, text, ret, ghost,
                   orphan, faults>>

HbWrite(p) ==
    /\ hb[p] \in Stamp
    /\ Put(seq[p], hb[p])
    /\ stale' = stale \ {seq[p]}
    /\ hb' = [hb EXCEPT ![p] = "sleep"]
    /\ UNCHANGED <<counter, pidOf, lock, snapshot, pc, seq, doomed, buf, text,
                   ret, ghost, orphan, faults>>

\* touch_heartbeat swallows an OSError of its write
HbSkip(p) ==
    /\ hb[p] \in Stamp
    /\ faults.error < MaxError
    /\ Spend("error")
    /\ hb' = [hb EXCEPT ![p] = "sleep"]
    /\ UNCHANGED <<dir, lock, snapshot, pc, seq, doomed, buf, text, ret, ghost,
                   orphan>>

GhostWrite(g) ==
    /\ Put(g.seq, g.state)
    /\ stale' = stale \ {g.seq}
    /\ ghost' = ghost \ {g}
    /\ UNCHANGED <<counter, pidOf, lock, snapshot, pc, seq, doomed, buf, text,
                   ret, hb, orphan, faults>>

------------------------------------------------------------------------------
(* The operating system and the clock (external to the queue's code) *)

\* The process dies: threads stop, the OS closes the lock handle, files stay
Crash(p) ==
    /\ Alive(p)
    /\ faults.crash < MaxCrash
    /\ Spend("crash")
    /\ Goto(p, "dead")
    /\ seq' = [seq EXCEPT ![p] = 0]
    /\ lock' = IF lock = p THEN NoSession ELSE lock
    /\ doomed' = [doomed EXCEPT ![p] = {}]
    /\ buf' = [buf EXCEPT ![p] = "none"]
    /\ text' = [text EXCEPT ![p] = Blank]
    /\ ret' = [ret EXCEPT ![p] = "scan"]
    /\ hb' = [hb EXCEPT ![p] = "off"]
    /\ ghost' = {g \in ghost : g.pid # p}
    /\ orphan' = {s \in orphan : pidOf[s] # p}
    /\ UNCHANGED <<dir, snapshot>>

\* A new session gets the dead one's pid: its leftovers look alive
ReusePid(p) ==
    /\ pc[p] = "dead"
    /\ Goto(p, "idle")
    /\ UNCHANGED <<dir, lock, snapshot, seq, doomed, buf, text, ret, hb, ghost,
                   orphan, faults>>

\* Nobody refreshes the ticket for TTL_S
Age(s) ==
    /\ s \in Tickets \ stale
    /\ ~Attended(s) /\ s \notin orphan
    /\ stale' = stale \cup {s}
    /\ UNCHANGED <<counter, disk, pidOf, lock, snapshot, pc, seq, doomed, buf,
                   text, ret, hb, ghost, orphan, faults>>

\* One process hangs for longer than TTL_S (its heartbeat thread too) ...
Wedge(p) ==
    /\ seq[p] \in Tickets \ stale
    /\ faults.stall < MaxStall
    /\ Spend("stall")
    /\ stale' = stale \cup {seq[p]}
    /\ UNCHANGED <<counter, disk, pidOf, lock, snapshot, pc, seq, doomed, buf,
                   text, ret, hb, ghost, orphan>>

\* ... or the host sleeps, and every heartbeat is old when it wakes
Suspend ==
    /\ Tickets # {}
    /\ faults.stall < MaxStall
    /\ Spend("stall")
    /\ stale' = Tickets
    /\ UNCHANGED <<counter, disk, pidOf, lock, snapshot, pc, seq, doomed, buf,
                   text, ret, hb, ghost, orphan>>

------------------------------------------------------------------------------

\* What the session's thread does by itself once it has drawn a number
Step(p) ==
    \/ WriteTicket(p) \/ LogEnqueued(p)
    \/ Scan(p) \/ Head(p) \/ TryLock(p) \/ Recheck(p)
    \/ KeepWaiting(p) \/ TouchRead(p) \/ TouchWrite(p)
    \/ SnapList(p) \/ SnapWrite(p)
    \/ StampRead(p) \/ StampWrite(p) \/ Release(p)
    \/ StopHeartbeat(p) \/ Unlink(p) \/ Leave(p)

Heartbeat(p) == HbRead(p) \/ HbWrite(p)

FileError(p) ==
    \/ EnqueueError(p) \/ GcSkips(p) \/ SkipTicket(p) \/ SnapError(p)
    \/ LogError(p) \/ UnlinkError(p) \/ HbSkip(p)

Fault(p) == FileError(p) \/ JoinTimeout(p) \/ Crash(p) \/ ReusePid(p) \/ Wedge(p)

Next ==
    \/ \E p \in Session : Draw(p) \/ Step(p) \/ Expire(p) \/ Heartbeat(p) \/ Fault(p)
    \/ \E g \in ghost : GhostWrite(g)
    \/ \E s \in Seqs : Age(s)
    \/ Suspend

Spec == Init /\ [][Next]_vars

\* Threads are scheduled and time passes.  The with-body ends because every
\* wait in CouncilBrowser._run_impl has a timeout.  Nothing makes a session
\* enqueue, and no fault is owed.
Fairness ==
    /\ \A p \in Session : WF_vars(Step(p)) /\ WF_vars(HbWrite(p))
    /\ \A s \in Seqs : WF_vars(Age(s))

FairSpec == Spec /\ Fairness

------------------------------------------------------------------------------
(* Properties *)

\* No process has been suspended or wedged and no file operation has failed
Undisturbed == faults["stall"] = 0 /\ faults["error"] = 0

\* Every variable has the type the code gives it; a run that is past
\* write_ticket has a number the counter handed out.
TypeOK ==
    /\ counter \in 0 .. MaxSeq
    /\ disk \in [Seqs -> {"absent"} \cup Stamp]
    /\ stale \subseteq Seqs
    /\ pidOf \in [Seqs -> Session \cup {NoSession}]
    /\ lock \in Session \cup {NoSession}
    /\ snapshot \in SnapshotType
    /\ pc \in [Session -> Location]
    /\ seq \in [Session -> 0 .. MaxSeq]
    /\ doomed \in [Session -> SUBSET Seqs]
    /\ buf \in [Session -> {"none", "old", "new"} \cup Stamp]
    /\ text \in [Session -> SnapshotType]
    /\ ret \in [Session -> {"scan", "running", "leave"}]
    /\ hb \in [Session -> {"off", "sleep"} \cup Stamp]
    /\ ghost \subseteq [seq : Seqs, state : Stamp, pid : Session]
    /\ orphan \subseteq Seqs
    /\ faults \in [FaultKind -> Nat]

\* The slot is exclusive: no two sessions are ever between promotion and
\* release, whatever crashes, stalls, timeouts and errors there are ("whoever
\* holds active.lock is the single active run").
MutualExclusion == \A p, q \in Session : Active(p) /\ Active(q) => p = q

\* FIFO as far as tickets can decide it: when a session is promoted, no other
\* session that is already waiting with its ticket written has a lower number.
\* (A number drawn and not yet written does not count; a ticket that has been
\* collected during a stall, or cannot be read, is not seen.)
OldestWaiterPromoted ==
    [][\A p \in Session :
          pc[p] = "recheck" /\ pc'[p] = "stamp" /\ Undisturbed' =>
             \A q \in Session \ {p} : Waiting(q) => seq[p] < seq[q]]_vars

\* As long as nothing has stalled, garbage collection by one session never
\* takes the ticket of another one that is waiting or running, in any
\* interleaving of its read, its verdict and its unlink with the refreshes.
TicketKept ==
    faults["stall"] = 0 =>
        \A p \in Session : Waiting(p) \/ Active(p) => seq[p] \in Tickets

\* As long as nothing stalls or dies, a ticket on disk belongs to a run in
\* progress: leaving the slot, served or timed out, takes the ticket along and
\* the heartbeat thread does not write it back.  Only an OSError leaves one
\* behind (of an unlink, or of a log_event or publish_snapshot that no handler
\* covers), and never more than one per error.
NoLeftoverTicket ==
    faults["crash"] = 0 /\ faults["stall"] = 0 =>
        Cardinality({s \in Tickets : ~Attended(s)}) <= faults["error"]

\* A snapshot never shows a run as active that is still waiting for the slot,
\* whatever heartbeats are written back and whatever faults there are.
SnapshotNotAhead ==
    \A p \in Session : Waiting(p) => seq[p] \notin snapshot.active

\* Everybody who waits is served, as long as processes may die but no live one
\* stalls: a dead holder's lock and a dead waiter's ticket never block the
\* others for good.  (After a stall a waiter's ticket may be gone: it waits
\* until MAX_WAIT_S.)
Served ==
    \A p \in Session :
        Waiting(p) ~> (pc[p] = "running" \/ ~Alive(p) \/ ~Undisturbed)

\* As long as no live process stalls, active.lock comes back, whoever dies and
\* whichever file operation fails, the publication behind the promotion
\* included: nobody keeps it for ever.
LockComesBack == (lock # NoSession) ~> (lock = NoSession)

\* What a dead process, or a run that could not unlink its ticket, has left goes
\* away while anybody polls, and it does so even when a new process has taken
\* the pid: the TTL is the backstop.  It is none against a heartbeat thread
\* that outlives its run: that ticket stays while the process lives.
LeftoverReclaimed ==
    \A s \in Seqs : (s \in Tickets /\ ~Attended(s)) ~>
        (s \notin Tickets \/ s \in orphan \/ \A p \in Session : ~Waiting(p))

\* The queue implements the slot of RunSlot: every step of every session is a
\* step of the abstract slot or invisible to it.
Phase(p) == IF Active(p) THEN "active" ELSE IF Waiting(p) THEN "waiting" ELSE "out"
phaseBar == [p \in Session |-> Phase(p)]
Slot == INSTANCE RunSlot WITH phase <- phaseBar
ImplementsSlot == Slot!Spec

\* publish_snapshot is "best-effort only" and "must never block the caller's
\* actual queue progress" (lines 528-530): a session that has been promoted gets
\* to run, unless its process dies.
\* Does not hold: README, section 4.
PromotedRuns == \A p \in Session : Active(p) ~> (pc[p] = "running" \/ ~Alive(p))

=============================================================================
