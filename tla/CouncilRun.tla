----------------------------- MODULE CouncilRun -----------------------------
(***************************************************************************)
(* One Perplexity run per session: council_browser.py's run and _run_impl  *)
(* with the three layers of locks it goes through, the research-queue slot *)
(* (here what RunSlot promises), the named slot files of SessionSemaphore  *)
(* and the submit lock of submission_lock.py, and the Chrome it uses: the  *)
(* session keeper's, attached to over CDP and shared by all sessions, or   *)
(* one of its own with a temporary profile.                                *)
(*                                                                         *)
(* A session is one process and runs once.  A step is what happens between *)
(* two points where another process can interfere: one system call on a    *)
(* shared file, or one await.                                              *)
(***************************************************************************)
EXTENDS Integers, FiniteSets, FiniteSetsExt

CONSTANTS
    Session,      \* the processes that call run
    None,         \* no session, no slot
    MaxSessions,  \* MAX_CONCURRENT_SESSIONS, the number of named slots
    Settings,     \* the environments to look at, see Setting
    MaxFault      \* bound: crashes, files that pass their age limit, and
                  \* losses of the keeper's Chrome, together

ASSUME NoneAssumption == None \notin Session \cup Int
ASSUME SlotAssumption == MaxSessions \in Nat \ {0}
ASSUME BoundAssumption == MaxFault \in Nat

\* queued: the sessions with RESEARCH_QUEUE_ENABLED; stopgap: is
\* RESEARCH_QUEUE_STOPGAP set; posix: can an open file be unlinked
Setting == [queued : SUBSET Session, stopgap : BOOLEAN, posix : BOOLEAN]

ASSUME SettingAssumption == Settings \subseteq Setting

Slots == 0 .. MaxSessions - 1

VARIABLES
    env,      \* the Setting, chosen once
    phase,    \* RunSlot's: out, waiting or active, per session
    pc,       \* where each session is
    slot,     \* slot-k.lock: the session that created it, or None
    blank,    \* slots whose file is created and not yet written
    old,      \* slots whose time stamp is older than SEMAPHORE_TTL
    doomed,   \* what a session's _cleanup_stale has decided to unlink
    mine,     \* _session_file: the slot a session believes it has, or None
    path,     \* the submit lock's path names the path-th file of that name
    holds,    \* per session: the file whose OS lock it holds, or 0
    stale,    \* that path's mtime is older than STALE_AGE_S
    keeper,   \* the session keeper's Chrome is there
    browser,  \* the Chrome a session uses: none, own or keeper
    cdp,      \* _cdp_attached
    pages,    \* sessions (dead ones too) with a /search/ page in keeper's
    dirs,     \* sessions whose current temporary profile directory exists
    oldDirs,  \* those of them older than ten minutes
    faults    \* how much of the bound is used

shared == <<slot, blank, old, dirs, oldDirs>>
chrome == <<keeper, browser, cdp, pages>>
lock == <<path, holds, stale>>
vars == <<env, phase, pc, shared, doomed, mine, lock, chrome, faults>>

Queue == INSTANCE RunSlot

\* In _run_impl, past the semaphore; before it; after it
Inside == {"lock", "start", "headless", "fresh", "validate", "again", "submit", "collect",
           "finally"}
Before == {"sweep", "scan", "reap", "take", "write", "reclaim", "unlink"}
Location == {"out", "queue", "leave", "stop", "done", "dead"} \cup Before \cup Inside

Init ==
    /\ env \in Settings
    /\ Queue!Init
    /\ pc = [s \in Session |-> "out"]
    /\ slot = [k \in Slots |-> None]
    /\ blank = {} /\ old = {}
    /\ doomed = [s \in Session |-> {}]
    /\ mine = [s \in Session |-> None]
    /\ path = 1
    /\ holds = [s \in Session |-> 0]
    /\ stale = FALSE
    /\ keeper \in BOOLEAN
    /\ browser = [s \in Session |-> "none"]
    /\ cdp = [s \in Session |-> FALSE]
    /\ pages = {} /\ dirs = {} /\ oldDirs = {}
    /\ faults = 0

------------------------------------------------------------------------------

At(s, l) == pc[s] = l
Goto(s, l) == pc' = [pc EXCEPT ![s] = l]
Alive(s) == pc[s] # "dead"
Queued(s) == s \in env.queued
Fault == faults < MaxFault /\ faults' = faults + 1
Steady == UNCHANGED <<env, faults>>

\* Unlink the slot files ks.  A file its creator still has open stays on
\* Windows; the error is ignored.
Unlink(ks) ==
    LET open == {k \in blank : At(slot[k], "write")}
        gone == {k \in ks : slot[k] # None /\ (env.posix \/ k \notin open)} IN
    /\ slot' = [k \in Slots |-> IF k \in gone THEN None ELSE slot[k]]
    /\ blank' = blank \ gone
    /\ old' = old \ gone

\* SessionSemaphore.release: unlinks what is now at the path, whoever made it,
\* and forgets the path only if there was a file
FreeSlot(s) ==
    LET here == {k \in {mine[s]} \ {None} : slot[k] # None} IN
    /\ Unlink(here)
    /\ mine' = IF here = {} THEN mine ELSE [mine EXCEPT ![s] = None]

------------------------------------------------------------------------------
(* run: the research-queue slot is the outermost layer *)

Call(s) ==
    /\ At(s, "out")
    /\ \/ Queued(s) /\ Queue!Enqueue(s) /\ Goto(s, "queue")
       \/ ~Queued(s) /\ Goto(s, "sweep") /\ UNCHANGED phase
    /\ Steady /\ UNCHANGED <<shared, doomed, mine, lock, chrome>>

Promoted(s) ==
    /\ At(s, "queue") /\ Queue!Promote(s) /\ Goto(s, "sweep")
    /\ Steady /\ UNCHANGED <<shared, doomed, mine, lock, chrome>>

\* acquire_slot raises, run does too
QueueTimeout(s) ==
    /\ At(s, "queue") /\ Queue!GiveUp(s) /\ Goto(s, "stop")
    /\ Steady /\ UNCHANGED <<shared, doomed, mine, lock, chrome>>

\* run's finally: the slot is given back after _run_impl's own finally
Leave(s) ==
    /\ At(s, "leave") /\ Goto(s, "stop")
    /\ IF Queued(s) THEN Queue!Finish(s) ELSE UNCHANGED phase
    /\ Steady /\ UNCHANGED <<shared, doomed, mine, lock, chrome>>

------------------------------------------------------------------------------
(* SessionSemaphore.acquire *)

\* _cleanup_orphaned_temp_dirs
Sweep(s) ==
    /\ At(s, "sweep") /\ Goto(s, "scan")
    /\ dirs' = dirs \ oldDirs /\ oldDirs' = {}
    /\ Steady /\ UNCHANGED <<phase, slot, blank, old, doomed, mine, lock, chrome>>

\* What _cleanup_stale removes: unreadable, of a dead process, or too old
Judged == {k \in Slots : slot[k] # None /\ (k \in blank \/ ~Alive(slot[k]) \/ k \in old)}

Scan(s) ==
    /\ At(s, "scan") /\ Goto(s, "reap")
    /\ doomed' = [doomed EXCEPT ![s] = Judged]
    /\ Steady /\ UNCHANGED <<phase, shared, mine, lock, chrome>>

\* ... by name: a file that has taken the judged one's place goes too
Reap(s) ==
    /\ At(s, "reap") /\ Goto(s, "take")
    /\ Unlink(doomed[s])
    /\ doomed' = [doomed EXCEPT ![s] = {}]
    /\ Steady /\ UNCHANGED <<phase, mine, lock, chrome, dirs, oldDirs>>

\* os.open with O_CREAT | O_EXCL on the slots in turn
Take(s) ==
    LET free == {k \in Slots : slot[k] = None} IN
    /\ At(s, "take") /\ free # {}
    /\ Goto(s, "write")
    /\ mine' = [mine EXCEPT ![s] = Min(free)]
    /\ slot' = [slot EXCEPT ![Min(free)] = s]
    /\ blank' = blank \cup {Min(free)}
    /\ Steady /\ UNCHANGED <<phase, old, doomed, lock, chrome, dirs, oldDirs>>

\* All slots in use: again in a second ...
Busy(s) ==
    /\ At(s, "take") /\ \A k \in Slots : slot[k] # None
    /\ Goto(s, "scan")
    /\ Steady /\ UNCHANGED <<phase, shared, doomed, mine, lock, chrome>>

\* ... or, after SEMAPHORE_WAIT_TIMEOUT, BROWSER_BUSY
TooBusy(s) ==
    /\ At(s, "take") /\ \A k \in Slots : slot[k] # None
    /\ Goto(s, "leave")
    /\ Steady /\ UNCHANGED <<phase, shared, doomed, mine, lock, chrome>>

\* os.write through the open handle, whether or not the name still leads to it
Write(s) ==
    /\ At(s, "write") /\ Goto(s, "reclaim")
    /\ blank' = IF slot[mine[s]] = s THEN blank \ {mine[s]} ELSE blank
    /\ Steady /\ UNCHANGED <<phase, slot, old, doomed, mine, lock, chrome, dirs, oldDirs>>

------------------------------------------------------------------------------
(* The submit lock *)

Holders == {s \in Session : holds[s] = path}

\* get_submit_lock: has the lock file not been touched for 180 s?
Reclaim(s) ==
    /\ At(s, "reclaim")
    /\ Goto(s, IF stale THEN "unlink" ELSE "lock")
    /\ Steady /\ UNCHANGED <<phase, shared, doomed, mine, lock, chrome>>

\* ... then unlink what is at the path now, which may be another's by this time.
\* A file that is open stays on Windows; the error is ignored.
UnlinkLock(s) ==
    /\ At(s, "unlink") /\ Goto(s, "lock")
    /\ IF env.posix \/ Holders = {}
          THEN path' = path + 1 /\ stale' = FALSE
          ELSE UNCHANGED <<path, stale>>
    /\ Steady /\ UNCHANGED <<phase, shared, doomed, mine, holds, chrome>>

\* Mutant of Free: whoever comes takes the lock
FreeAlways == TRUE

Free == Holders = {}

Lock(s) ==
    /\ At(s, "lock") /\ Free
    /\ Goto(s, "start")
    /\ holds' = [holds EXCEPT ![s] = path]
    /\ stale' = FALSE
    /\ Steady /\ UNCHANGED <<phase, shared, doomed, mine, path, chrome>>

\* filelock.Timeout: the semaphore is released, _run_impl returns an error
LockTimeout(s) ==
    /\ At(s, "lock") /\ Holders # {}
    /\ Goto(s, "leave")
    /\ FreeSlot(s)
    /\ Steady /\ UNCHANGED <<phase, doomed, lock, chrome, dirs, oldDirs>>

Unlock(s) == holds' = [holds EXCEPT ![s] = 0]

------------------------------------------------------------------------------
(* start *)

\* _start_via_cdp: every /search/ page in the keeper's Chrome is taken for a
\* left-over of an earlier run and closed
Attach(s) ==
    /\ At(s, "start") /\ keeper /\ Goto(s, "fresh")
    /\ browser' = [browser EXCEPT ![s] = "keeper"]
    /\ cdp' = [cdp EXCEPT ![s] = TRUE]
    /\ pages' = {}
    /\ Steady /\ UNCHANGED <<phase, shared, doomed, mine, lock, keeper>>

\* _ensure_fresh_session has waited, whatever came of it; an attached run has
\* no Chrome of its own to count and gives its slot back
Fresh(s) ==
    /\ At(s, "fresh") /\ Goto(s, "validate")
    /\ Unlink({mine[s]} \ {None})
    /\ mine' = [mine EXCEPT ![s] = None]
    /\ Steady /\ UNCHANGED <<phase, doomed, lock, chrome, dirs, oldDirs>>

\* A Chrome of its own, in a new temporary profile
OwnChrome(s) ==
    /\ browser' = [browser EXCEPT ![s] = "own"]
    /\ dirs' = dirs \cup {s}
    /\ oldDirs' = oldDirs \ {s}

\* _start_non_persistent: the keeper cannot be reached.  (The persistent profile
\* is for --save-session, which does not call run.)
Launch(s) ==
    /\ At(s, "start") /\ (Goto(s, "validate") \/ Goto(s, "headless"))
    /\ OwnChrome(s)
    /\ Steady /\ UNCHANGED <<phase, slot, blank, old, doomed, mine, lock, keeper, cdp, pages>>

\* --headless-fallback, Cloudflare seen or the page not loaded: once more, headful;
\* the first profile stays behind
Relaunch(s) ==
    /\ At(s, "headless") /\ Goto(s, "validate")
    /\ OwnChrome(s)
    /\ Steady /\ UNCHANGED <<phase, slot, blank, old, doomed, mine, lock, keeper, cdp, pages>>

------------------------------------------------------------------------------
(* The run itself *)

Usable(s) == browser[s] = "keeper" => keeper

Valid(s) ==
    /\ pc[s] \in {"validate", "again"} /\ Usable(s)
    /\ Goto(s, "submit")
    /\ Steady /\ UNCHANGED <<phase, shared, doomed, mine, lock, chrome>>

\* _cleanup_browser closes the context and the browser it has a reference to.
\* Of an attached run they are the keeper's.
CleanupBrowser(s) ==
    /\ keeper' = (keeper /\ browser[s] # "keeper")
    /\ pages' = IF browser[s] = "keeper" THEN {} ELSE pages

\* Not logged in: once more with _start_with_temp_profile
Fallback(s) ==
    /\ At(s, "validate") /\ Usable(s)
    /\ Goto(s, "again")
    /\ CleanupBrowser(s)
    /\ OwnChrome(s)
    /\ Steady /\ UNCHANGED <<phase, slot, blank, old, doomed, mine, lock, cdp>>

\* Mutant of Submit: the queue slot is given back with the lock
SubmitLeaves(s) ==
    /\ At(s, "submit") /\ Usable(s)
    /\ Goto(s, "collect")
    /\ pages' = IF browser[s] = "keeper" THEN pages \cup {s} ELSE pages
    /\ Unlock(s)
    /\ IF Queued(s) THEN Queue!Finish(s) ELSE UNCHANGED phase
    /\ Steady /\ UNCHANGED <<shared, doomed, mine, path, stale, keeper, browser, cdp>>

\* The query is typed and sent; without the stop-gap the lock is given up here
Submit(s) ==
    /\ At(s, "submit") /\ Usable(s)
    /\ Goto(s, "collect")
    /\ pages' = IF browser[s] = "keeper" THEN pages \cup {s} ELSE pages
    /\ IF env.stopgap THEN UNCHANGED holds ELSE Unlock(s)
    /\ Steady /\ UNCHANGED <<phase, shared, doomed, mine, path, stale, keeper, browser, cdp>>

\* wait_for_completion and extract_results return or raise; page.close()
Collect(s) ==
    /\ At(s, "collect") /\ Goto(s, "finally")
    /\ pages' = pages \ {s}
    /\ Steady /\ UNCHANGED <<phase, shared, doomed, mine, lock, keeper, browser, cdp>>

\* Chrome does not start, the session is not valid, a page operation fails
Fails(s) ==
    /\ pc[s] \in {"start", "headless", "validate", "again", "submit"}
    /\ Goto(s, "finally")
    /\ Steady /\ UNCHANGED <<phase, shared, doomed, mine, lock, chrome>>

\* Mutant of Finally: the lock is not released on the way out of an error
FinallyKeepsLock(s) ==
    /\ At(s, "finally") /\ Goto(s, "leave")
    /\ FreeSlot(s)
    /\ Steady /\ UNCHANGED <<phase, doomed, lock, chrome, dirs, oldDirs>>

\* _run_impl's finally
Finally(s) ==
    /\ At(s, "finally") /\ Goto(s, "leave")
    /\ Unlock(s)
    /\ FreeSlot(s)
    /\ Steady /\ UNCHANGED <<phase, doomed, path, stale, chrome, dirs, oldDirs>>

\* stop, in the caller's finally.  An attached run leaves the keeper's Chrome
\* alone and returns before the temporary profile is removed.
Stop(s) ==
    /\ At(s, "stop") /\ Goto(s, "done")
    /\ browser' = [browser EXCEPT ![s] = "none"]
    /\ cdp' = [cdp EXCEPT ![s] = FALSE]
    /\ IF cdp[s] THEN UNCHANGED <<shared, mine>>
                 ELSE /\ FreeSlot(s)
                      /\ dirs' = dirs \ {s} /\ oldDirs' = oldDirs \ {s}
    /\ Steady /\ UNCHANGED <<phase, doomed, lock, keeper, pages>>

------------------------------------------------------------------------------
(* Crashes, the clock, and the keeper's Chrome *)

\* A killed process loses its OS lock and its queue slot (its pid is dead, its
\* active.lock free), not its files and not its page
Crash(s) ==
    /\ pc[s] \notin {"out", "done", "dead"} /\ Fault
    /\ Goto(s, "dead")
    /\ \/ Queue!GiveUp(s) \/ Queue!Finish(s)
       \/ phase[s] = "out" /\ UNCHANGED phase
    /\ Unlock(s)
    /\ browser' = [browser EXCEPT ![s] = "none"]
    /\ mine' = [mine EXCEPT ![s] = None]
    /\ doomed' = [doomed EXCEPT ![s] = {}]
    /\ UNCHANGED <<env, shared, path, stale, keeper, cdp, pages>>

AgeSlot(k) ==
    /\ slot[k] # None /\ k \notin old /\ k \notin blank /\ Fault
    /\ old' = old \cup {k}
    /\ UNCHANGED <<env, phase, pc, slot, blank, dirs, oldDirs, doomed, mine, lock, chrome>>

\* A waiting session's attempts open the file with O_TRUNC and a holder under
\* the stop-gap touches it once a minute: both keep it young
AgeLock ==
    /\ ~stale /\ Fault
    /\ \A s \in Session : ~At(s, "lock")
    /\ env.stopgap => Holders = {}
    /\ stale' = TRUE
    /\ UNCHANGED <<env, phase, pc, shared, doomed, mine, path, holds, chrome>>

AgeDir(s) ==
    /\ s \in dirs \ oldDirs /\ Fault
    /\ oldDirs' = oldDirs \cup {s}
    /\ UNCHANGED <<env, phase, pc, slot, blank, old, dirs, doomed, mine, lock, chrome>>

KeeperGone ==
    /\ keeper /\ Fault
    /\ keeper' = FALSE /\ pages' = {}
    /\ UNCHANGED <<env, phase, pc, shared, doomed, mine, lock, browser, cdp>>

KeeperBack ==
    /\ ~keeper
    /\ keeper' = TRUE
    /\ UNCHANGED <<env, phase, pc, shared, doomed, mine, lock, browser, cdp, pages, faults>>

------------------------------------------------------------------------------

GiveUp(s) == QueueTimeout(s) \/ TooBusy(s) \/ LockTimeout(s)

Work(s) ==
    \/ Promoted(s) \/ Leave(s)
    \/ Sweep(s) \/ Scan(s) \/ Reap(s) \/ Take(s) \/ Busy(s) \/ Write(s)
    \/ Reclaim(s) \/ UnlinkLock(s) \/ Lock(s) \/ Attach(s) \/ Fresh(s)
    \/ Launch(s) \/ Relaunch(s)
    \/ Valid(s) \/ Fallback(s) \/ Submit(s) \/ Collect(s) \/ Fails(s)
    \/ Finally(s) \/ Stop(s)

Next ==
    \/ \E s \in Session : Call(s) \/ GiveUp(s) \/ Work(s) \/ Crash(s) \/ AgeDir(s)
    \/ \E k \in Slots : AgeSlot(k)
    \/ AgeLock \/ KeeperGone \/ KeeperBack

Spec == Init /\ [][Next]_vars

\* A session in the middle of a run goes on.  Nobody has to call, and no
\* time-out of a wait has to strike.
Fairness == \A s \in Session : WF_vars(Work(s))
FairSpec == Spec /\ Fairness

------------------------------------------------------------------------------

TypeOK ==
    /\ env \in Settings
    /\ phase \in [Session -> {"out", "waiting", "active"}]
    /\ pc \in [Session -> Location]
    /\ slot \in [Slots -> Session \cup {None}]
    /\ blank \subseteq Slots /\ old \subseteq Slots
    /\ doomed \in [Session -> SUBSET Slots]
    /\ mine \in [Session -> Slots \cup {None}]
    /\ path \in Nat /\ holds \in [Session -> Nat]
    /\ stale \in BOOLEAN /\ keeper \in BOOLEAN
    /\ browser \in [Session -> {"none", "own", "keeper"}]
    /\ cdp \in [Session -> BOOLEAN]
    /\ pages \subseteq Session /\ dirs \subseteq Session /\ oldDirs \subseteq dirs
    /\ faults \in 0 .. MaxFault

AllQueued == env.queued = Session

\* With every session in the queue, no session's clean-up takes away what a
\* live run stands on, however old it is: its slot file and the profile of its
\* own Chrome.  (Slot files are judged by age and removed by name, profiles by
\* age alone: only the queue around them keeps that off a running session.)
FilesKept ==
    AllQueued => \A s \in Session : pc[s] \in Inside =>
        /\ mine[s] # None => slot[mine[s]] = s
        /\ browser[s] = "own" => s \in dirs

\* With every session in the queue, the page on which a run waits for its
\* answer goes only when the run closes it or the keeper's Chrome is lost,
\* although every attaching session closes all pages of its kind.
PageKept ==
    [][\A s \in Session : AllQueued /\ At(s, "collect") /\ s \in pages /\ s \notin pages'
           => ~At(s, "collect")' \/ ~keeper']_vars

\* One session at a time starts Chrome and types: on Windows, where a lock file that
\* is held cannot be unlinked, with or without the queue and the stop-gap, and on
\* POSIX with every session in the queue.
SubmitAlone ==
    ~env.posix \/ AllQueued =>
        \A s, t \in Session : holds[s] # 0 /\ holds[t] # 0 => s = t

\* The same under the stop-gap on POSIX, as LockHeartbeat's docstring has it ("the
\* exact overlap the widening was meant to prevent").
\* Does not hold: README, section 4.  (Two sessions find the file of a dead holder
\* old; one unlinks it and takes the lock, the other unlinks what is there then.)
StopgapAlone ==
    env.stopgap => \A s, t \in Session : holds[s] # 0 /\ holds[t] # 0 => s = t

\* stop: "leave the keeper's context + remote Chrome alive".  No step of a
\* council run ends the keeper's Chrome.
\* Does not hold: README, section 4.
KeeperKept == [][keeper /\ ~keeper' => faults' > faults]_vars

\* Every call ends, with an answer or an error, without the time-outs of the
\* three waits having to resolve anything: the queue, the slots and the submit
\* lock are taken in one order and each comes back.  A session that has ended, by
\* whatever way out, has left nothing that the others wait for or trip over: no
\* slot file, no lock, no place in the queue, no page.  (The profile of one that
\* fell back from an attached Chrome does stay.)
NothingLeft(s) ==
    /\ holds[s] = 0 /\ phase[s] = "out" /\ s \notin pages /\ browser[s] = "none"
    /\ \A k \in Slots : slot[k] # s
RunReturns == \A s \in Session :
    pc[s] \in {"queue", "sweep"} ~> At(s, "dead") \/ (At(s, "done") /\ NothingLeft(s))
==============================================================================
