---------------------------- MODULE SessionKeeper ----------------------------
(***************************************************************************)
(* How the Perplexity session is kept alive: session_keeper.py, a one-shot *)
(* process the Task Scheduler repeats, which launches or reuses a detached *)
(* Chrome, warms it and writes its cookies to playwright-session.json;     *)
(* its --stop; the council runs of council_browser.py, which attach to     *)
(* that Chrome over CDP or load the file into one of their own, after a    *)
(* guard that asks for a refresh when the file's cookies run out; and      *)
(* refresh_session.py, the refresh they fall back to.                      *)
(*                                                                         *)
(* The processes share files only: the session file, the keeper's pid file *)
(* and the file that publishes the CDP endpoint.  A step is one access to  *)
(* a shared file or to Chrome.  The critical cookies are abstracted to     *)
(* their age.                                                              *)
(***************************************************************************)
EXTENDS Integers

CONSTANTS
    Keeper,       \* the keeper processes that may be started
    Task,         \* the one of them the Task Scheduler starts
    Council,      \* the council runs
    None,         \* no process
    Dead,         \* the pid of a process that has ended
    Taken,        \* ... whose number another process, no keeper, has got since
    MaxAttempts,  \* how often main calls main_loop (1000 in the code)
    MaxMishap     \* bound: kills, timeouts, lost Chromes, lost logins and
                  \* failed ones, --stops, keepers that read the file while
                  \* somebody is writing it, together

ASSUME TaskAssumption == Task \in Keeper
ASSUME PidAssumption == {None, Dead, Taken} \cap Keeper = {}
ASSUME BoundAssumption == MaxAttempts \in Nat \ {0} /\ MaxMishap \in Nat

\* Ages of the critical cookies (__cf_bm, pplx.edge-sid, pplx.session-id): more
\* than SESSION_FRESHNESS_THRESHOLD_S to live, less, less than a minute, dead.
\* Absent: there are none.  Torn: a file that is not JSON.
Fresh == 0
Low == 1
Imminent == 2
Expired == 3
Absent == 4
Torn == 5
Cookies == Fresh .. Absent

VARIABLES
    file,      \* playwright-session.json: Cookies, or Torn
    fills,     \* keepers and councils in whose write another one has ended
    pidFile,   \* session_keeper.pid
    cdp,       \* is session_keeper.cdp there
    chrome,    \* the keeper's Chrome: off, starting or up (answers on CDP)
    live,      \* the cookies in its profile
    login,     \* do the servers take the login that the cookies carry
    kpc,       \* where each keeper is
    held,      \* per keeper: the cookies it has read from file or Chrome
    tries,     \* per keeper: main_loop calls so far
    cpc,       \* where each council is, its refresh_session.py included
    got,       \* per council: the cookies it (or its refresher) has
    bumped,    \* councils waiting for the file's mtime that would see it move
    way,       \* per council: has it launched a Chrome, attached to the
               \* keeper's, or seen that one go (cut)
    concluded, \* per council: what its guard concluded, or none yet
    spc,       \* where --stop is
    target,    \* the pid --stop has read
    mishaps    \* how much of the bound is used

files == <<file, fills, bumped>>
browser == <<chrome, live, login>>
keepers == <<kpc, held, tries>>
councils == <<cpc, got, way, concluded>>
stopper == <<spc, target>>
keeperVars == <<files, pidFile, cdp, browser, keepers, councils, stopper, mishaps>>

\* a keeper's steps while its process is there
Busy == {"check", "pid", "read", "probe", "launch", "await", "again", "connect", "warm",
         "capture", "truncate", "write", "publish", "retry", "leave"}

\* a council's steps; those of the refresh_session.py it runs are the Refresh
Refresh == {"login", "truncate", "write"}
Steps == {"idle", "attach", "summon", "guard", "wait", "refresh", "load", "use"} \cup Refresh

KeeperInit ==
    /\ file \in {Fresh, Expired}
    /\ fills = {}
    /\ pidFile = None
    /\ cdp = FALSE
    /\ chrome = "off"
    /\ live = Absent /\ login = TRUE
    /\ kpc = [k \in Keeper |-> "idle"]
    /\ held = [k \in Keeper |-> Absent]
    /\ tries = [k \in Keeper |-> 0]
    /\ cpc = [c \in Council |-> "idle"]
    /\ got = [c \in Council |-> Absent]
    /\ bumped = {}
    /\ way = [c \in Council |-> "launched"]
    /\ concluded = [c \in Council |-> "none"]
    /\ spc = "idle"
    /\ target = None
    /\ mishaps = 0

------------------------------------------------------------------------------

Valid(c) == c < Expired
Mishap == mishaps < MaxMishap /\ mishaps' = mishaps + 1
Steady == UNCHANGED mishaps
Goto(k, l) == kpc' = [kpc EXCEPT ![k] = l]
CGoto(c, l) == cpc' = [cpc EXCEPT ![c] = l]

\* The filter in front of both writers: a cookie with less than a minute to
\* live is not saved
Kept(c) == IF c >= Imminent THEN Absent ELSE c

Writing == {k \in Keeper : kpc[k] = "write"} \cup {c \in Council : cpc[c] = "write"}

\* write_text, first half: the file is opened and thereby emptied
Truncate(p) ==
    /\ file' = Torn
    /\ bumped' = bumped \cup {c \in Council : cpc[c] = "wait"}
    /\ fills' = fills \ {p}

\* Second half.  Over what another writer has put there since, it leaves the
\* tail of the longer one.
Write(p, c) ==
    /\ file' \in IF p \in fills THEN {c, Torn} ELSE {c}
    /\ bumped' = bumped \cup {d \in Council : cpc[d] = "wait"}
    /\ fills' = (fills \cup Writing) \ {p}

\* add_cookies: the cookies named replace Chrome's; a dead one deletes it
Inject(c) == IF c = Absent THEN live ELSE IF Valid(c) THEN c ELSE Absent

\* The keeper's Chrome goes, or is replaced: who was attached has lost it
Replaced(by) ==
    /\ chrome' = by
    /\ way' = [c \in Council |-> IF way[c] = "attached" THEN "cut" ELSE way[c]]

------------------------------------------------------------------------------
(* session_keeper.py: main *)

Start(k) ==
    /\ kpc[k] = "idle"
    /\ Goto(k, "check")
    /\ Steady /\ UNCHANGED <<files, pidFile, cdp, browser, held, tries, councils, stopper>>

\* Mutant of IsRunning: the pid file is believed
IsRunningByFile == pidFile # None

\* is_running: a pid file that names a dead process is removed; any process that
\* has the number counts as the keeper
IsRunning == pidFile \notin {None, Dead}

Check(k) ==
    /\ kpc[k] = "check"
    /\ pidFile' = IF IsRunning THEN pidFile ELSE None
    /\ Goto(k, IF IsRunning THEN "idle" ELSE "pid")
    /\ Steady /\ UNCHANGED <<files, cdp, browser, held, tries, councils, stopper>>

WritePid(k) ==
    /\ kpc[k] = "pid"
    /\ pidFile' = k
    /\ tries' = [tries EXCEPT ![k] = @ + 1]
    /\ Goto(k, "read")
    /\ Steady /\ UNCHANGED <<files, cdp, browser, held, councils, stopper>>

\* main_loop raised: wait, write the pid again and call it again, or give up
Retry(k) ==
    /\ kpc[k] = "retry"
    /\ pidFile' = k
    /\ \/ tries[k] < MaxAttempts /\ Goto(k, "read") /\ tries' = [tries EXCEPT ![k] = @ + 1]
       \/ tries[k] = MaxAttempts /\ Goto(k, "leave") /\ UNCHANGED tries
    /\ Steady /\ UNCHANGED <<files, cdp, browser, held, councils, stopper>>

\* A process is gone: its pid names nothing any more
Gone(k) ==
    /\ Goto(k, "idle")
    /\ tries' = [tries EXCEPT ![k] = 0]
    /\ held' = [held EXCEPT ![k] = Absent]
    /\ target' = IF target = k THEN Dead ELSE target

\* ... without a finally, it leaves its pid file, and the number to whoever gets it
Vacated(k) == pidFile' \in IF pidFile = k THEN {Dead, Taken} ELSE {pidFile}

\* main's finally: clears the pid file, whosever pid is in it
Leave(k) ==
    /\ kpc[k] = "leave"
    /\ pidFile' = None
    /\ Gone(k)
    /\ Steady /\ UNCHANGED <<files, cdp, browser, councils, spc>>

------------------------------------------------------------------------------
(* session_keeper.py: main_loop.  sys.exit goes to leave, any other *)
(* exception to retry                                               *)

ReadSession(k) ==
    /\ kpc[k] = "read"
    /\ \/ /\ file = Torn /\ Goto(k, "leave") /\ UNCHANGED held
          /\ IF Writing = {} THEN Steady ELSE Mishap
       \/ /\ file # Torn /\ Goto(k, "probe") /\ Steady
          /\ held' = [held EXCEPT ![k] = file]
    /\ UNCHANGED <<files, pidFile, cdp, browser, tries, councils, stopper>>

Probe(k) ==
    /\ kpc[k] = "probe"
    /\ Goto(k, IF chrome = "up" THEN "again" ELSE "launch")
    /\ Steady /\ UNCHANGED <<files, pidFile, cdp, browser, held, tries, councils, stopper>>

\* _wait_for_cdp for a Chrome that was up: it may have gone since
Verify(k) ==
    /\ kpc[k] = "again"
    /\ Goto(k, IF chrome = "up" THEN "connect" ELSE "leave")
    /\ Steady /\ UNCHANGED <<files, pidFile, cdp, browser, held, tries, councils, stopper>>

\* Kill whatever uses the profile, then launch
Launch(k) ==
    /\ kpc[k] = "launch"
    /\ Replaced("starting")
    /\ Goto(k, "await")
    /\ Steady /\ UNCHANGED <<files, pidFile, cdp, live, login, held, tries, cpc, got,
                             concluded, stopper>>

\* _wait_for_cdp for a Chrome just launched; one that never answers is terminated
Await(k) ==
    /\ kpc[k] = "await"
    /\ \/ chrome = "up" /\ Goto(k, "connect") /\ Steady /\ UNCHANGED chrome
       \/ chrome = "off" /\ Goto(k, "leave") /\ Steady /\ UNCHANGED chrome
       \/ chrome = "starting" /\ Goto(k, "leave") /\ chrome' = "off" /\ Mishap
    /\ UNCHANGED <<files, pidFile, cdp, live, login, held, tries, councils, stopper>>

\* connect_over_cdp and add_cookies, with what the file held at the start
Connect(k) ==
    /\ kpc[k] = "connect"
    /\ \/ chrome # "up" /\ Goto(k, "retry") /\ UNCHANGED live
       \/ chrome = "up" /\ Goto(k, "warm") /\ live' = Inject(held[k])
    /\ Steady
    /\ UNCHANGED <<files, pidFile, cdp, chrome, login, held, tries, councils, stopper>>

\* The cookies after a page load that finds the user logged in: the servers
\* issue new ones, or let those stand that are still good
Issued(c) == {Fresh} \cup {d \in {c} : Valid(d)}

\* _navigate_and_warm: a login that is lost fails every time, any other may once
Warm(k) ==
    /\ kpc[k] = "warm"
    /\ \/ chrome # "up" /\ \E l \in {"leave", "retry"} : Goto(k, l) /\ Steady /\ UNCHANGED live
       \/ chrome = "up" /\ login /\ Goto(k, "capture") /\ live' \in Issued(live) /\ Steady
       \/ chrome = "up" /\ ~login /\ Goto(k, "leave") /\ Steady /\ UNCHANGED live
       \/ chrome = "up" /\ login /\ Goto(k, "leave") /\ Mishap /\ UNCHANGED live
    /\ UNCHANGED <<files, pidFile, cdp, chrome, login, held, tries, councils, stopper>>

\* _save_cookies_and_storage, in three steps
Capture(k) ==
    /\ kpc[k] = "capture"
    /\ \/ chrome # "up" /\ Goto(k, "retry") /\ UNCHANGED held
       \/ chrome = "up" /\ Goto(k, "truncate") /\ held' = [held EXCEPT ![k] = Kept(live)]
    /\ Steady /\ UNCHANGED <<files, pidFile, cdp, browser, tries, councils, stopper>>

TruncateFile(k) ==
    /\ kpc[k] = "truncate" /\ Truncate(k) /\ Goto(k, "write")
    /\ Steady /\ UNCHANGED <<pidFile, cdp, browser, held, tries, councils, stopper>>

WriteFile(k) ==
    /\ kpc[k] = "write" /\ Write(k, held[k]) /\ Goto(k, "publish")
    /\ Steady /\ UNCHANGED <<pidFile, cdp, browser, held, tries, councils, stopper>>

\* Publish the endpoint, and leave Chrome and the file behind
Publish(k) ==
    /\ kpc[k] = "publish"
    /\ cdp' = TRUE
    /\ Goto(k, "leave")
    /\ Steady /\ UNCHANGED <<files, pidFile, browser, held, tries, councils, stopper>>

------------------------------------------------------------------------------
(* session_keeper.py --stop: stop_running *)

StopReads ==
    /\ spc = "idle"
    /\ target' = pidFile
    /\ spc' = IF pidFile = None THEN "sweep" ELSE "kill"
    /\ Mishap /\ UNCHANGED <<files, pidFile, cdp, browser, keepers, councils>>

\* taskkill /F: no finally runs.  It hits whatever process has the number.
StopKills ==
    /\ spc = "kill" /\ spc' = "clear"
    /\ IF target \in Keeper
       THEN Gone(target) /\ Vacated(target)
       ELSE /\ pidFile' \in IF pidFile = Taken THEN {Dead, Taken} ELSE {pidFile}
            /\ UNCHANGED <<keepers, target>>
    /\ Steady /\ UNCHANGED <<files, cdp, browser, councils>>

StopClears ==
    /\ spc = "clear" /\ spc' = "sweep"
    /\ pidFile' = None
    /\ Steady /\ UNCHANGED <<files, cdp, browser, keepers, councils, target>>

StopSweeps ==
    /\ spc = "sweep" /\ spc' = "unlink"
    /\ Replaced("off")
    /\ Steady
    /\ UNCHANGED <<files, pidFile, cdp, live, login, keepers, cpc, got, concluded, target>>

StopUnlinks ==
    /\ spc = "unlink" /\ spc' = "idle"
    /\ cdp' = FALSE
    /\ target' = None
    /\ Steady /\ UNCHANGED <<files, pidFile, browser, keepers, councils>>

------------------------------------------------------------------------------
(* council_browser.py: start *)

\* Start-ScheduledTask: refused when the task's process is there
Trigger == kpc' = IF kpc[Task] = "idle" THEN [kpc EXCEPT ![Task] = "check"] ELSE kpc

Begin(c) ==
    /\ cpc[c] = "idle"
    /\ CGoto(c, "attach")
    /\ Steady /\ UNCHANGED <<files, pidFile, cdp, browser, keepers, got, way, concluded, stopper>>

Via(c, w) == CGoto(c, "guard") /\ way' = [way EXCEPT ![c] = w]

\* _start_via_cdp: without an endpoint file, write one if Chrome answers, else
\* summon the keeper; with one, attach if it answers
Attach(c) ==
    /\ cpc[c] = "attach"
    /\ \/ chrome = "up" /\ Via(c, "attached") /\ cdp' = TRUE /\ UNCHANGED kpc
       \/ chrome # "up" /\ cdp /\ Via(c, "launched") /\ UNCHANGED <<kpc, cdp>>
       \/ chrome # "up" /\ ~cdp /\ Trigger /\ CGoto(c, "summon") /\ UNCHANGED <<way, cdp>>
    /\ Steady /\ UNCHANGED <<files, pidFile, browser, held, tries, got, concluded, stopper>>

\* Wait twenty seconds for the endpoint file
Summon(c) ==
    /\ cpc[c] = "summon"
    /\ \/ cdp /\ chrome = "up" /\ Via(c, "attached")
       \/ Via(c, "launched")
    /\ Steady /\ UNCHANGED <<files, pidFile, cdp, browser, keepers, got, concluded, stopper>>

\* _check_session_freshness looks at the critical cookies that are in the file
Healthy(f) == f \in {Fresh, Absent, Torn}

\* The guard lets the run go on, whatever came of the refresh
Proceed(c, outcome) ==
    /\ CGoto(c, "load")
    /\ concluded' = [concluded EXCEPT ![c] = outcome]

\* _ensure_fresh_session; a run whose environment has COUNCIL_AUTO_REFRESH=0
\* goes on with what there is
Guard(c) ==
    /\ cpc[c] = "guard"
    /\ \/ Healthy(file) /\ Proceed(c, "healthy") /\ UNCHANGED kpc
       \/ ~Healthy(file) /\ Proceed(c, "stale") /\ UNCHANGED kpc
       \/ /\ ~Healthy(file) /\ chrome = "up"
          /\ Trigger /\ CGoto(c, "wait") /\ UNCHANGED concluded
       \/ /\ ~Healthy(file) /\ chrome # "up"
          /\ CGoto(c, "refresh") /\ UNCHANGED <<kpc, concluded>>
    /\ Steady /\ UNCHANGED <<files, pidFile, cdp, browser, held, tries, got, way, stopper>>

\* Mutant of WaitForBump: a timeout counts as a refresh
WaitTakesTimeout(c) ==
    /\ cpc[c] = "wait"
    /\ Proceed(c, "refreshed")
    /\ bumped' = bumped \ {c}
    /\ Steady /\ UNCHANGED <<file, fills, pidFile, cdp, browser, keepers, got, way, stopper>>

\* Until the file's mtime moves, at most SESSION_KEEPER_WAIT_S
WaitForBump(c) ==
    /\ cpc[c] = "wait"
    /\ \/ c \in bumped /\ Proceed(c, "refreshed")
       \/ c \notin bumped /\ Proceed(c, "stale")
    /\ bumped' = bumped \ {c}
    /\ Steady /\ UNCHANGED <<file, fills, pidFile, cdp, browser, keepers, got, way, stopper>>

\* The cookies of a run: those in the Chrome it is attached to, or those it
\* loads from the file, none if that fails.  Without its Chrome it fails.
Load(c) ==
    /\ cpc[c] = "load" /\ way[c] # "cut"
    /\ got' = [got EXCEPT ![c] = IF way[c] = "attached" THEN live ELSE file]
    /\ CGoto(c, "use")
    /\ Steady /\ UNCHANGED <<files, pidFile, cdp, browser, keepers, way, concluded, stopper>>

Finish(c) ==
    /\ cpc[c] = "use" \/ (cpc[c] = "load" /\ way[c] = "cut")
    /\ CGoto(c, "idle")
    /\ got' = [got EXCEPT ![c] = Absent]
    /\ way' = [way EXCEPT ![c] = "launched"]
    /\ concluded' = [concluded EXCEPT ![c] = "none"]
    /\ Steady /\ UNCHANGED <<files, pidFile, cdp, browser, keepers, stopper>>

------------------------------------------------------------------------------
(* refresh_session.py, run by a council that has no keeper's Chrome *)

ReadCookies(c) ==
    /\ cpc[c] = "refresh"
    /\ \/ file = Torn /\ Proceed(c, "stale") /\ UNCHANGED got
       \/ /\ file # Torn /\ CGoto(c, "login")
          /\ got' = [got EXCEPT ![c] = file] /\ UNCHANGED concluded
    /\ Steady /\ UNCHANGED <<files, pidFile, cdp, browser, keepers, way, stopper>>

\* A browser of its own, twice if need be; then the cookies it ended up with
Login(c) ==
    /\ cpc[c] = "login"
    /\ \/ /\ login
          /\ \E d \in Issued(got[c]) : got' = [got EXCEPT ![c] = Kept(d)]
          /\ CGoto(c, "truncate") /\ Steady /\ UNCHANGED concluded
       \/ ~login /\ Proceed(c, "stale") /\ Steady /\ UNCHANGED got
       \/ login /\ Proceed(c, "stale") /\ Mishap /\ UNCHANGED got
    /\ UNCHANGED <<files, pidFile, cdp, browser, keepers, way, stopper>>

TruncateCookies(c) ==
    /\ cpc[c] = "truncate" /\ Truncate(c) /\ CGoto(c, "write")
    /\ Steady /\ UNCHANGED <<pidFile, cdp, browser, keepers, got, way, concluded, stopper>>

WriteCookies(c) ==
    /\ cpc[c] = "write" /\ Write(c, got[c]) /\ Proceed(c, "refreshed")
    /\ Steady /\ UNCHANGED <<pidFile, cdp, browser, keepers, got, way, stopper>>

\* subprocess.run kills it after a minute
RefreshTimeout(c) ==
    /\ cpc[c] \in Refresh
    /\ Proceed(c, "stale")
    /\ Mishap /\ UNCHANGED <<files, pidFile, cdp, browser, keepers, got, way, stopper>>

------------------------------------------------------------------------------
(* Time, Chrome, and processes that are killed *)

\* A minute or more passes, while nobody is at a step that takes a moment only
Aged(c) == IF c < Expired THEN c + 1 ELSE c

Tick ==
    /\ \A k \in Keeper : kpc[k] \in {"idle", "await", "again", "warm", "retry"}
    /\ \A c \in Council : cpc[c] \in {"idle", "summon", "wait", "login", "use"}
    /\ bumped = {}
    /\ file' = IF file = Torn THEN Torn ELSE Aged(file)
    /\ live' = Aged(live)
    /\ held' = [k \in Keeper |-> Aged(held[k])]
    /\ got' = [c \in Council |-> IF cpc[c] = "login" THEN Aged(got[c]) ELSE got[c]]
    /\ Steady
    /\ UNCHANGED <<fills, bumped, pidFile, cdp, chrome, login, kpc, tries, cpc, way,
                   concluded, stopper>>

Serves ==
    /\ chrome = "starting" /\ chrome' = "up"
    /\ Steady /\ UNCHANGED <<files, pidFile, cdp, live, login, keepers, councils, stopper>>

ChromeGone ==
    /\ chrome # "off" /\ Replaced("off")
    /\ Mishap
    /\ UNCHANGED <<files, pidFile, cdp, live, login, keepers, cpc, got, concluded, stopper>>

\* The servers stop taking the login, until somebody logs in again or they change
\* their mind, or for ever
LoginLost ==
    /\ login /\ login' = FALSE
    /\ Mishap /\ UNCHANGED <<files, pidFile, cdp, chrome, live, keepers, councils, stopper>>

LoginBack ==
    /\ ~login /\ login' = TRUE
    /\ Steady /\ UNCHANGED <<files, pidFile, cdp, chrome, live, keepers, councils, stopper>>

\* The process that has got a keeper's number ends
TakenEnds ==
    /\ pidFile = Taken /\ pidFile' = Dead
    /\ Steady /\ UNCHANGED <<files, cdp, browser, keepers, councils, stopper>>

Killed(k) ==
    /\ kpc[k] # "idle"
    /\ Gone(k) /\ Vacated(k)
    /\ Mishap /\ UNCHANGED <<files, cdp, browser, councils, spc>>

------------------------------------------------------------------------------

KeeperStep(k) ==
    \/ Check(k) \/ WritePid(k) \/ Retry(k) \/ Leave(k)
    \/ ReadSession(k) \/ Probe(k) \/ Launch(k) \/ Await(k) \/ Verify(k)
    \/ Connect(k) \/ Warm(k) \/ Capture(k)
    \/ TruncateFile(k) \/ WriteFile(k) \/ Publish(k)

StopStep == StopKills \/ StopClears \/ StopSweeps \/ StopUnlinks

CouncilStep(c) ==
    \/ Attach(c) \/ Summon(c) \/ Guard(c) \/ WaitForBump(c) \/ Load(c) \/ Finish(c)
    \/ ReadCookies(c) \/ Login(c) \/ TruncateCookies(c) \/ WriteCookies(c)

KeeperNext ==
    \/ \E k \in Keeper : Start(k) \/ KeeperStep(k) \/ Killed(k)
    \/ \E c \in Council : Begin(c) \/ CouncilStep(c) \/ RefreshTimeout(c)
    \/ StopReads \/ StopStep
    \/ Tick \/ Serves \/ ChromeGone \/ LoginLost \/ LoginBack \/ TakenEnds

KeeperSpec == KeeperInit /\ [][KeeperNext]_keeperVars

\* The Task Scheduler repeats the task, every process runs, Chrome starts; past
\* the bound a keeper reads between two writes of the file
KeeperFairSpec ==
    /\ KeeperSpec
    /\ WF_keeperVars(Start(Task)) /\ WF_keeperVars(Serves) /\ WF_keeperVars(StopStep)
    /\ \A k \in Keeper : WF_keeperVars(KeeperStep(k)) /\ SF_keeperVars(ReadSession(k))
    /\ \A c \in Council : WF_keeperVars(CouncilStep(c))

------------------------------------------------------------------------------

KeeperTypeOK ==
    /\ file \in Cookies \cup {Torn}
    /\ fills \subseteq Keeper \cup Council
    /\ pidFile \in Keeper \cup {None, Dead, Taken}
    /\ cdp \in BOOLEAN
    /\ chrome \in {"off", "starting", "up"} /\ live \in Cookies /\ login \in BOOLEAN
    /\ kpc \in [Keeper -> Busy \cup {"idle"}]
    /\ held \in [Keeper -> Cookies] /\ tries \in [Keeper -> 0 .. MaxAttempts]
    /\ cpc \in [Council -> Steps] /\ got \in [Council -> Cookies \cup {Torn}]
    /\ bumped \subseteq {c \in Council : cpc[c] = "wait"}
    /\ way \in [Council -> {"attached", "launched", "cut"}]
    /\ concluded \in [Council -> {"none", "healthy", "refreshed", "stale"}]
    /\ spc \in {"idle", "kill", "clear", "sweep", "unlink"}
    /\ target \in Keeper \cup {None, Dead, Taken}
    /\ mishaps \in 0 .. MaxMishap

\* A run that goes on because the session file was written while it waited has
\* no dead critical cookies: attached, its Chrome has live ones; launched, the
\* file it loads has none that are dead.  council_browser.py takes the moved
\* mtime for "session fresh" without looking at either.  For one keeper and one
\* run; with two of either an attached run may have dead ones: README, section 4.
RefreshedIsValid ==
    \A c \in Council : cpc[c] = "use" /\ concluded[c] = "refreshed" =>
        IF way[c] = "attached" THEN Valid(got[c]) ELSE got[c] # Expired

\* Whatever is killed, closed, stopped or left behind by a process that died -
\* a stale pid, a stale endpoint, expired cookies - a warm Chrome is there again
\* and again, but for three things from which no process recovers: the session file
\* is torn for good (main_loop and refresh_session give up on it), the servers take
\* the login no more (--save-session asks a person), or another process has got the
\* number in a dead keeper's pid file and keeps it (is_running takes it for one).
Warmed == chrome = "up" /\ Valid(live)
Recovers ==
    \/ <>[](file = Torn) \/ <>[]~login \/ <>[](pidFile = Taken)
    \/ []<>Warmed

\* _ensure_fresh_session's promise to refresh before the query when a critical
\* cookie has run out: a run it lets pass as healthy, and that loads the file,
\* has critical cookies that live.  Does not hold: README,
\* section 4.
HealthyIsValid ==
    \A c \in Council :
        cpc[c] = "use" /\ concluded[c] = "healthy" /\ way[c] = "launched" =>
            got[c] \notin {Absent, Expired}

==============================================================================
