# A TLA+ model of the code agent toolkit

The toolkit is a set of cooperating programs around a coding agent: a loop
driver that runs the CLI again and again (`automated-loop/`), a research
pipeline that automates a browser and must not run twice at once
(`council-automation/`), MCP servers, among them a bridge between CLIs and a
browser extension (`mcp-servers/browser-bridge/`), database health checks, hooks,
and a large collection of prompts. What the programs share are files, sockets
and processes; what is hard about them is that several run at the same time,
die, stall and restart.

This directory holds specifications of the parts where that matters, the TLC
configurations that check them, and TLAPS proofs of their safety properties for
every value of the constants.

```
tlc -workers 2 -config rq_faults.cfg MCResearchQueue     # one run
tlapm ResearchQueueProofs.tla                            # the proofs about one module
```

## 1. Inventory

| Component | State it keeps | Operations | What is hard |
|---|---|---|---|
| Research queue (`research_queue.py`) | counter, ticket files, `active.lock`, snapshot; per run a heartbeat thread | `acquire_slot`: draw, enqueue, poll, promote, run, release; garbage collection; `publish_snapshot` | read-modify-write of tickets by two threads and by other processes' unlinks; crashes, pid reuse, suspension; time-outs; errors in best-effort code |
| File lock registry (`file_locking.py`) | `global_locks.json` and its temporary file | `acquire` (write, wait, verify), `release`, `release_all` | whole-table lost updates, a shared temporary file, expiry |
| Loop driver (`loop_driver.py`, `state_tracker.py`) | `.workflow/state.json`; counters of the run | one CLI call per iteration, then rotate, budget, time-out, error, stagnation, gate, next | the order of the decisions, memory ahead of the file, kills inside a save, counters that reset each other, models with and without a fallback |
| Relay sessions (`server.js`, `websocket-bridge.js`, `context-manager.js`, `background.js`) | connections, `relay_sessions` rows, the extension's tab groups | connect, `relay_init`, drop, reconnect, evict, orphan, recover, clean up | the two ends of a connection learn of its end at different times; recovery races with cleanup |
| Bridge requests (`websocket-bridge.js`, `server.js`, `background.js`) | connections at both ends, pending requests with their timers, keepalive timers | broadcast, forward, wait for a browser, select a target, answer; dial, hello, replace, evict | several Chromes, answers over other connections than the command's, close events of connections already replaced, a relay taken for a browser, dying workers and primaries |
| Research bridge (`research_bridge.py`) | failure count, time of the last failure | query with retries and a circuit breaker | the breaker opening inside a query |
| Multi-agent orchestrator (`multi_agent.py`) | agent processes, workspaces | launch, monitor, merge, clean up | agents that outlive their locks, pipes nobody reads |
| Council run (`council_browser.py`, `submission_lock.py`) | slot files, submit lock, profile directories, a Chrome of its own or the keeper's | `run`, `_run_impl`, `start`, `stop`, the fallback from one Chrome to the other | three layers of locks, files judged by age, a browser shared by all sessions, cancellation, crashes |
| Completion detection (`council_browser.py`) | what the polls have seen: last length, time without growth, absence of the stop button, peak | the fast path, the stop-button cycle, the stability fallback, the council and vision detectors, extraction, validation | a page that pauses for longer than some of the windows, flickers, and shows the question where the answer is looked for; polls that fail, a text that collapses before it is read |
| Session keeper (`session_keeper.py`, `refresh_session.py`, the guard in `council_browser.py`) | session file, pid file, CDP endpoint file, a detached Chrome | a scheduled keeper run, `--stop`, attach or load, guard, refresh | check-then-act on pids, numbers that other processes get, several writers of one file, kills between any two steps, a login that is lost |
| Extended research runner (`extended_research_runner.py`) | the ledger in memory and on disk, `passes.jsonl` | choice of the next pass, one pass with retries, cap, convergence, circuit breakers, interrupt, `--resume` | what is on disk when a run dies, `--resume` of any ledger, caps that move, failures that look like convergence |
| Council query (`council_query.py`, the tool in `server.js`) | `council_latest.json`, one file per invocation, the run log | four modes, fallbacks per model and per tier, synthesis, save, log, print; the server's one retry and its time-out; `council_read` | files all queries share, partial failures, a save that raises, costs of attempts given up |
| Keeper of the extension's Chrome (`browser_bridge_keeper.py`) | a pid file, a Chrome | start, status, stop | check-then-act on pids |
| Queue monitor | file offsets | tail and alert | truncated or rotated files |
| Health check, Minecraft, hooks, prompts | — | SQL, game commands, text | little that a model checker reaches, except `chunking.py` |

Interactions: `CouncilBrowser.run` holds a research-queue slot around
everything else it does, on a Chrome that the session keeper may own and that
all sessions share; inside, it waits for the answer to be complete. A council
query starts such a run as one of its ways to an answer, and the extended runner
starts one council run per pass. The loop driver calls the research bridge, which calls
the council pipeline; the orchestrator starts loop drivers or CLIs and owns
the lock registry; relays reach the browser only through the primary.

What makes each of them correct:

- **Queue**: at most one run between promotion and release; oldest written ticket first; no live session loses its ticket while nothing stalls; at most one ticket per file error outlives its run, and none that nobody refreshes stays for ever; everybody is served; the snapshot never shows a waiting run as active.
- **Lock registry**: two agents never both hold a file; a verified lock stays in the table; every call returns.
- **Loop driver**: no iteration on an exceeded budget, over all runs; a session that was left is not resumed; stagnation takes two strikes; time-outs and rejections are bounded; every run ends.
- **Relay sessions**: two relays never share a session; the row of a live session is not up for recovery; the row of a finished one does not stay active; cleanup does not close tabs in use.
- **Bridge requests**: a command is executed at most once; its answer finds the caller unless it, or the command, meets a connection that has ended (by the network or a killed process, but also by the extension's replacement or the primary's eviction of a sound one), is ready while its Chrome has none open, comes after a timer that was too short, or the command went to a relay; every Chrome gets a connection with keepalives again.
- **Council run**: one session at a time starts a browser and types (on POSIX, where the queue sees to it); nobody's clean-up removes a file or a page a live run stands on; every way out gives back all it took.
- **Completion**: only an answer that has paused for longer than the deciding detector's window is cut off, and by the fast path none; a finished one that a detector can see at rest is recognised before the time-out; what is lost of it before the extraction is flagged.
- **Session keeper**: a warm browser with live cookies comes back after whatever was killed, but for three things no process recovers from (section 4); a run that waited for a refresh has a refreshed session.
- **Extended runner**: convergence includes the adversarial passes; caps hold over interrupts and resumptions; a stop loses at most the pass in progress, and no pass number is logged twice before a second resumption.
- **Council query**: a session reads the result it was told of; no text that a model returned is missing from the models of the result saved, unless it could not be saved; every billed call is in the run log, unless a save or the log fails.

## 2. Modules

| Module | Models |
|---|---|
| `RunSlot` | what the queue promises a caller: out, waiting, active; promotion only into an empty slot |
| `ResearchQueue` | `research_queue.py`, and that it implements `RunSlot` |
| `FileLocks` | `LockRegistry` of `file_locking.py` |
| `LoopDriver` | `LoopDriver.run` and `StateTracker` |
| `RelaySessions` | relays, primary, session rows and the extension's tab groups |
| `BridgeRequests` | tool calls from CLI or relay through the primary to one of several Chromes |
| `CouncilRun` | `run` and `_run_impl` of `council_browser.py` on top of `RunSlot`: slot files, submit lock, own and shared Chrome |
| `CompletionWait` | `wait_for_completion`, its detectors, `extract_results` and the record |
| `SessionKeeper` | `session_keeper.py`, `refresh_session.py` and the council's guard over the files they share |
| `ExtendedRunner` | the main loop of `extended_research_runner.py` with its ledger |
| `CouncilQuery` | the `council_query` and `council_read` tools and `council_query.py` |
| `ResearchQueueProofs`, `FileLocksProofs`, `LoopDriverProofs`, `CouncilRunProofs`, `ExtendedRunnerProofs`, `CouncilQueryProofs` | the theorems about the module of that name (section 5) |
| `BrowserBridgeProofs` | the theorems about `BridgeRequests` and `RelaySessions`, the two modules of the bridge |
| `CouncilBrowserProofs` | the theorems about `CompletionWait` and `SessionKeeper`, what a council run waits for |
| `MC*` | instances for TLC |

Operators whose comment starts with "Mutant" are wrong variants of the
definition that follows them. They are used by no specification: substituting
one for the definition must make a property fail, which shows that the property
depends on that code.

### 2.1 ResearchQueue

State: `counter`, `disk` (per number, absent or the ticket's state field),
`pidOf`, `lock` and `snapshot` are files. `stale` stands for the clock: the
tickets whose `heartbeat_at` is more than `TTL_S` old. Per session there are the
program location `pc`, the drawn number `seq`, what a garbage collection has
decided to delete (`doomed`), what a read-modify-write has read (`buf`), the
snapshot text not yet written (`text`), and the heartbeat thread (`hb`).
`ghost` holds writes of a heartbeat thread that `stop()` no longer waits for,
`orphan` the tickets whose thread outlives its run.

Granularity: one file read, one `os.replace`, one `unlink`, one lock operation.
A listing of the directory is one step: a listing that tears is equivalent to
one that is made earlier for some tickets, which the separation of scan,
verdict and unlink mostly covers. `Draw` is one step because it runs under its
own lock.

| Code | Actions |
|---|---|
| `atomic_next_seq`, `write_ticket`, `log_event("enqueued")` and the start of the heartbeat | `Draw`, `WriteTicket`, `LogEnqueued`, `EnqueueError` |
| `live_tickets` (read, judge, unlink, list) | `Scan`, `GcSkips`, then the `Reap` and `Lists` in `Head`, `Recheck`, `SnapList` |
| `_wait_for_promotion` | `Head`, `TryLock`, `Recheck`, `Expire`, `KeepWaiting` |
| `touch_heartbeat`, `_HeartbeatThread` | `TouchRead`/`TouchWrite`, `SkipTicket`, `HbRead`/`HbWrite`, `HbSkip`, `StopHeartbeat`, `JoinTimeout`, `GhostWrite` |
| `publish_snapshot` | `Scan`, `SnapList`, `SnapWrite`, `SnapError` |
| the "active" stamp, `log_event` outside any handler, release, clean-up | `StampRead`/`StampWrite`, `SkipTicket`, `LogError`, `Release`, `Unlink`, `UnlinkError`, `Leave` |
| operating system and clock (external) | `Crash`, `ReusePid`, `Age`, `Wedge`, `Suspend` |

`active.lock` is a `FileLock`: the operating system drops it when its holder
dies or the lock object is collected.

Every operation on a file may fail, `MaxError` times. What the code does then is
part of the model: errors of `touch_heartbeat`, of the stamp, of a read or an unlink
by the garbage collection and of the final `unlink` are swallowed (`SkipTicket`,
`HbSkip`, `GcSkips`, `Lists`, `UnlinkError`); those of `write_ticket`, `publish_snapshot` and
`log_event`, which catches a `Timeout` only, end the call, past its handlers where it
has none yet (`EnqueueError`, `SnapError`, `LogError`, with `Abandon`: the heartbeat
thread runs on and the ticket stays). Left out: the content of the activity log,
malformed tickets (written only through an atomic replace) and the kill switch.

### 2.2 FileLocks

State: `disk`, the temporary file `tmp`, the expired entries `old`; per process
its location, operation, attempt, private copy and open handle; `held` is what
the callers have been told. `racing` expresses the sync delay: an agent that
waits for its verification waits for every process that had read the table
before the agent's write, and only for those. `Overtime` is a process that takes
longer than the delay. Steps are one read, one open (truncating), one write
through a handle, one rename. A handle follows its file when the file is renamed
over `global_locks.json`, as on POSIX. A torn table reads as an empty one, which
is what `_read_locks` returns for it.

`mishaps` counts the three things the protocol does not claim to survive: two
overlapping uses of the one temporary file, a call outlasting the delay, an
expired entry. `Exclusive` and `HeldIsVisible` are stated for executions
without them, `CallReturns` for all. With three agents or more there is one more
event: a writer that has read the table before an entry was released or lost
brings that entry back, and a third agent's overwrite of it is then missed.
`restored` records it (a history variable that no action reads), and the two
properties also exempt it, unless there are only two agents, whom it cannot harm.

### 2.3 LoopDriver

State: the file `disk`, absent or torn included; the tracker's memory `mem`; the
counters of the run. One action per decision of `run`, in the code's order:
`Invoke`, the save (`SaveOpen`, `SaveWrite`, or `SaveFails`, whose result `run`
ignores), `Rotate`, `ExceedBudget`, `TimedOut` (with the fallback), `Recover` and
then `Errored`, `Stagnate`, `Complete` or `Progress`, `NextIteration`. `Launch`
loads the file in a new process; `Crash` kills the process anywhere. `configured` is the
model a run is started with: `Primary` is one that has a fallback (`opus`), `Secondary`
one that has none (the default `sonnet`, `config.py:60-61`, 85), whose time-outs count
on to its own limit (`FallsBack`). The output
of one CLI call is a record: whether there is a result event, whether the stream
named a session, error, completion marker, turns, cost. `cleared`, `silent`
and `refused` are history variables that no action reads.

Left out because they do not influence these decisions: prompts, research,
tracing, metrics and cool-downs, the post-iteration validation, which is disabled by
default, and the post-run review (`_run_post_review`), which is enabled by default but
comes after the decision to complete and after the last save.

### 2.4 RelaySessions

The relay's side of a connection (`phase`, `conn`, `broken`) and the primary's
(`browserClients`, `relayClients`, `relayInits`, `closing`) change in separate
steps. Rows are `row` and, for the order in which orphans are found, `later`, the
pairs of orphaned sessions of which the first has the later `last_activity`; every
UPDATE of the table is `SetRow`. `cleanups` are messages to the extension, `tabs`
its session groups. A relay is a `Cli`, one of its connections a `Socket`. `SharedDb` says whether
`MCP_DB_PATH` names a file. With the default, `:memory:` (`lib/config.js:21`),
every process has its own table, and `findOrphanedSession` in the relay never
finds what the primary has marked: recovery is then never taken. The runs use a
shared file, where it is.

`mishaps` records three kinds of event that some properties exempt: two relays
in one project at a time, a relay reconnecting before the primary has noticed the
close (the relay waits `relayReconnectDelay`, three seconds), an eviction.

### 2.5 CouncilRun

Composes the run with the queue: `Queue == INSTANCE RunSlot` is what
`ResearchQueue` was shown to implement (`QueueImplementsSlot`), and the model moves a
queued session's `phase` with the actions of `RunSlot` only. `slot`, `blank` and `old` are the
files `slot-k.lock` (whose, not yet written, past `SEMAPHORE_TTL`); `path`,
`holds` and `stale` the submit lock (which inode the path names, who has which
inode locked); `dirs` and `oldDirs` the temporary profiles; `keeper`, `browser`,
`cdp` and `pages` the Chromes. `env` chooses once which sessions have the queue
switched on, whether the stop-gap heartbeat is, and whether an open file can be
unlinked (POSIX) or not (Windows). The look at the submit lock's age and the unlink are
two steps: what is unlinked is what the path names by then.

| Code | Actions |
|---|---|
| `run`: enqueue, promotion, time-out, leaving the slot | `Call`, `Promoted`, `QueueTimeout`, `Leave` |
| `SessionSemaphore._cleanup_stale`, `acquire`, `release` | `Sweep`, `Scan`, `Reap`, `Take`, `Write`, `Busy`, `TooBusy`; `FreeSlot` inside `Leave` and `Stop` |
| `get_submit_lock`: stat and compare, unlink; acquisition, release | `Reclaim`, `UnlinkLock`; `Lock`, `LockTimeout`, `Unlock` |
| `start`, `_start_via_cdp`, launch, `--headless-fallback`, validation | `Attach`, `Fresh`, `OwnChrome`, `Launch`, `Relaunch`, `Valid` |
| `_cleanup_browser` and the second attempt | `Fallback` |
| `submit_query`, wait and extraction, any exception | `Submit`, `Collect`, `Fails` |
| the `finally` blocks and `stop` | `Finally`, `Stop` |
| clock, operating system, the keeper (external) | `Crash`, `AgeSlot`, `AgeLock`, `AgeDir`, `KeeperGone`, `KeeperBack` |

What happens on the page between submit and answer is one step here; that is
`CompletionWait`. A session runs once, because a process calls `run` once. The
persistent profile is not modelled: only `--save-session` uses it, which does not call `run`.

### 2.6 CompletionWait

The page is external: it streams (`gen`, `len`, `trail`), with pauses of at most
`pause` ticks, chosen from `Pauses`, and absences of the stop button of at most `Flicker`
ticks. Nothing bounds the pauses by the code's windows: the code names 60 to 120 s
(`council_browser.py:2566`), which is more than some of them. `asked` is what else
`<main>` shows, the question: the fast path and the extraction read `<main>` while no
`.prose` element has more than 50 characters (`Reading`). `now` counts the sleeps of the
polling loops. Lengths are classes between the code's thresholds, each of which is a
constant of its own (10, 50, 100, 200, 2500 and 3000 characters). `by` is the detector
that returned True; `ended`, `whole` and `late` (when the generation ended, what there was to read
then, was there nothing after `NoGrowth`) are read by properties only.

| Code | Actions |
|---|---|
| `_wait_content_stability` | `FastPoll`, `FastGivesUp` |
| `_wait_research_smart`, `_wait_for_stop_button_cycle` | `Mount`, `StopCycle` |
| `_wait_research_fallback` with its growth check | `Fallback`, `GrowthCheck`, `Nap` |
| `_wait_css_fallback`: the cards, then the stability of the text | `Cards`, `Css` |
| `_wait_vision`: states of two screenshots in a row | `VisionPoll`, `VisionError` |
| the deadline, extraction, `_validate_result`, `exit_reason` | `TimesOut`, `Extract` with `TrailOnly`, `Regressed` |
| a re-render that loses text (external) | `Collapse` |

The 30 s for the stop button are over whenever `_wait_for_stop_button_cycle` is
reached, so that `StopCycle` is all it does. A text collapses (`Collapse`) only after the
generation has ended. `_wait_vision_research` is not modelled: nothing calls it.

### 2.7 SessionKeeper

The critical cookies are abstracted to their age (`Fresh`, `Low`, `Imminent`,
`Expired`, `Absent`), the session file to those or `Torn`. A write is a truncation
and a write, by a keeper or a run's refresh; `fills` are the writers in whose write
another one has finished, whose file is then torn. The pid file holds a keeper's number,
that of a process that has ended (`Dead`), or one that another process has got since
(`Taken`), which `is_running` takes for a keeper; `login` says whether the servers still
take the login that the cookies carry. Only behaviour on Windows is
modelled: the keeper is a scheduled task there (`install_keeper_task.ps1`).

| Code | Actions |
|---|---|
| `main`: `is_running`, pid file, the attempts, `_clear_pid` | `Start`, `Check`, `WritePid`, `Retry`, `Gone`, `Leave` |
| `main_loop`: read, probe, launch or reuse, inject, warm, save, publish | `ReadSession`, `Probe`, `Launch`, `Await`, `Verify`, `Connect`, `Warm`, `Capture`, `TruncateFile`, `WriteFile`, `Publish` |
| `stop_running` | `StopReads`, `StopKills`, `StopClears`, `StopSweeps`, `StopUnlinks` |
| council `start`: attach or summon the task, guard, load | `Begin`, `Attach`, `Summon`, `Guard`, `WaitForBump`, `Load`, `Finish` |
| `refresh_session.py` and its time-out | `ReadCookies`, `Login`, `TruncateCookies`, `WriteCookies`, `RefreshTimeout` |
| clock, Chrome, the servers, operating system (external) | `Tick`, `Serves`, `ChromeGone`, `LoginLost`, `LoginBack`, `Killed` with `Vacated`, `TakenEnds` |

Time passes (`Tick`) only when nobody is in the middle of a file access, which
takes milliseconds against minutes. `COUNCIL_AUTO_REFRESH=0` is one of the
outcomes of `Guard`. `--save-session`, in which a person logs in, is not modelled but for
its effect, `LoginBack`.

### 2.8 ExtendedRunner

`ledger` is the dictionary in memory, `disk` the file (replaced atomically),
`journal` the length of `passes.jsonl`, which a pass enters before the ledger is
saved. The log inside the ledger is kept as what `check_convergence`,
`select_next_pass_type` and the circuit breakers read of it: the last three
records, the numbers of completed and adversarial passes, the types done, the
findings probed, and (for a property) the pass numbers. What the model answers is
external: findings opened, closed or re-graded, a verdict, a recommendation. `--resume`
takes any `ledger.json`, of a run that was interrupted, killed, aborted or completed, and
starts behind `interrupted_at_pass` if that is set, else behind `current_pass_num`
(`ResumeAt`). A cap of 0 is none (`Capped`), as in the code's truth tests.

| Code | Actions |
|---|---|
| top of the loop: interrupt, cap, close-out, choice of the pass | `Interrupted`, `CapHit`, `Close`, `Select` (with `Converged`, `Rail`, `NextPass`) |
| `run_pass`: answer, invalid answer and its retry, failures | `Completed`, `Invalid`, `ParseFailed`, `Network` |
| the record into the ledger, save, circuit breakers | `Save` |
| the final report and status | `Final`, `End` |
| SIGINT, a kill, `--resume` | `Signal`, `Crash`, `Resume` |

### 2.9 CouncilQuery

Per tool call the location, the pipeline in progress, the sources with what each
returned, the attempts, whose synthesis there is; the shared files `latest`,
`own` and, of the run log, only whether it accounts for each billed call
(`owed`). A write of `council_latest.json` is an open that truncates and a write;
`mixed` and `met` say which calls have overlapped in it. `dropped` are the calls whose
process threw an API result away that it could not save, `unlogged` those of which a line
of the run log was not written; no action reads them. What is printed is not modelled:
`format_synthesis_output` prints the synthesis and no model's text, so the properties
are about the result saved.

| Code | Actions |
|---|---|
| the tool handler of `server.js`: spawn, retry of a silent exit, time-out, reading the output | `Call`, `Silent`, `Exit`, `Timeout` |
| `main` and the mode | `Start`, `Health` |
| the models, Sonar, the direct providers | `AskModel`, `Gathered`, `AskSonar`, `AskProvider`, `ProvidersGathered` |
| the browser | `BrowserAnswers`, `BrowserFails`, `BrowserRaises` |
| the synthesis with its retries | `Synthesise` |
| `save_results`, the log, the output; mode auto going on | `Open` (`OpenLatest`), `Write` (`WriteLatest`), `Own`, `Log`, `PrintResult` |
| `save_results` raising: mode auto goes on to the browser without the result, any other process ends | `SaveRaises` |
| `council_read` | `Read` |

The browser's answer is one step; the run behind it is `CouncilRun`.

### 2.10 BridgeRequests

A connection is a pair of a peer and a number. The peer's view of it (`cur`,
`opened`, `dying`, `ping`) and the primary's (`socks`, `browsers`, `keepers`,
`relays`, `ends`) change in separate steps, as each process runs its event
handlers one after the other. `shut` are the connections over which nothing
reaches the peer any more; `inits`, `inbox`, `answers` and `reply` are on the
way. A call has the state its caller sees (`told`) and the one it has in
`pendingRequests` (`job`). `ran` and `lost` are history variables; no action
reads them. A loss is booked by the state of the connections and not by what an action
did: a command sent over connections that have ended, one under way when its connection
ends, an answer that is ready while its Chrome has no open connection, a timer shorter
than the work, a command that went to a relay. A command or an answer that
goes astray although a connection was open is not booked, so that it breaks
`TimeoutIsLoss`.

| Code | Actions |
|---|---|
| `broadcast` in the primary and as the relay overrides it | `CallHere`, `CallThere` |
| `relay_forward` | `Forward` |
| `_waitForBrowserClient`: woken or not | `Accept`, `NoBrowser` |
| `_selectTargetClient`, `_send` | `Elect` (with `Newest`) and `Send` inside `CallHere`, `Forward`, `Accept` |
| `handleServerMessage`, the answer over the global `ws` | `Deliver`, `Finish` (with `Ws`), `ReceiveAnswer`, `Hear` |
| the timers of primary and relay | `TimeOut`, `RelayTimeOut` |
| `connect`, `onopen`, `onclose`, the alarm, the popup's Reconnect; the relay's | `Dial`, `Opens`, `PeerClosed`, `Replace` |
| `_onConnection`, hello and `relay_init`, `close`, `_checkHeartbeats` | `Accept`, `ReceiveInit`, `Closing`, `Closed`, `EvictBrowser`, `EvictRelay` |
| `stop`, or the primary's process ends; another one starts | `Dies`, `Starts` |
| Chrome and the network (external) | `Killed`, `Break` |

Left out: what a command does in the page, the rate limiter, the health server,
pages and popup apart from Reconnect. Sessions and their tabs are `RelaySessions`.

## 3. Runs

| Run | Shows | Distinct states |
|---|---|---|
| `rq_faults` | exclusion, refinement of `RunSlot`, the snapshot, at most one ticket left per file error; until the first stall no lost ticket, until the first stall or error the order of promotion; one crash, stall, time-out and file error each | 1.6 M, with symmetry |
| `rq_live` | service, return of the lock, leftovers, with a crash, pid reuse and a file error, nothing stalling | 0.2 M |
| `fl_locks` | exclusion, visibility, return of calls; two agents, two files, two attempts, two mishaps | 0.5 M |
| `ld_restart` | budget, left and used-up sessions over two runs of two iterations, one kill or failed save | 6.8 M |
| `ld_limits` | two strikes, time-outs, termination in one run of four iterations, with and without a fallback | 1.4 M |
| `rs_relays` | distinct sessions, live rows, released rows; two relays, two connections each, one mishap | 0.7 M |
| `cr_runs` | what a live run stands on is kept, one submits at a time, every call returns and leaves nothing; two sessions, five settings, two faults | 0.3 M |
| `cw_waits` | who may cut an answer off, recognition of one that rests, lost text flagged; all three modes, pauses shorter and longer than the windows, one fault | 1.6 M |
| `er_runs` | earned convergence, what a stop may cost, caps; failures, aborts, a crash, an interrupt and two resumptions, advisory mode, a cap of 0 | 0.4 M |
| `sk_keepers` | a refreshed session is valid, recovery from one fault of any kind, a reused pid and a lost login included; the only run with the deadlock check, as the clock never stops | 0.5 M |
| `cq_queries` | results, answers and costs are kept; two calls at once, eight settings, one fault, which may be a save that raises or a line of the log that is not written | 0.8 M |
| `br_requests` | executed at most once, time-outs only after a loss, every Chrome comes back with keepalives; two Chromes, a relay, one call, two connections each, one fault | 0.4 M |

### Bounds and why they are enough

The safety properties are theorems for all constants, under the hypotheses that
section 5 names. For those the bounds only have to let the runs show that a wrong variant is noticed; they
restrict what is known of the properties listed there as only model-checked.

- Queue: two sessions interleave in all ways a poll, a heartbeat and a garbage
  collection can; two numbers let a session run again or wait behind a leftover.
  One fault of each kind in `rq_faults` includes a crash while the other is
  promoted and a suspension while a ticket is being written. Nothing stalls in
  `rq_live`: its properties are stated for that (a waiter whose ticket went in a stall
  waits until `MAX_WAIT_S`).
- Locks: two files are what a lost update needs, two agents what a race needs;
  for the third agent see section 4. Two attempts include a retry
  and an exhaustion.
- Loop driver: limits are scaled down so that each is reached (window 2, four
  turns and three cost units per session, budget 2 or 3; in `ld_limits` fallback after 1
  time-out, and 2 of the model without one end the run; in `ld_restart` 2 and 2).
  A run may be configured with a model that has a fallback or with one that has none. Two runs are what "resumed by a later run" needs, four
  iterations what the strike and fallback sequences need.
- Relays: two relays cover reconnecting and taking over; two connections of each
  let an old and a new one coexist at the primary.
- Bridge requests: a keeper's Chrome and the user's are what election is about; two
  connections of each let an old one and its successor coexist. One call, because
  calls share only the connections: each has its own request id and timer. One fault
  (`MaxFault`) covers each kind, not two in a row. The extension replaces an idle
  connection every 45 s (section 4), so replacing is the fault that happens most.
- Council runs: one slot makes two sessions contend for it, which is the
  constraint all the locks are about; the properties about files of live runs are
  stated for sessions that all use the queue, the submit lock's for Windows in any setting and for
  POSIX with the queue. The five settings of `MCSettings` are: all in the queue (POSIX),
  none (Windows), all but one (Windows), none with the stop-gap (Windows, POSIX). Two faults are what reclaiming by age needs (a file grows old, and
  another one does or a session dies).
- Completion: the thresholds keep the order the seconds have: the fast path's three
  seconds and its debounce below the 30 s of `NO_GROWTH` and those for the stop button,
  these far below the 60 s at its end (2 and 12 ticks: there is room for an answer that first
  appears after `NO_GROWTH`), below the 120 s of the slow guards (13), below the time-out (23).
  A pause of 3 ticks is shorter than every window of a detector, one of 6 longer
  than the growth checks (4) and council mode's stability (4), as 60 s are. Lengths 0, 1, 6, 7
  and 8 with a question of none or 3 fall into the classes that the thresholds separate.
  `FlickerAssumption`, that the button does not hide for longer than the debounce, failed
  polls included, is the only assumption about the page; `ClockAssumption` orders three of the code's clocks.
- Session keeper: one scheduled keeper, one council run and one `--stop` are three
  processes on each file; the Task Scheduler does not start a
  task that is running, and `install_keeper_task.ps1` leaves that default alone. One fault leaves everything a kill can leave, a number that another process gets
  included; recovery from it ends where the next could strike.
- Extended runner: one finding and one phase; a cap of 6 lies past the bootstrap
  of four passes, so that caps, fresh observers and final verdicts meet, and a cap of 0
  is none; two resumptions are what repeats numbers, and three failures what aborts a run
  that is then resumed (`MCSettings`). `PassBound` stops runs that no cap ends. The streaks of three are the code's.
- Council query: two models are what "some fail" needs, two calls what sharing a
  file needs, four results are what a call can save (mode auto saves twice, the
  handler runs twice). The eight settings are the combinations of mode, keys and
  fallback that take different branches.

`CHECK_DEADLOCK FALSE` is set (except in `sk_keepers`) because every bounded
system really stops: the
queue's numbers are used up and everybody is idle, the iterations are used, every
relay has exited, a call has its answer, a research run is done. That nobody gets stuck before is what the liveness properties
say. Symmetry is used only in `rq_faults`, which has no liveness property.

### Fairness

- Queue: weak fairness of each session's own steps (threads are scheduled; the
  body of the `with` ends because every wait in `CouncilBrowser._run_impl` has a
  time-out), of the heartbeat's write after its read, and of `Age` (time passes).
  `TryLock` always has an outcome, so a poll is a step. Nothing makes a session
  enqueue, and no fault is fair.
- Locks: a process that is in a call goes on. Nobody has to call.
- Loop driver: a running process goes on; the CLI is killed at its time-out, so
  `Invoke` ends.
- Relays: the primary processes close events. Nothing else is assumed.
- Bridge requests: `WF(System)`, event loops, timers and the network go on. Nobody has
  to call, no fault is fair, and nobody has to start a new primary.
- Council runs: `WF(Work(s))`, a session in the middle of a run goes on, since all
  its waits poll with a time-out. The time-outs of queue, slot and submit lock are
  not in `Work`: `RunReturns` shows that the waits end without them.
- Completion: `WF(Detector)`, the event loop comes back to the one coroutine.
- Session keeper: the scheduler repeats the task every eight minutes, a started
  Chrome comes up, and every process takes its steps. Strong fairness of
  `ReadSession` says that a keeper does not for ever read exactly between the
  truncation and the write of somebody else.
- Extended runner: `WF(Run)`, one thread whose calls have time-outs. Nobody has to
  resume.
- Council query: none; its properties are about what was saved, not when.

## 4. What disagrees with the documentation

Sixteen statements of comments and documents are definitions in the modules,
marked "Does not hold". TLC finds a counterexample when the definition replaces
the properties of the named configuration, with the changes given here. A
property of a passing run ends the table: it is true there and false with more
processes.

| Definition | Configuration | What the code does |
|---|---|---|
| `ResearchQueue!PromotedRuns` (property) | `rq_faults`, `FairSpec`, only `MaxError` = 1, no symmetry | `research_queue.py:687`: an error of the best-effort snapshot (or, at 686, of `log_event`) right after the promotion ends the promoted run before it starts. It also leaves the heartbeat thread running, which keeps the ticket fresh at the head of the queue for as long as the process lives (today's callers are processes that exit soon) |
| `FileLocks!ExclusiveForAll` | `fl_locks`, `Spec`, three agents, `MaxMishap` = 0 | `file_locking.py:140`: write, wait, verify does not exclude three agents: a writer with an older copy brings back an entry that was gone, under which another agent's lock has been granted meanwhile |
| `LoopDriver!RejectionsConsecutive` | `ld_limits`, `MaxIterations` = 3, `TotalBudget` = 2 | `loop_driver.py:545`: "consecutive" rejections (`config.py`, `max_rejections`) are counted in total |
| `RelaySessions!TabsKept` (property) | `rs_relays`, `SessionSpec`, `MaxMishap` = 0 | `websocket-bridge.js:80`: when a relay disconnects the primary always sends `session_cleanup` (78-84), which closes the tab group that the relay that reconnects or recovers the session calls preserved (`server.js:1399`) |
| `BridgeRequests!TargetIsBrowser` | `br_requests`, `Spec`, `MaxFault` = 0 | `websocket-bridge.js:246`: a relay's connection counts as a browser until its `relay_init`; a call that waits "for at least one non-relay browser client" (242) is woken by it, and its command goes to the relay, which ignores it |
| `BridgeRequests!OpenIsPinged` | `br_requests`, `Spec` | `background.js:1744`, `274`: the close event of a replaced connection clears the keepalive timer of its successor (header, "Layer 1: WebSocket ping every 20s"); the primary evicts it after 45 s |
| `CouncilRun!KeeperKept` (property) | `cr_runs`, one session, `MaxFault` = 0 | `council_browser.py:3094`: the fallback of an attached run closes the keeper's Chrome with all pages in it, which the comments at 936 and the docstring of `stop` (3301) promise to leave alive |
| `CouncilRun!StopgapAlone` | `cr_runs` | `submission_lock.py:79`: with the stop-gap on POSIX two sessions may both find the file of a dead holder old; one unlinks it and locks a new one, the other unlinks that one while it is held, and locks its own |
| `CompletionWait!NoHalfAnswer` | `cw_waits` | `council_config.py:126` has the 30 s of the growth checks as a window that "must exceed longest inter-section pause", and 115 says the like of the stability thresholds; pauses last 60 to 120 s (`council_browser.py:2566`). The growth checks return half an answer after one of 30 s, council mode (8 s) after one of eight. `NotCutOff` says which detector may do so, and after which pause |
| `CompletionWait!ShortAnswerRecognised` (property) | `cw_waits` | `council_browser.py:2060`: an answer of less than 3000 characters of which nothing is shown in the first 30 s (docstring: "catches ultra-short research-mode queries") has left the fast path for detectors that never accept it, and times out |
| `CompletionWait!NotSilent` | `cw_waits` | `council_browser.py:2835`: "a plausible-but-incomplete answer is never silently stored as valid": what is there at the time-out, or was cut off, is recorded as "completed" and "ok" unless it ends in an open fence or a dangling token |
| `CompletionWait!NoFalseAlarm` | `cw_waits`, `Asks` = {8} | `council_browser.py:428`: "a false 'suspect' on a valid answer is worse than missing a rare truncation": a long question read from `<main>` before the answer counts for the peak, against which a short complete answer then looks truncated |
| `CompletionWait!StopButtonTried` (property) | `cw_waits`, only `Modes` = {"research"}, `MaxFault` = 0 | `council_browser.py:2160`: the 30 s for the stop button (docstrings at 1838 and 2107) are counted from the start of the fast path, which lasts up to 60 s and has then used them up: the stop-button cycle is never tried after it |
| `ExtendedRunner!ConvergedOnEvidence` (property) | `er_runs` | `extended_research_runner.py:1826`: a failed pass has no counts and counts as one without news, so that a run can converge on failures (`src/commands/extended-research.md:577`) |
| `SessionKeeper!HealthyIsValid` | `sk_keepers` | `session_keeper.py:300`, `refresh_session.py:255`: a critical cookie with less than a minute left is dropped from the file, and the guard (`council_browser.py:1208`), which looks at the cookies that are there, calls a session without any healthy |
| `CouncilQuery!BusyIsBusy` (property) | `cq_queries` | `council_query.py:942`: the text of every browser failure names BROWSER_BUSY, and `server.js:993` looks for that word: every failed first run is reported as busy |
| `SessionKeeper!RefreshedIsValid` | `sk_keepers`, `KeeperSpec`, `MaxMishap` = 0, two council runs or two keepers | `council_browser.py:1139`: "mtime bumped; session fresh". Another run's `refresh_session.py` moves the file while the run waits for the keeper, attached to a Chrome that has not been warmed; or a second keeper, started by hand beside the task (`is_running` and the write of the pid are two steps), injects the dead cookies it read first into the Chrome that the other has warmed and is about to save |

The models also reproduce the following; no run is dedicated to them, and the
properties above are stated so that they hold in spite of them.

- `research_queue.py:302` says a long pause never costs a live holder its ticket.
  A suspension beyond `TTL_S` does (`Suspend`, `Reap`). So does a verdict made just before
  the owner, after a stall, refreshes its heartbeat: the unlink comes later than the look.
  The lock still excludes.
- An error of `unlink` (657, 669, 716, swallowed) leaves the ticket of a finished run until it
  is too old; one of `log_event` (594, 636, 662, 686) leaves the ticket of a call that has
  failed, in the last three cases with its heartbeat thread running (`NoLeftoverTicket` counts
  them by errors; `LeftoverReclaimed` exempts what is still refreshed).
- Publishers compute the snapshot before they have its lock (`publish_snapshot`): an older
  one may overwrite a newer one.
- A heartbeat written between the read and the write of the "active" stamp, or
  the other way round, undoes one of them; the snapshot then omits the run.
- "Strict FIFO" (`research_queue.py:621`) is by written tickets, not by drawn
  numbers: a number may be drawn and not yet written.
- With nobody left to publish, the snapshot may go on showing a finished run
  (`commands/research-queue.md:17` describes it as live).
- `file_locking.py:60` calls the write an atomic replace; the temporary file has
  one name for all processes, so two writers can tear it, or lose it to each
  other (`FileNotFoundError` out of `acquire` or `release`).
- A release may be undone by another process's write of an older copy.
- `automated-loop/README.md:88`: a rotation is in memory until the next save; a
  kill in between resumes the old session.
- A timed-out call is recorded with cost 0 (`loop_driver.py:291`), so the budget
  does not see what it spent.
- Iterations that end in an error skip the stagnation check (`loop_driver.py:492`).
- A save torn by a kill (`state_tracker.py:120`) loses the whole history: `load`
  fails, its result is ignored, and the run starts from nothing.
- An evicted relay's session is neither orphaned nor cleaned up
  (`websocket-bridge.js:337`), because its entry is gone when the close arrives.
- The alarm replaces a connection on which no message came for 45 s, because "server
  sends heartbeat pings every 30s" (`background.js:1742`). They are protocol pings, sent
  every 45 s (`lib/config.js:19`), and `onmessage` never sees them: an idle extension
  replaces a sound connection again and again. Each time what is under way over the old one is
  lost, and so is an answer that is ready before the new one is open (`background.js:296-300`);
  the primary's eviction of a sound connection whose keepalive timer was cleared loses
  commands in the same way. `TimeoutIsLoss` counts these as losses.
- Two relays in one project can recover the same orphaned session.
- A slot file is created and then written; read in between it counts as corrupt and
  is deleted (`council_browser.py:126`, `186`). A slot older than 180 s is deleted
  although a research run waits up to 480 s, and `release` (`207`) unlinks whatever
  file has the slot's name. The queue keeps all of this off running sessions, which
  is what `FilesKept` says; without the queue it happens.
- On POSIX a submit lock held for more than 180 s is unlinked under its holder
  (`submission_lock.py:78`), unless the stop-gap's heartbeat touches it.
- After a fallback `_cdp_attached` stays set, so `stop` leaves the temporary profile.
- `exit_reason` says "completed" for runs that timed out (`council_browser.py:3237`).
- A question in `<main>` may also hide a loss: until `.prose` has more than 50 characters it
  is read with the answer. The fast path assumes that the stop button never hides for longer
  than the debounce of 3 s.
- `interrupted_at_pass` is never cleared (`extended_research_runner.py:2514`): every `--resume`
  after an interrupt starts behind that pass, also the second one, of a run that was killed,
  aborted or completed since, so that pass numbers repeat. A run killed in its pass n continues with n + 1.
- A failed DECOMPOSE leaves a run without `--max-passes` without any cap; the closing
  FINAL_VERDICT of a converged run may be one pass past it.
- Two writers of the session file, or one killed in its write, leave a torn file; the
  guard calls it healthy (`council_browser.py:1208`), and no process repairs it.
  `Recovers` therefore exempts it. The guard takes the truncation for the refresh.
- `is_running` (`session_keeper.py:173-208`) asks whether any process has the number in the
  pid file: when a killed keeper's number is taken, no later keeper starts until that
  process ends. A login that the servers no longer take fails every keeper
  (508-510) until a person runs `--save-session`. `Recovers` exempts both, if they last for ever.
- `--stop` and the sweep before a launch may end a Chrome that has just begun to
  serve; the `finally` of one keeper may remove the pid file of another.
- In mode auto a `save_results` that raises counts as a failure of the API (`council_query.py:909-927`):
  the answers are dropped and the browser is asked. A failing `append_run_log` is
  swallowed (558), and the costs are in no line. `AnswersKept` and `PaidIsLogged` exempt the two.
- `council_read` never asks for an invocation and may return another session's
  result; the failure text of a second run is returned as an answer.
- With `FALLBACK_ENABLED` the health ping, and calls whose results the direct
  providers replace, cost something that no line of the run log shows. `PaidIsLogged`
  is stated for the default.

## 5. Proofs

Eight modules prove safety properties for every value of the constants that the
named `ASSUME`s of the component's module allow: any number of sessions, agents,
calls or connections, any thresholds and limits, any number of faults. Each first
proves that an inductive invariant, a conjunction of named parts, is kept by every
action (one step per action, TLC having checked the invariant before), and derives
the properties from it. What the operating system does (a lock that admits one
holder and is dropped by a dead one, an atomic rename) is part of the models.

### Research queue

| Theorem | Property | Argument |
|---|---|---|
| `TypeCorrect` | `TypeOK` | `TypeInv` = `TypeOK` and `LocInv`: a session past `Draw` has a number, one about to write has read something. Without `LocInv` the type of `disk` is not preserved by `TouchWrite` |
| `SlotExclusive` | `MutualExclusion` | `LockInv`: a session between a successful `lock.acquire` and its release is the one in `lock`. Inductive with `TypeInv` |
| `QueueImplementsSlot` | `ImplementsSlot` | every action moves the phase of at most one session (`PhaseMoves`) or none (`PhaseStutters`); promotion finds the slot empty by `LockInv` |
| `NoTicketLost` | `TicketKept` | `QuietKeep`: until the first stall `KeepInv` = `QuietInv`, `OwnOK`, `PairOK` holds: numbers are unique, a run's ticket carries its pid and is fresh, and no session has judged it dead. The verdict (`doomed`) has to be in the invariant because the unlink comes later than the judgement |
| `FifoPromotion` | `OldestWaiterPromoted` | by `KeepInv` the listing of `Recheck` contains every waiter's ticket, as long as no file could not be read |
| `SnapshotHonest` | `SnapshotNotAhead` | `NumbersInv`, `AheadInv`: what is listed, in a text not yet written or in the file is a number drawn by then, and a number is active in it only once its session is past the stamp |
| `NothingLeft` | `NoLeftoverTicket` | `PidInv`, `LeftInv`: while nobody has died or stalled, the tickets that no run will unlink any more (`Remains`) are at most as many as the file errors. No action adds one (`Kept`) but an error, which adds one (`OneLeft`); `LeftCount` counts |

### File locks

| Theorem | Property | Argument |
|---|---|---|
| `TypeCorrect` | (`TypeOK`) | only a waiting agent races |
| `Visible`, `Exclusion` | `HeldIsVisible`, `Exclusive` | without mishaps the temporary file has one writer (`WriterInv`), and a copy about to be written has every entry of the table but those whose owners still wait for that writer (`CopyInv`); so what is held is in the table (`HeldInv`), which has one owner per file. That `CopyInv` is lost when an old entry is brought back was the counterexample for three agents (section 4) |

### Loop driver

| Theorem | Property | Argument |
|---|---|---|
| `TypeCorrect` | (`TypeOK`) | the number of a session drawn is bounded by the calls of all processes (`CountInv`), which needs where in an iteration the run is (`EndInv`) |
| `LeftIsLeft` | `ClearedNotResumed` | `SessionInv`: what would be resumed, from the memory or from the file, has not been left; after a kill or a failed save nothing is said |
| `Rotated` | `RotationHolds` | `RotationInv`: from `_should_rotate_session` to the next call, and in the file between runs, the last session is not used up |
| `WithinBudget` | `BudgetHeld` | `BudgetInv`: after the check nothing is recorded before the next call |
| `TimeoutsBounded` | `TimeoutsEnd` | `TimeInv`: among the last cycles, as many as the counter allows, and after a fallback those before it too (`Silence`), one was not silent. A run whose model has no fallback has its own limit only |
| `SecondChance` | `TwoStrikes` | `StrikeInv`: while `reset` is set there is a stagnant iteration of this run after which none that was judged was productive |

Costs and turns are summed by folds over the history. The proofs treat the sums as
unknown values: that they are numbers would need induction over data.

### Bridge requests (`BrowserBridgeProofs`)

| Theorem | Property | Argument |
|---|---|---|
| `Once` | `ExecutedOnce` | `OnceInv`: a call not yet sent has no command under way and has not run; two commands under way are of different calls, and the call of one under way has not run |
| `Timeouts` | `TimeoutIsLoss` | `LossInv`: a pending call has a command, an execution or an answer on its way, or is in `lost`; a relay's call that the primary is done with has its reply on the way. That `browserClients` is a list of connections (`ListOK`) gives `OneElected`: what is elected is open, and one at most |

### Relay sessions (`BrowserBridgeProofs`)

| Theorem | Property | Argument |
|---|---|---|
| `SessionTypeCorrect` | (`SessionTypeOK`) | `NumberOK`: the primary knows no connection of a number its relay has not reached, so that a new one is never known already; a recovering relay has found a session |
| `Distinct` | `SessionsDistinct` | `ProjectInv`: a session belongs to the project of the relay that drew it or took it over, and only one live relay of a project exists. Holds with evictions, drops and late closes |
| `RowKept` | `LiveNotOrphaned` | `LiveInv`, while nothing but evictions happens. `ConnInv`: what the primary knows of a relay is its last connection, and its `relay_init` is under way only until it is registered. `ClaimInv`: the primary has, or is told, the session the relay works in. `RowInv`: such a session's row is active once the relay is registered, and not orphaned before. `NewInv`: the session of a relay that has not started has no row, and no other relay has it. `ProjectInv` is needed because another relay's close would orphan a shared session |

Late closes and overlaps are excluded because they break the property (the first is
the race of `server.js:1451`, which `relayReconnectDelay` makes unlikely).

### Council run

| Theorem | Property | Argument |
|---|---|---|
| `TypeCorrect` | (`TypeOK`) | only a session's own profile grows too old |
| `Submitting` | `SubmitAlone` | `PhaseInv`: a queued session inside a run is the active one. `LockInv`: on Windows, where nobody unlinks a held lock, not even after a look at its age that came earlier, every holder has the inode that the path names. The property does not speak of POSIX without the queue for all, with the stop-gap or without (section 4) |
| `Files` | `FilesKept` | `FileInv`, with all sessions in the queue: the slot a session believes it has is its own |
| `Pages` | `PageKept` | an action property: an attaching session closes others' pages only while it is the active one |

### Completion (`CouncilBrowserProofs`)

| Theorem | Property | Argument |
|---|---|---|
| `TypeCorrect` | (`TypeOK`) | two screenshots end the wait |
| `CompleteIsFinished` | `NotCutOff` | `FastInv`: the time since the button was last seen is bounded by faults and flickers, `now - absent + 1 <= faults * (Flicker + 1) + hidden`; `FlickerAssumption` keeps that below `Debounce`, whatever the pauses. `SlowInv`, `ConfirmInv`: text that a slow detector has seen unchanged has rested as long on the page, so that its stream was pausing that long. Nothing is assumed about the pauses. Assumes, for vision mode, `MaxFault <= 1` (`OneMisreading`): that detector believes two screenshots in a row, so that two misread ones cut an answer off |
| `LossFlagged` | `LossIsFlagged` | assumes `MaxFault <= 1`. `PeakInv`: when the fast path returns, its peak is at least what there was to read when the generation ended. It has seen the text at rest in several polls; only if the poll of the very tick it ended in failed does the peak lack it, and then the text has not collapsed. Uses `CutInv`: the fast path returns after the end only |

### Session keeper (`CouncilBrowserProofs`)

| Theorem | Property | Argument |
|---|---|---|
| `KeeperTypeCorrect` | (`KeeperTypeOK`) | `TriesInv`: a keeper that has not written its pid has not called `main_loop`; a run that ends resets the count |
| `Loaded` | `LaunchedIsValid`, the half of `RefreshedIsValid` about runs that launch | `WriterInv`: what a keeper or a refresh is about to write has passed the filter for cookies with less than a minute left. `MovedInv`: from the moment the file moves until the run loads it, the file has nothing dead or is torn, because time does not pass in between (`Tick`). For any number of keepers and runs |
| `Refreshed` | `RefreshedIsValid` | `ChromeInv`: an attached run's Chrome is up. `KeeperInv`: from its capture to its write the keeper's Chrome has live cookies; while a woken run has not looked at the Chrome, that holds too, and no keeper on its way to inject holds dead ones. Assumes one keeper (`Keeper = {Task}`) and `[]Apart`: no run's refresh writes the file while another run waits for it, which is always so with one run. Both are needed: section 4 |

### Extended runner

| Theorem | Property | Argument |
|---|---|---|
| `TypeCorrect` | (`TypeOK`) | the log of the disk is that of the memory: only `Save` writes either |
| `Kept` | `LedgerKept` | `JournalInv`: the journal is ahead of the log by the pass in progress and one for every crash. `NumsInv`: up to the second resumption, or without an interrupt, logged numbers are at most the current pass of both ledgers and below the next |
| `WithinTheCap` | `CapHolds`, the safety half of `CapEnds` | `ClosingInv`: a pass past a cap that is one (`Capped`: known and not 0) is the closing one of a converged run |
| `Earned` | `ConvergedIsEarned` | by that invariant only DECOMPOSE raises the floor of adversarial passes, and no pass of a converged run is one |

### Council query

| Theorem | Property | Argument |
|---|---|---|
| `TypeCorrect` | (`TypeOK`) | `SavedInv` bounds the results a call saves, `CostInv` the cost to be logged by what was billed |
| `Answers` | `AnswersKept` | about the models of the result that is saved, not about what is printed. `AnswerInv`: unless the call is in `dropped`, a text answered is among the sources in hand, and where the sources are thrown away none had a text |
| `Ledger` | `PaidIsLogged` | `LedgerInv`: with the fallbacks off, and unless a save raised or a line was not written (`unlogged`), what is owed is the cost of the sources in hand |
| `Files` | `ResultKept` | `FileInv`: a call that no other has met since its open has had `council_latest.json` to itself |

### Only model-checked

- Everything with fairness: `Served`, `LockComesBack`, `LeftoverReclaimed`,
  `CallReturns`, `RunEnds`, `RowReleased`, `RunReturns`, `AnswerRecognised`,
  `Recovers`, `Reconnects`, the second half of `CapEnds`. Liveness under fairness and
  `ENABLED` are out of TLAPS's reach here.
- `TypeOK` of `BridgeRequests`, but for what the two theorems need of it: `ListOK` and
  `CallTypes`. It is a long conjunction over the two ends of a connection that no property rests on.

Every invariant that a run checks is the property of a theorem. The type invariants
of the modules of sections 2.2 to 2.10 are in no run's list; the theorems
establish them for all but `BridgeRequests`. No module declares a `RECURSIVE`
operator.

`CompletionWait` and `SessionKeeper`, and likewise `BridgeRequests` and
`RelaySessions`, share one proof module that extends both; that is why their
names differ (`KeeperNext`, `SessionNext`).

## 6. Plan

All of the plan's modules are written and their invariants proved. What would extend
them: `browser_bridge_keeper.py` beside the session keeper, and the composition of
`RelaySessions` with `BridgeRequests` over one set of connections.

## 7. Not modelled

- The research bridge and its circuit breaker, the multi-agent orchestrator: their
  shared state is that of `FileLocks` and `LoopDriver`; the hazards are listed.
- `browser_bridge_keeper.py`: the pid-file life cycle is that of `SessionKeeper`,
  without a session to keep.
- The queue monitor tails files that `ResearchQueue` leaves out as output.
- The health check is SQL over collected measurements, the Minecraft server sends
  commands of one caller in sequence, hooks and prompts are text. `chunking.py` is a
  pure function that its tests cover.
- Selectors, page automation, model cards, wording of prompts and reports, logging,
  metrics, the session context, the copies under `history/`.
