---------------------------- MODULE RelaySessions ----------------------------
(***************************************************************************)
(* Relay sessions of mcp-servers/browser-bridge.  A Claude Code CLI that   *)
(* finds the bridge's port taken runs as a relay (server.js): it connects  *)
(* to the primary (lib/websocket-bridge.js), names the session its tab     *)
(* group belongs to, and reconnects when the connection closes.  The       *)
(* primary keeps a row per session (lib/context-manager.js); when a relay  *)
(* disconnects, it marks the row orphaned, so that a relay started in the  *)
(* same project takes the session over, and tells the browser extension    *)
(* (extension/background.js) to close the session's tabs.                  *)
(*                                                                         *)
(* Events of one connection reach the two ends independently.  A relay     *)
(* waits RELAY_RECONNECT_DELAY before it reconnects, which is longer than  *)
(* the primary needs to notice the close, except when it is late.          *)
(***************************************************************************)
EXTENDS Integers, FiniteSets, Functions

CONSTANTS
    Cli,         \* the CLIs that run as relays; each starts once, with a session
                 \* of its own
    Directory,   \* the project directories
    SharedDb,    \* is MCP_DB_PATH a file, or does each process have ":memory:"
    NoSession,   \* no session
    MaxSocket,   \* bound: connections of one relay
    MaxMishap    \* bound: how many kinds of mishap happen, each once

ASSUME DirectoryAssumption == Directory # {}
ASSUME SharedDbAssumption == SharedDb \in BOOLEAN
ASSUME NoSessionAssumption == NoSession \notin Cli
ASSUME SessionBoundAssumption == MaxSocket \in Nat \ {0} /\ MaxMishap \in Nat

Session == Cli              \* a session is named after the relay that drew it
Socket == Cli \X (1 .. MaxSocket)

VARIABLES
    phase,          \* per relay: where the process is
    cwd,            \* per relay: process.cwd()
    session,        \* per relay: this.sessionId
    found,          \* per relay: the orphaned session it is about to recover
    conn,           \* per relay: the number of its last connection
    broken,         \* connections that are gone, with the relay not yet told
    browserClients, \* connections that have not said relay_init
    relayClients,   \* connection -> sessionId
    relayInits,     \* relay_init messages under way: connection -> sessionId
    closing,        \* connections whose close event has not reached the primary
    row,            \* relay_sessions.state per session, or "none"
    later,          \* pairs of orphaned sessions, that of later last_activity first
    cleanups,       \* session_cleanup messages on the way to the extension
    tabs,           \* sessionGroups: sessions with a tab group
    mishaps         \* what has happened: a relay started while another ran in the
                    \* same project ("overlap"), a relay reconnected before its old
                    \* close was noticed ("late"), a connection was evicted for its
                    \* heartbeat or idle time ("evict")

relaySide == <<phase, cwd, session, found, conn, broken>>
clientSide == <<browserClients, relayClients, relayInits, closing>>
db == <<row, later>>
extension == <<cleanups, tabs>>
sessionVars == <<relaySide, clientSide, db, extension, mishaps>>

Phase == {"new", "connecting", "finding", "recovering", "open", "lost", "exited"}
RowState == {"none", "active", "orphaned", "recovered"}

SessionInit ==
    /\ phase = [r \in Cli |-> "new"]
    /\ cwd \in [Cli -> Directory]
    /\ session = [r \in Cli |-> r]
    /\ found = [r \in Cli |-> NoSession]
    /\ conn = [r \in Cli |-> 0]
    /\ broken = {} /\ browserClients = {} /\ closing = {}
    /\ relayClients = <<>> /\ relayInits = <<>>
    /\ row = [s \in Session |-> "none"]
    /\ later = {}
    /\ cleanups = {} /\ tabs = {}
    /\ mishaps = {}

Mishap(kind) ==
    /\ kind \notin mishaps /\ Cardinality(mishaps) < MaxMishap
    /\ mishaps' = mishaps \cup {kind}
Goto(r, l) == phase' = [phase EXCEPT ![r] = l]
Current(r) == <<r, conn[r]>>
Live(r) == phase[r] \notin {"new", "exited"}
Connected(r) == phase[r] \in {"finding", "recovering", "open"}
Forget(f, c) == Restrict(f, DOMAIN f \ {c})
Put(f, c, x) == [d \in DOMAIN f \cup {c} |-> IF d = c THEN x ELSE f[d]]

------------------------------------------------------------------------------
(* The relay: _connectAsRelay *)

Start(r) ==
    /\ phase[r] = "new"
    /\ \/ /\ \A q \in Cli \ {r} : Live(q) => cwd[q] # cwd[r]
          /\ UNCHANGED mishaps
       \/ /\ \E q \in Cli \ {r} : Live(q) /\ cwd[q] = cwd[r]
          /\ Mishap("overlap")
    /\ conn' = [conn EXCEPT ![r] = 1]
    /\ Goto(r, "connecting")
    /\ UNCHANGED <<cwd, session, found, broken, clientSide, db, extension>>

\* After relayReconnectDelay
Reconnect(r) ==
    /\ phase[r] = "lost"
    /\ conn[r] < MaxSocket
    /\ \/ Current(r) \notin closing /\ UNCHANGED mishaps
       \/ /\ Current(r) \in closing /\ Mishap("late")
    /\ conn' = [conn EXCEPT ![r] = @ + 1]
    /\ Goto(r, "connecting")
    /\ UNCHANGED <<cwd, session, found, broken, clientSide, db, extension>>

\* relay_init names the session; on a connection that is gone it is lost
SayInit(r, s) ==
    relayInits' = IF Current(r) \in broken THEN relayInits ELSE Put(relayInits, Current(r), s)

Orphans == {s \in Session : row[s] = "orphaned"}

\* An UPDATE of the row; an orphaned one has the latest last_activity
SetRow(s, state) ==
    /\ row' = [row EXCEPT ![s] = state]
    /\ later' = {p \in later : s \notin {p[1], p[2]}}
                \cup IF state = "orphaned" THEN {s} \X (Orphans \ {s}) ELSE {}

\* Mutant: the project is not looked at
OrphansAnywhere(r) == IF SharedDb THEN Orphans ELSE {}

\* findOrphanedSession: those it chooses the latest of
OrphansFor(r) == {s \in Orphans : SharedDb /\ cwd[s] = cwd[r]}

\* on 'open': look for an orphaned session of the project
FindOrphan(r) ==
    /\ phase[r] = "finding"
    /\ \/ /\ OrphansFor(r) = {}
          /\ SayInit(r, session[r])
          /\ Goto(r, "open")
          /\ UNCHANGED found
       \/ /\ \E s \in OrphansFor(r) :
                /\ \A t \in OrphansFor(r) : <<t, s>> \notin later
                /\ found' = [found EXCEPT ![r] = s]
          /\ Goto(r, "recovering")
          /\ UNCHANGED relayInits
    /\ UNCHANGED <<cwd, session, conn, broken, browserClients, relayClients, closing, db,
                   extension, mishaps>>

\* recoverRelaySession: another relay may have done so since FindOrphan
Recover(r) ==
    LET s == found[r] IN
    /\ phase[r] = "recovering"
    /\ session' = [session EXCEPT ![r] = s]
    /\ SetRow(s, IF row[s] = "none" THEN "none" ELSE "recovered")
    /\ SayInit(r, s)
    /\ found' = [found EXCEPT ![r] = NoSession]
    /\ Goto(r, "open")
    /\ UNCHANGED <<cwd, conn, broken, browserClients, relayClients, closing, extension, mishaps>>

\* on 'close'
LoseRelay(r) ==
    /\ phase[r] = "open" /\ Current(r) \in broken
    /\ broken' = broken \ {Current(r)}
    /\ Goto(r, "lost")
    /\ UNCHANGED <<cwd, session, found, conn, clientSide, db, extension, mishaps>>

\* A forwarded command of the session: the extension makes its tab group
UseTab(r) ==
    /\ phase[r] = "open" /\ Current(r) \in DOMAIN relayClients \ broken
    /\ tabs' = tabs \cup {session[r]}
    /\ UNCHANGED <<relaySide, clientSide, db, cleanups, mishaps>>

\* The CLI exits: stdin closes or the parent is gone.  After a signal, shutdown
\* sends the cleanup itself first.
Exit(r) ==
    /\ phase[r] \in {"open", "lost"}
    /\ closing' = IF phase[r] = "open" /\ Current(r) \in browserClients \cup DOMAIN relayClients
                  THEN closing \cup {Current(r)} ELSE closing
    /\ broken' = broken \ {Current(r)}
    /\ \/ UNCHANGED cleanups
       \/ /\ phase[r] = "open" /\ Current(r) \notin broken
          /\ cleanups' = cleanups \cup {session[r]}
    /\ Goto(r, "exited")
    /\ UNCHANGED <<cwd, session, found, conn, browserClients, relayClients, relayInits, db,
                   tabs, mishaps>>

------------------------------------------------------------------------------
(* The primary: WebSocketBridge *)

\* _onConnection: every connection is a browser at first
AcceptRelay(r) ==
    /\ phase[r] = "connecting"
    /\ browserClients' = browserClients \cup {Current(r)}
    /\ Goto(r, "finding")
    /\ UNCHANGED <<cwd, session, found, conn, broken, relayClients, relayInits, closing, db,
                   extension, mishaps>>

\* Mutant: a session that was recovered is not saved again
SaveRelayOnce(s) ==
    /\ row' = [row EXCEPT ![s] = IF @ = "none" THEN "active" ELSE @]
    /\ UNCHANGED later

\* saveRelaySession
SaveRelay(s) == SetRow(s, "active")

\* relay_init
ReceiveRelayInit(c) ==
    /\ c \in DOMAIN relayInits
    /\ relayInits' = Forget(relayInits, c)
    /\ browserClients' = browserClients \ {c}
    /\ relayClients' = IF c \in browserClients THEN Put(relayClients, c, relayInits[c])
                       ELSE relayClients
    /\ SaveRelay(relayInits[c])
    /\ UNCHANGED <<relaySide, closing, extension, mishaps>>

\* The connection is lost: each end will be told
Drop(r) ==
    /\ Connected(r) /\ Current(r) \notin broken \cup closing
    /\ broken' = broken \cup {Current(r)}
    /\ closing' = closing \cup {Current(r)}
    /\ UNCHANGED <<phase, cwd, session, found, conn, browserClients, relayClients, relayInits,
                   db, extension, mishaps>>

\* markRelayOrphaned
MarkOrphaned(s) ==
    \/ row[s] = "none" /\ UNCHANGED db
    \/ row[s] # "none" /\ SetRow(s, "orphaned")

\* Mutant: the entry is deleted before it is looked up
CloseUnseen(c) ==
    /\ c \in closing
    /\ closing' = closing \ {c}
    /\ browserClients' = browserClients \ {c}
    /\ relayClients' = Forget(relayClients, c)
    /\ relayInits' = Forget(relayInits, c)
    /\ UNCHANGED <<relaySide, db, extension, mishaps>>

\* on 'close': a relay's session is orphaned and its tabs are to be closed
Close(c) ==
    /\ c \in closing
    /\ closing' = closing \ {c}
    /\ browserClients' = browserClients \ {c}
    /\ relayClients' = Forget(relayClients, c)
    /\ relayInits' = Forget(relayInits, c)
    /\ \/ /\ c \in DOMAIN relayClients
          /\ MarkOrphaned(relayClients[c])
          /\ cleanups' = cleanups \cup {relayClients[c]}
       \/ c \notin DOMAIN relayClients /\ UNCHANGED <<db, cleanups>>
    /\ UNCHANGED <<relaySide, tabs, mishaps>>

\* _checkHeartbeats: the entry is deleted at once, the close event comes later
Evict(c) ==
    /\ c \in DOMAIN relayClients
    /\ Mishap("evict")
    /\ relayClients' = Forget(relayClients, c)
    /\ closing' = closing \cup {c}
    /\ broken' = broken \cup {d \in {c} : Connected(d[1]) /\ Current(d[1]) = d}
    /\ UNCHANGED <<phase, cwd, session, found, conn, browserClients, relayInits, db, extension>>

\* cleanupExpiredRelaySessions
ExpireOrphan(s) ==
    /\ row[s] = "orphaned"
    /\ SetRow(s, "none")
    /\ UNCHANGED <<relaySide, clientSide, extension, mishaps>>

\* The extension: handleSessionCleanup
HandleCleanup(s) ==
    /\ s \in cleanups
    /\ cleanups' = cleanups \ {s}
    /\ tabs' = tabs \ {s}
    /\ UNCHANGED <<relaySide, clientSide, db, mishaps>>

\* A group without a command for half an hour
CloseStale(s) ==
    /\ s \in tabs
    /\ tabs' = tabs \ {s}
    /\ UNCHANGED <<relaySide, clientSide, db, cleanups, mishaps>>

------------------------------------------------------------------------------

RelayStep(r) == FindOrphan(r) \/ Recover(r) \/ LoseRelay(r) \/ AcceptRelay(r)
DeliverSession ==
    \/ \E c \in Socket : ReceiveRelayInit(c) \/ Close(c)
    \/ \E s \in Session : HandleCleanup(s)

SessionNext ==
    \/ \E r \in Cli :
          RelayStep(r) \/ Start(r) \/ Reconnect(r) \/ UseTab(r) \/ Exit(r) \/ Drop(r)
    \/ \E c \in Socket : Evict(c)
    \/ \E s \in Session : ExpireOrphan(s) \/ CloseStale(s)
    \/ DeliverSession

SessionSpec == SessionInit /\ [][SessionNext]_sessionVars

\* The primary's event loop goes on
SessionFairSpec == SessionSpec /\ \A c \in Socket : WF_sessionVars(Close(c))

------------------------------------------------------------------------------

\* Every variable has its type; of two orphaned rows one is the later.
SessionTypeOK ==
    /\ phase \in [Cli -> Phase]
    /\ cwd \in [Cli -> Directory]
    /\ session \in [Cli -> Session]
    /\ found \in [Cli -> Session \cup {NoSession}]
    /\ conn \in [Cli -> 0 .. MaxSocket]
    /\ broken \subseteq Socket /\ browserClients \subseteq Socket /\ closing \subseteq Socket
    /\ DOMAIN relayClients \subseteq Socket /\ Range(relayClients) \subseteq Session
    /\ DOMAIN relayInits \subseteq Socket /\ Range(relayInits) \subseteq Session
    /\ browserClients \cap DOMAIN relayClients = {}
    /\ row \in [Session -> RowState]
    /\ later \subseteq Orphans \X Orphans
    /\ \A s, t \in Orphans : <<s, t>> \in later <=> s # t /\ <<t, s>> \notin later
    /\ cleanups \subseteq Session /\ tabs \subseteq Session
    /\ mishaps \subseteq {"overlap", "late", "evict"}

Registered(r) == phase[r] = "open" /\ Current(r) \in DOMAIN relayClients \ (broken \cup closing)

\* Two relays never work in the same session, so neither sees or closes the
\* other's tabs (server.js:80, "Unique per CLI instance"), as long as a project
\* has one relay at a time.
SessionsDistinct ==
    "overlap" \notin mishaps =>
        \A r, q \in Cli :
            r # q /\ phase[r] = "open" /\ phase[q] = "open" => session[r] # session[q]

\* The row of a session in use is active: nobody else will recover it, and it
\* does not expire (context-manager.js:101-140).
LiveNotOrphaned ==
    mishaps \subseteq {"evict"} =>
        \A r \in Cli : Registered(r) => row[session[r]] = "active"

\* A session_cleanup does not close the tabs of a session that a connected
\* relay works in (server.js:1399, "tab group preserved").
\* Does not hold: README, section 4.
TabsKept ==
    [][\A s \in tabs : HandleCleanup(s) =>
          \A r \in Cli : Registered(r) => session[r] # s]_sessionVars

\* The row of a relay that has exited does not stay active, where nobody finds
\* it and nothing removes it, unless another relay has taken the session over
\* or the primary has evicted a connection (websocket-bridge.js:83, "When a
\* relay disconnects, emit event for recovery handling").
RowReleased ==
    \A r \in Cli :
        phase[r] = "exited" ~> \/ row[session[r]] # "active"
                               \/ \E q \in Cli \ {r} : session[q] = session[r]
                               \/ "evict" \in mishaps
==============================================================================
