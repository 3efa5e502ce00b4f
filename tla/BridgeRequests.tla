--------------------------- MODULE BridgeRequests ---------------------------
(***************************************************************************)
(* Tool calls through mcp-servers/browser-bridge.  The primary process     *)
(* (lib/websocket-bridge.js) serves calls of its own CLI and those that    *)
(* relays (server.js) forward to it: it waits for a browser if there is    *)
(* none, elects one Chrome, sends it the command, and matches the answer   *)
(* by request id, or times out.  The Chromes run extension/background.js,  *)
(* whose worker executes the command while its connection may be replaced, *)
(* evicted or lost.                                                        *)
(*                                                                         *)
(* The two ends of a connection change in separate steps; a step is one    *)
(* event handler of one process.  Sessions and tabs: RelaySessions.        *)
(***************************************************************************)
EXTENDS Integers, Sequences, SequencesExt, FiniteSetsExt

CONSTANTS
    Chrome,     \* the Chromes with the extension
    Keeper,     \* those of them whose copy of it is named "(Keeper)"
    Relay,      \* the relay processes
    Primary,    \* the process that owns the port
    Call,       \* the tool calls
    None,       \* no connection
    MaxConn,    \* bound: connections of one peer at a time
    MaxFault    \* bound: everything marked Fault below, together

ASSUME KeeperAssumption == Keeper \subseteq Chrome
ASSUME PeerAssumption == Chrome \cap Relay = {} /\ Primary \notin Relay
ASSUME BoundAssumption == MaxConn \in Nat \ {0} /\ MaxFault \in Nat
ASSUME NoneAssumption == None \notin (Chrome \cup Relay) \X (1 .. MaxConn)

Peer == Chrome \cup Relay
Conn == Peer \X (1 .. MaxConn)

VARIABLES
    alive,     \* there is a primary
    \* a connection as its peer sees it
    cur,       \* the extension's ws, or _relayWs
    opened,    \* connections whose open event the peer has had
    dying,     \* connections whose close event the peer will still have
    ping,      \* per Chrome: the keepalive timer runs
    \* as the primary sees it
    socks,     \* those with readyState OPEN
    browsers,  \* browserClients, in the order they connected
    keepers,   \* those of them that have said hello as a keeper
    relays,    \* relayClients
    ends,      \* connections whose close event the primary will still have
    \* on the way
    shut,      \* connections over which nothing reaches the peer any more
    inits,     \* hello and relay_init messages
    inbox,     \* commands: call and connection
    running,   \* commands being executed: call and Chrome
    answers,   \* answers: call and connection
    reply,     \* per call: the primary's answer to the relay, or none
    \* the calls
    by,        \* the process that made the call
    via,       \* the connection over which it was forwarded
    told,      \* what the caller knows: none, pending or its outcome
    job,       \* its state at the primary
    \* history
    ran,       \* how often a Chrome has begun to execute it
    lost,      \* calls of which something was lost with a connection that had been
               \* broken, killed, replaced by the extension or evicted by the
               \* primary; for which a timer fired too early; or whose command went
               \* to a relay
    faults

peerSide == <<cur, opened, dying, ping>>
primarySide == <<socks, browsers, keepers, relays, ends>>
transit == <<shut, inits, inbox, running, answers, reply>>
calls == <<by, via, told, job>>
history == <<ran, lost>>
vars == <<alive, peerSide, primarySide, transit, calls, history, faults>>

Outcome == {"result", "timeout", "noclient", "lost", "offline", "gone"}

Init ==
    /\ alive = TRUE
    /\ cur = [p \in Peer |-> None] /\ ping = [x \in Chrome |-> FALSE]
    /\ opened = {} /\ dying = {} /\ shut = {}
    /\ socks = {} /\ browsers = <<>> /\ keepers = {} /\ relays = {} /\ ends = {}
    /\ inits = {} /\ inbox = {} /\ running = {} /\ answers = {}
    /\ reply = [k \in Call |-> "none"]
    /\ by = [k \in Call |-> Primary] /\ via = [k \in Call |-> None]
    /\ told = [k \in Call |-> "none"] /\ job = [k \in Call |-> "none"]
    /\ ran = [k \in Call |-> 0]
    /\ lost = {} /\ faults = 0

Fault == faults < MaxFault /\ faults' = faults + 1
Steady == UNCHANGED faults
Without(c) ==
    IF c \in Range(browsers)
    THEN RemoveAt(browsers, CHOOSE i \in DOMAIN browsers : browsers[i] = c)
    ELSE browsers
Calls(messages) == {m[1] : m \in messages}
Over(c) == {m \in answers : m[2] = c}

\* Nothing reaches the peers of cs any more; what was on the way is lost
Cut(cs) ==
    LET gone == {m \in inbox : m[2] \in cs} IN
    /\ shut' = shut \cup cs
    /\ inbox' = inbox \ gone
    /\ lost' = lost \cup Calls(gone)

------------------------------------------------------------------------------
(* Electing a Chrome, sending a command, telling the caller *)

\* Connections whose messages the primary handles: also one it is closing, and
\* each in the order they were sent
Heard == (socks \cup ends) \ inits

\* The last in seq of the connections cs, if one is there
Newest(seq, cs) ==
    {seq[i] : i \in {j \in DOMAIN seq : /\ seq[j] \in cs
                                       /\ \A l \in DOMAIN seq : seq[l] \in cs => l <= j}}

\* Mutant of Elect: every open connection gets the command, as it used to be
FanOut(seq, open) == Range(seq) \cap open

\* _selectTargetClient: a keeper before the others, the latest first
Elect(seq, open) ==
    LET known == Newest(seq, open \cap keepers) IN
    IF known # {} THEN known ELSE Newest(seq, open)
Elected == Elect(browsers, socks)

\* The primary sends the commands of the calls ks to each of cs.  They are lost
\* where it takes a connection for OPEN that has ended at the other end.
Send(ks, cs) ==
    /\ job' = [k \in Call |-> IF k \in ks THEN "pending" ELSE job[k]]
    /\ inbox' = inbox \cup (ks \X (cs \ shut))
    /\ lost' = IF cs \subseteq shut \cap socks THEN lost \cup ks ELSE lost

\* Nothing the primary says of call k reaches the relay
Unheard(k) == by[k] # Primary /\ via[k] \notin socks \ shut
Lose(k, when) == lost' = IF when THEN lost \cup {k} ELSE lost

\* What the primary knows of call k's outcome goes to its CLI or to the relay
Tell(k, outcome) ==
    /\ job' = [job EXCEPT ![k] = "over"]
    /\ \/ /\ by[k] = Primary
          /\ told' = [told EXCEPT ![k] = outcome]
          /\ UNCHANGED reply
       \/ /\ by[k] # Primary /\ via[k] \in socks \ shut
          /\ reply' = [reply EXCEPT ![k] = outcome]
          /\ UNCHANGED told
       \/ /\ by[k] # Primary /\ via[k] \notin socks \ shut
          /\ UNCHANGED <<told, reply>>

\* broadcast and relay_forward, up to the command: wait for a browser if none
\* is connected, or elect one
Serve(k) ==
    \/ /\ browsers = <<>>
       /\ job' = [job EXCEPT ![k] = "waiting"]
       /\ UNCHANGED <<inbox, reply, lost>>
    \/ /\ Elected # {}
       /\ Send({k}, Elected)
       /\ UNCHANGED reply

------------------------------------------------------------------------------
(* The calls *)

\* bridge.broadcast in the primary
CallHere(k) ==
    /\ told[k] = "none" /\ alive
    /\ \/ Serve(k) /\ told' = [told EXCEPT ![k] = "pending"]
       \/ browsers # <<>> /\ Elected = {} /\ Tell(k, "noclient") /\ Lose(k, Unheard(k)) /\ UNCHANGED inbox
    /\ UNCHANGED <<alive, peerSide, primarySide, shut, inits, running, answers, reply,
                   by, via, ran, faults>>

\* bridge.broadcast as _connectAsRelay overrides it
CallThere(k, r) ==
    /\ told[k] = "none"
    /\ by' = [by EXCEPT ![k] = r]
    /\ \/ /\ cur[r] \in opened
          /\ told' = [told EXCEPT ![k] = "pending"]
          /\ via' = [via EXCEPT ![k] = cur[r]]
          /\ job' = [job EXCEPT ![k] = IF cur[r] \in shut THEN "over" ELSE "forward"]
          /\ Lose(k, cur[r] \in shut)
       \/ /\ cur[r] \notin opened
          /\ told' = [told EXCEPT ![k] = "offline"]
          /\ UNCHANGED <<via, job, lost>>
    /\ UNCHANGED <<alive, peerSide, primarySide, transit, ran, faults>>

\* relay_forward; messages of a connection arrive in order
Forward(k) ==
    /\ job[k] = "forward" /\ via[k] \in Heard
    /\ \/ Serve(k) /\ UNCHANGED told
       \/ browsers # <<>> /\ Elected = {} /\ Tell(k, "noclient") /\ Lose(k, Unheard(k)) /\ UNCHANGED inbox
    /\ UNCHANGED <<alive, peerSide, primarySide, shut, inits, running, answers,
                   by, via, ran, faults>>

\* _waitForBrowserClient gives up
NoBrowser(k) ==
    /\ job[k] = "waiting"
    /\ Tell(k, "noclient") /\ Lose(k, Unheard(k))
    /\ UNCHANGED <<alive, peerSide, primarySide, shut, inits, inbox, running, answers,
                   by, via, ran, faults>>

\* Nothing of call k is left that could become an answer at the primary
Hopeless(k) == k \notin Calls(inbox \cup running \cup answers)

\* A timer fires when there is nothing to wait for any more, or too early
Late(hopeless) ==
    \/ hopeless /\ Steady
    \/ ~hopeless /\ Fault

\* The primary's timer for a command
TimeOut(k) ==
    /\ job[k] = "pending"
    /\ Late(Hopeless(k))
    /\ Tell(k, "timeout") /\ Lose(k, ~Hopeless(k) \/ Unheard(k))
    /\ UNCHANGED <<alive, peerSide, primarySide, shut, inits, inbox, running, answers,
                   by, via, ran>>

\* The relay's own timer
RelayTimeOut(k) ==
    /\ told[k] = "pending" /\ by[k] # Primary
    /\ LET idle == Hopeless(k) /\ reply[k] = "none" /\ job[k] \in {"pending", "over"} IN
         /\ Late(idle)
         /\ Lose(k, ~idle)
    /\ told' = [told EXCEPT ![k] = "timeout"]
    /\ UNCHANGED <<alive, peerSide, primarySide, transit, by, via, job, ran>>

\* The relay hears from the primary
Hear(k) ==
    /\ reply[k] # "none" /\ via[k] \notin shut
    /\ told' = IF told[k] = "pending" THEN [told EXCEPT ![k] = reply[k]] ELSE told
    /\ reply' = [reply EXCEPT ![k] = "none"]
    /\ UNCHANGED <<alive, peerSide, primarySide, shut, inits, inbox, running, answers,
                   by, via, job, history, faults>>

------------------------------------------------------------------------------
(* Executing a command: handleServerMessage.  A relay ignores it.  Next     *)
(* takes the messages <<k, c>> from inbox and answers, <<k, x>> from running. *)

Deliver(k, c) ==
    /\ c \in opened
    /\ inbox' = inbox \ {<<k, c>>}
    /\ \/ /\ c[1] \in Chrome
          /\ running' = running \cup {<<k, c[1]>>}
          /\ ran' = [ran EXCEPT ![k] = @ + 1]
          /\ UNCHANGED lost
       \/ /\ c[1] \in Relay
          /\ lost' = lost \cup {k}
          /\ UNCHANGED <<running, ran>>
    /\ UNCHANGED <<alive, peerSide, primarySide, shut, inits, answers, reply, calls, faults>>

\* Mutant of Ws: a connection the worker once had
FirstWs(x) == <<x, 1>>

\* The global ws, by the time the command is done
Ws(x) == cur[x]

\* sendToServer: over that connection, if it is open.  The answer is lost while the
\* Chrome has none.
Finish(k, x) ==
    /\ running' = running \ {<<k, x>>}
    /\ answers' = answers \cup ({<<k, Ws(x)>>} \cap ({k} \X (opened \ shut)))
    /\ Lose(k, cur[x] \notin opened \ shut)
    /\ UNCHANGED <<alive, peerSide, primarySide, shut, inits, inbox, reply, calls,
                   ran, faults>>

\* pendingRequests has the id, wherever the answer comes from
Awaited(k, c) == job[k] = "pending"

ReceiveAnswer(k, c) ==
    /\ c \in Heard
    /\ answers' = answers \ {<<k, c>>}
    /\ \/ Awaited(k, c) /\ Tell(k, "result") /\ Lose(k, Unheard(k))
       \/ ~Awaited(k, c) /\ UNCHANGED <<told, job, reply, lost>>
    /\ UNCHANGED <<alive, peerSide, primarySide, shut, inits, inbox, running,
                   by, via, ran, faults>>

------------------------------------------------------------------------------
(* Connections: the peers *)

InUse ==
    socks \cup ends \cup dying \cup relays \cup inits \cup Range(browsers) \cup Range(cur)
    \cup {m[2] : m \in answers}
    \cup {via[k] : k \in {j \in Call : told[j] = "pending" \/ job[j] \notin {"none", "over"}}}
Unused(p) == {c \in Conn : c[1] = p} \ InUse

\* connect: the extension's alarm and timer, the relay's timer after a close
Dial(p) ==
    /\ alive /\ cur[p] = None
    /\ p \in Relay => \A c \in dying : c[1] # p
    /\ Unused(p) # {}
    /\ LET c == CHOOSE d \in Unused(p) : TRUE IN
         cur' = [cur EXCEPT ![p] = c] /\ shut' = shut \ {c}
    /\ UNCHANGED <<alive, opened, dying, ping, primarySide, inits, inbox, running, answers,
                   reply, calls, history, faults>>

\* on open: hello, or relay_init
Opens(p) ==
    LET c == cur[p] IN
    /\ c \in socks \ (opened \cup shut)
    /\ opened' = opened \cup {c} /\ inits' = inits \cup {c}
    /\ ping' = [x \in Chrome |-> x = p \/ ping[x]]
    /\ UNCHANGED <<alive, cur, dying, primarySide, shut, inbox, running, answers, reply,
                   calls, history, faults>>

\* on close.  The extension stops the keepalive timer, which by now may be that
\* of the next connection; the relay rejects all its calls.
PeerClosed(c) ==
    LET p == c[1]
        rejected == {k \in Call : told[k] = "pending" /\ by[k] = p} IN
    /\ c \in dying
    /\ dying' = dying \ {c} /\ opened' = opened \ {c}
    /\ cur' = IF cur[p] = c THEN [cur EXCEPT ![p] = None] ELSE cur
    /\ ping' = [x \in Chrome |-> x # p /\ ping[x]]
    /\ told' = [k \in Call |-> IF k \in rejected THEN "lost" ELSE told[k]]
    /\ reply' = [k \in Call |-> IF by[k] = p THEN "none" ELSE reply[k]]
    /\ UNCHANGED <<alive, primarySide, shut, inits, inbox, running, answers, by, via, job,
                   history, faults>>

\* The alarm takes an idle socket for a dead one (the primary's pings are protocol
\* frames and never reach onmessage), or the user presses Reconnect
Replace(x) ==
    LET c == cur[x] IN
    /\ Fault
    /\ c \in opened \ dying /\ Unused(x) # {}
    /\ LET d == CHOOSE d \in Unused(x) : TRUE
           gone == {m \in inbox : m[2] = c} IN
         /\ cur' = [cur EXCEPT ![x] = d]
         /\ shut' = (shut \cup {c}) \ {d}
         /\ inbox' = inbox \ gone /\ lost' = lost \cup Calls(gone)
    /\ opened' = opened \ {c} /\ dying' = dying \cup {c}
    /\ ends' = ends \cup {c}
    /\ UNCHANGED <<alive, ping, socks, browsers, keepers, relays, inits, running, answers,
                   reply, calls, ran>>

\* Chrome ends the extension's worker
Killed(x) ==
    LET mine == {m \in running : m[2] = x} IN
    /\ Fault
    /\ cur[x] # None
    /\ cur' = [cur EXCEPT ![x] = None] /\ ping' = [ping EXCEPT ![x] = FALSE]
    /\ opened' = opened \ {cur[x]} /\ dying' = {c \in dying : c[1] # x}
    /\ ends' = ends \cup ({cur[x]} \cap socks)
    /\ shut' = shut \cup {cur[x]}
    /\ inbox' = {m \in inbox : m[2] # cur[x]} /\ running' = running \ mine
    /\ lost' = lost \cup Calls(mine \cup {m \in inbox : m[2] = cur[x]})
    /\ UNCHANGED <<alive, socks, browsers, keepers, relays, inits, answers, reply, calls,
                   ran>>

------------------------------------------------------------------------------
(* Connections: the primary *)

\* _onConnection: every connection is a browser at first, and the next browser
\* is what the waiting calls wait for
Accept(c) ==
    LET waiting == {k \in Call : job[k] = "waiting"} IN
    /\ alive /\ cur[c[1]] = c /\ c \notin socks \cup opened \cup shut
    /\ socks' = socks \cup {c} /\ browsers' = Append(browsers, c)
    /\ Send(waiting, Elect(Append(browsers, c), socks \cup {c}))
    /\ UNCHANGED <<alive, peerSide, keepers, relays, ends, shut, inits, running, answers,
                   reply, by, via, told, ran, faults>>

\* hello, relay_init: of a connection that has not been evicted since
ReceiveInit(c) ==
    /\ c \in inits /\ c \in socks \cup ends
    /\ inits' = inits \ {c}
    /\ \/ /\ c[1] \in Chrome
          /\ keepers' = IF c[1] \in Keeper /\ c \in Range(browsers) THEN keepers \cup {c} ELSE keepers
          /\ UNCHANGED <<browsers, relays>>
       \/ /\ c[1] \in Relay
          /\ browsers' = Without(c)
          /\ relays' = IF c \in Range(browsers) THEN relays \cup {c} ELSE relays
          /\ UNCHANGED keepers
    /\ UNCHANGED <<alive, peerSide, socks, ends, shut, inbox, running, answers, reply,
                   calls, history, faults>>

\* The closing handshake has begun: readyState is no longer OPEN
Closing(c) ==
    /\ c \in ends \cap socks
    /\ socks' = socks \ {c}
    /\ UNCHANGED <<alive, peerSide, browsers, keepers, relays, ends, transit, calls,
                   history, faults>>

\* on close; pending commands stay until their timer
Closed(c) ==
    LET unread == {k \in Call : job[k] = "forward" /\ via[k] = c} IN
    /\ c \in ends
    /\ ends' = ends \ {c} /\ socks' = socks \ {c} /\ inits' = inits \ {c}
    /\ browsers' = Without(c) /\ keepers' = keepers \ {c} /\ relays' = relays \ {c}
    /\ answers' = answers \ Over(c)
    /\ lost' = lost \cup Calls(Over(c)) \cup unread
    /\ job' = [k \in Call |-> IF k \in unread THEN "over" ELSE job[k]]
    /\ UNCHANGED <<alive, peerSide, shut, inbox, running, reply, by, via, told,
                   ran, faults>>

\* Mutant of Silent: only sockets that do not answer pings, lastPing, count
SilentSocket(c) == cur[c[1]] # c

\* No keepalive for appMsgTimeout: it is sent on the extension's present
\* connection, while its timer runs
Silent(c) == cur[c[1]] # c \/ (c[1] \in Chrome /\ c \in opened /\ ~ping[c[1]])

\* _checkHeartbeats: the entry goes at once, the close event comes later
Drops(c) ==
    /\ socks' = socks \ {c} /\ ends' = ends \cup {c}
    /\ dying' = dying \cup ({c} \cap Range(cur))
    /\ Cut({c})
    /\ UNCHANGED <<alive, cur, opened, ping, inits, running, answers, reply, calls,
                   ran>>

EvictBrowser(c) ==
    /\ c \in Range(browsers) /\ Silent(c)
    /\ browsers' = Without(c) /\ keepers' = keepers \ {c}
    /\ Drops(c) /\ Steady /\ UNCHANGED relays

\* No tool call for relayIdleTtl, or no pong
EvictRelay(c) ==
    /\ c \in relays
    /\ relays' = relays \ {c}
    /\ Drops(c) /\ Fault /\ UNCHANGED <<browsers, keepers>>

\* The connection breaks: each end will be told
Break(c) ==
    /\ c \in socks \ ends /\ Fault
    /\ Cut({c})
    /\ ends' = ends \cup {c} /\ dying' = dying \cup ({c} \cap Range(cur))
    /\ UNCHANGED <<alive, cur, opened, ping, socks, browsers, keepers, relays, inits,
                   running, answers, reply, calls, ran>>

\* The primary ends, with its own calls; the next CLI to start takes the port
Dies ==
    LET mine == {k \in Call : told[k] = "pending" /\ by[k] = Primary} IN
    /\ alive /\ Fault
    /\ alive' = FALSE
    /\ socks' = {} /\ browsers' = <<>> /\ keepers' = {} /\ relays' = {} /\ ends' = {}
    /\ shut' = Conn /\ dying' = dying \cup (Range(cur) \ {None})
    /\ inits' = {} /\ inbox' = {} /\ answers' = {}
    /\ reply' = [k \in Call |-> "none"]
    /\ told' = [k \in Call |-> IF k \in mine THEN "gone" ELSE told[k]]
    /\ job' = [k \in Call |-> IF job[k] = "none" THEN "none" ELSE "over"]
    /\ lost' = lost \cup {k \in Call : told[k] = "pending"}
    /\ UNCHANGED <<cur, opened, ping, running, by, via, ran>>

Starts ==
    /\ ~alive /\ alive' = TRUE
    /\ UNCHANGED <<peerSide, primarySide, transit, calls, history, faults>>

------------------------------------------------------------------------------

\* What the event loops, the timers and the network do by themselves
System ==
    \/ \E c \in Conn : \/ Closed(c) \/ Closing(c) \/ PeerClosed(c) \/ ReceiveInit(c)
                       \/ Accept(c) \/ EvictBrowser(c)
    \/ \E p \in Peer : Opens(p) \/ Dial(p)
    \/ \E k \in Call : Forward(k) \/ NoBrowser(k) \/ TimeOut(k) \/ RelayTimeOut(k) \/ Hear(k)
    \/ \E m \in inbox : Deliver(m[1], m[2])
    \/ \E m \in running : Finish(m[1], m[2])
    \/ \E m \in answers : ReceiveAnswer(m[1], m[2])

Next ==
    \/ System
    \/ \E k \in Call : CallHere(k) \/ \E r \in Relay : CallThere(k, r)
    \/ \E x \in Chrome : Replace(x) \/ Killed(x)
    \/ \E c \in Conn : EvictRelay(c) \/ Break(c)
    \/ Dies \/ Starts

Spec == Init /\ [][Next]_vars

\* The event loops go on.  Nobody has to call, and no new primary has to start.
FairSpec == Spec /\ WF_vars(System)

------------------------------------------------------------------------------

TypeOK ==
    /\ alive \in BOOLEAN
    /\ cur \in [Peer -> Conn \cup {None}] /\ ping \in [Chrome -> BOOLEAN]
    /\ opened \subseteq Conn /\ dying \subseteq Conn /\ shut \subseteq Conn
    /\ socks \subseteq Conn /\ ends \subseteq Conn /\ inits \subseteq Conn
    /\ IsInjective(browsers) /\ Range(browsers) \subseteq Conn
    /\ keepers \subseteq Range(browsers) /\ relays \subseteq Conn \ Range(browsers)
    /\ inbox \subseteq Call \X (Conn \ shut) /\ running \subseteq Call \X Chrome
    /\ answers \subseteq Call \X Conn
    /\ reply \in [Call -> Outcome \cup {"none"}]
    /\ by \in [Call -> Relay \cup {Primary}] /\ via \in [Call -> Conn \cup {None}]
    /\ told \in [Call -> Outcome \cup {"none", "pending"}]
    /\ job \in [Call -> {"none", "forward", "waiting", "pending", "over"}]
    /\ ran \in [Call -> Nat]
    /\ lost \subseteq Call
    /\ faults \in 0 .. MaxFault

\* A command is executed at most once and in one Chrome, although Chromes and
\* their connections come and go while it waits and runs (websocket-bridge.js,
\* "the former send-to-ALL broadcast fan-out, which caused every connected
\* extension to EXECUTE mutation commands").
ExecutedOnce == \A k \in Call : ran[k] <= 1

\* An executed command's answer finds its caller, over whichever connection the
\* extension has by then and through the relay.  A call times out only if its command
\* or answer, or what the relay and the primary say, met a connection that had ended,
\* or the answer was ready while its Chrome had none open; if a timer was too short; or
\* if the command went to a relay that had not said what it is.  Connections end by the
\* network and with processes; but the extension also replaces sound ones, and the
\* primary evicts them (README, section 4).
TimeoutIsLoss == \A k \in Call : told[k] = "timeout" => k \in lost

\* After whatever was killed, evicted or replaced, every Chrome is connected and
\* kept alive again, unless there is no primary.
Serving(x) == cur[x] \in (Range(browsers) \cap socks) \ shut /\ ping[x]
Reconnects == <>[]~alive \/ \A x \in Chrome : []<>Serving(x)

\* _waitForBrowserClient: "Wait up to timeoutMs for at least one non-relay
\* browser client to connect".  A command never goes to a relay.
\* Does not hold: README, section 4.
TargetIsBrowser == \A m \in inbox : m[2][1] \in Chrome

\* "Layer 1: periodic ping": an extension whose connection is open sends
\* keepalives.  Does not hold: README, section 4.
OpenIsPinged == \A x \in Chrome : cur[x] \in opened \ shut => ping[x]
==============================================================================
