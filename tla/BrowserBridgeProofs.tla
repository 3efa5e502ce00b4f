-------------------------- MODULE BrowserBridgeProofs --------------------------
(***************************************************************************)
(* Theorems about the two modules of the browser bridge, BridgeRequests    *)
(* and RelaySessions: for any number of Chromes, relays, calls, project    *)
(* directories, connections, faults and mishaps.                           *)
(***************************************************************************)
EXTENDS BridgeRequests, RelaySessions, TLAPS

(* BridgeRequests *)

\* The types of what a call goes through
CallTypes ==
    /\ \A m \in inbox \cup running \cup answers : m[1] \in Call /\ m = <<m[1], m[2]>>
    /\ reply \in [Call -> Outcome \cup {"none"}]
    /\ by \in [Call -> Relay \cup {Primary}]
    /\ told \in [Call -> Outcome \cup {"none", "pending"}]
    /\ job \in [Call -> {"none", "forward", "waiting", "pending", "over"}]
    /\ ran \in [Call -> Nat]

\* A call's command is sent once, to one connection; and once it is executed, it
\* is nowhere on the way any more.
OnceInv ==
    /\ \A k \in Call :
         /\ told[k] = "none" => job[k] = "none" /\ by[k] = Primary
         /\ job[k] \in {"none", "forward", "waiting"} => ran[k] = 0 /\ \A m \in inbox : m[1] # k
         /\ ran[k] <= 1
    /\ \A m \in inbox : ran[m[1]] = 0
    /\ \A m, w \in inbox : m[1] = w[1] => m = w

\* Something of the call is still on its way to the primary.
OnTheWay(k) ==
    \/ \E m \in inbox : m[1] = k
    \/ \E m \in running : m[1] = k
    \/ \E m \in answers : m[1] = k

\* Whatever the primary or a relay waits for is on its way, or known as lost.
LossOK(k) ==
    /\ job[k] = "pending" => k \in lost \/ OnTheWay(k)
    /\ reply[k] = "timeout" => k \in lost
    /\ by[k] # Primary /\ told[k] = "pending" /\ job[k] = "over" /\ reply[k] = "none" => k \in lost
    /\ told[k] = "timeout" => k \in lost
LossInv == \A k \in Call : LossOK(k)

\* browserClients is a list of connections
ListOK == browsers \in Seq(Conn)

CallInv == ListOK /\ CallTypes /\ OnceInv /\ LossInv

------------------------------------------------------------------------------

\* _selectTargetClient returns one connection at most, an open one.
LEMMA OneElected ==
    ASSUME NEW seq \in Seq(Conn), NEW open
    PROVE  /\ Elect(seq, open) \subseteq open
           /\ \A c, d \in Elect(seq, open) : c = d
<1>1. ASSUME NEW cs
      PROVE  Newest(seq, cs) \subseteq cs /\ \A c, d \in Newest(seq, cs) : c = d
  <2>1. Newest(seq, cs) \subseteq cs
    BY DEF Newest
  <2>2. ASSUME NEW c \in Newest(seq, cs), NEW d \in Newest(seq, cs) PROVE c = d
    <3>1. PICK i \in DOMAIN seq :
              /\ c = seq[i] /\ seq[i] \in cs
              /\ \A l \in DOMAIN seq : seq[l] \in cs => l <= i
      BY DEF Newest
    <3>2. PICK j \in DOMAIN seq :
              /\ d = seq[j] /\ seq[j] \in cs
              /\ \A l \in DOMAIN seq : seq[l] \in cs => l <= j
      BY DEF Newest
    <3>3. i <= j /\ j <= i /\ i \in Int /\ j \in Int
      BY <3>1, <3>2
    <3>4. i = j
      BY <3>3
    <3> QED BY <3>1, <3>2, <3>4
  <2> QED BY <2>1, <2>2
<1> QED BY <1>1 DEF Elect

\* Commands go out over that connection, or are lost where it has ended.
LEMMA Sent ==
    ASSUME NEW ks \in SUBSET Call, NEW seq \in Seq(Conn), NEW open, open \cap shut \subseteq socks,
           Send(ks, Elect(seq, open))
    PROVE  /\ job' = [k \in Call |-> IF k \in ks THEN "pending" ELSE job[k]]
           /\ \/ \E c : inbox' = inbox \cup (ks \X {c}) /\ lost' = lost
              \/ inbox' = inbox /\ lost' = lost \cup ks
<1> DEFINE cs == Elect(seq, open)
<1>1. cs \cap shut \subseteq socks /\ \A c, d \in cs : c = d
  BY OneElected
<1> HIDE DEF cs
<1>2. CASE cs \subseteq shut
  <2>1. cs \ shut = {} /\ cs \subseteq shut \cap socks
    BY <1>1, <1>2
  <2> QED BY <2>1 DEF Send, cs
<1>3. CASE ~(cs \subseteq shut)
  <2>1. PICK c \in cs : c \notin shut
    BY <1>3
  <2>2. cs \ shut = {c} /\ ~(cs \subseteq shut \cap socks)
    BY <1>1, <2>1
  <2> QED BY <2>2 DEF Send, cs
<1> QED BY <1>2, <1>3

\* What broadcast and relay_forward do before there is an answer.
LEMMA Served ==
    ASSUME NEW k \in Call, Serve(k), ListOK,
           job \in [Call -> {"none", "forward", "waiting", "pending", "over"}]
    PROVE  /\ reply' = reply
           /\ \/ job' = [job EXCEPT ![k] = "waiting"] /\ inbox' = inbox /\ lost' = lost
              \/ /\ job' = [job EXCEPT ![k] = "pending"]
                 /\ \/ \E c : inbox' = inbox \cup {<<k, c>>} /\ lost' = lost
                    \/ inbox' = inbox /\ lost' = lost \cup {k}
<1>1. CASE Send({k}, Elected) /\ UNCHANGED reply
  <2>1. Send({k}, Elect(browsers, socks)) /\ browsers \in Seq(Conn) /\ socks \cap shut \subseteq socks
    BY <1>1 DEF Elected, ListOK
  <2>2. /\ job' = [j \in Call |-> IF j \in {k} THEN "pending" ELSE job[j]]
        /\ \/ \E c : inbox' = inbox \cup ({k} \X {c}) /\ lost' = lost
           \/ inbox' = inbox /\ lost' = lost \cup {k}
    BY <2>1, Sent
  <2>3. \A c : {k} \X {c} = {<<k, c>>}
    OBVIOUS
  <2> QED BY <1>1, <2>2, <2>3
<1> QED BY <1>1 DEF Serve

\* A new connection may be elected for the calls that wait.
LEMMA Woken ==
    ASSUME NEW c \in Conn, Accept(c), ListOK
    PROVE  \E ks \in SUBSET Call :
             /\ ks = {k \in Call : job[k] = "waiting"}
             /\ job' = [k \in Call |-> IF k \in ks THEN "pending" ELSE job[k]]
             /\ \/ \E d : inbox' = inbox \cup (ks \X {d}) /\ lost' = lost
                \/ inbox' = inbox /\ lost' = lost \cup ks
<1> DEFINE ks == {k \in Call : job[k] = "waiting"}
           seq == Append(browsers, c)
           open == socks \cup {c}
<1>1. seq \in Seq(Conn) /\ open \cap shut \subseteq socks /\ ks \in SUBSET Call
  BY DEF Accept, ListOK
<1>2. Send(ks, Elect(seq, open))
  BY DEF Accept
<1> HIDE DEF ks, seq, open
<1>3. /\ job' = [k \in Call |-> IF k \in ks THEN "pending" ELSE job[k]]
      /\ \/ \E d : inbox' = inbox \cup (ks \X {d}) /\ lost' = lost
         \/ inbox' = inbox /\ lost' = lost \cup ks
  BY <1>1, <1>2, Sent
<1> QED BY <1>1, <1>3 DEF ks

\* A list of connections stays one when a connection goes.
LEMMA WithoutType == ASSUME ListOK, NEW c PROVE Without(c) \in Seq(Conn)
<1>1. ASSUME NEW i \in DOMAIN browsers PROVE RemoveAt(browsers, i) \in Seq(Conn)
  <2>1. i \in 1 .. Len(browsers) /\ browsers \in Seq(Conn) /\ Len(browsers) \in Nat
    BY DEF ListOK
  <2>2. SubSeq(browsers, 1, i - 1) \in Seq(Conn)
    BY <2>1
  <2>3. SubSeq(browsers, i + 1, Len(browsers)) \in Seq(Conn)
    BY <2>1
  <2> QED BY <2>2, <2>3 DEF RemoveAt
<1>2. CASE c \in Range(browsers)
  <2>1. \E i \in DOMAIN browsers : browsers[i] = c
    BY <1>2 DEF Range
  <2>2. (CHOOSE i \in DOMAIN browsers : browsers[i] = c) \in DOMAIN browsers
    BY <2>1
  <2> QED BY <1>1, <1>2, <2>2 DEF Without
<1>3. CASE c \notin Range(browsers)
  BY <1>3 DEF Without, ListOK
<1> QED BY <1>2, <1>3

\* browserClients lists connections.
LEMMA ListStep == ListOK /\ [Next]_vars => ListOK'
<1> SUFFICES ASSUME ListOK, [Next]_vars PROVE ListOK'
  OBVIOUS
<1>1. ASSUME NEW c, browsers' = Without(c) PROVE ListOK'
  BY <1>1, WithoutType DEF ListOK
<1>2. ASSUME NEW c \in Conn, Accept(c) PROVE ListOK'
  BY <1>2 DEF Accept, ListOK
<1>3. ASSUME NEW c \in Conn, Closed(c) \/ EvictBrowser(c) PROVE ListOK'
  BY <1>1, <1>3 DEF Closed, EvictBrowser
<1>4. ASSUME NEW c \in Conn, ReceiveInit(c) PROVE ListOK'
  BY <1>1, <1>4 DEF ReceiveInit, ListOK
<1>5. ASSUME Dies PROVE ListOK'
  BY <1>5 DEF Dies, ListOK
<1>6. ASSUME NEW k \in Call,
             \/ CallHere(k) \/ Forward(k) \/ NoBrowser(k) \/ TimeOut(k) \/ RelayTimeOut(k) \/ Hear(k)
             \/ \E r \in Relay : CallThere(k, r)
      PROVE  ListOK'
  BY <1>6 DEF CallHere, CallThere, Forward, NoBrowser, TimeOut, RelayTimeOut, Hear, primarySide, ListOK
<1>7. ASSUME NEW m, Deliver(m[1], m[2]) \/ Finish(m[1], m[2]) \/ ReceiveAnswer(m[1], m[2])
      PROVE  ListOK'
  BY <1>7 DEF Deliver, Finish, ReceiveAnswer, primarySide, ListOK
<1>8. ASSUME NEW x, Opens(x) \/ Dial(x) \/ Replace(x) \/ Killed(x) PROVE ListOK'
  BY <1>8 DEF Opens, Dial, Replace, Killed, primarySide, ListOK
<1>9. ASSUME NEW c \in Conn, PeerClosed(c) \/ Closing(c) \/ EvictRelay(c) \/ Break(c) PROVE ListOK'
  BY <1>9 DEF PeerClosed, Closing, EvictRelay, Break, primarySide, ListOK
<1>10. CASE Starts \/ UNCHANGED vars
  BY <1>10 DEF Starts, vars, primarySide, ListOK
<1> QED
  BY <1>2, <1>3, <1>4, <1>5, <1>6, <1>7, <1>8, <1>9, <1>10 DEF Next, System

\* There is nothing to wait for when nothing is on its way.
LEMMA HopelessIs == \A k \in Call : Hopeless(k) <=> ~OnTheWay(k)
BY DEF Hopeless, OnTheWay, Calls

\* No call has been made yet.
LEMMA CallInit == Init => CallInv
BY DEF Init, CallInv, ListOK, CallTypes, OnceInv, LossInv, LossOK, OnTheWay, Outcome

\* Messages are messages, of calls and connections.
LEMMA TypesStep == ListOK /\ CallTypes /\ OnceInv /\ [Next]_vars => CallTypes'
<1> SUFFICES ASSUME ListOK, CallTypes /\ OnceInv, [Next]_vars PROVE CallTypes'
  OBVIOUS
<1>1. ASSUME NEW c \in Conn, Closed(c) PROVE CallTypes'
  BY <1>1 DEF Closed, Over, Calls, peerSide, CallTypes, Outcome
<1>2. ASSUME NEW c \in Conn, PeerClosed(c) PROVE CallTypes'
  BY <1>2 DEF PeerClosed, primarySide, history, CallTypes, Outcome
<1>3. ASSUME NEW c \in Conn, Accept(c) PROVE CallTypes'
  <2>1. PICK ks \in SUBSET Call :
            /\ ks = {k \in Call : job[k] = "waiting"}
            /\ job' = [k \in Call |-> IF k \in ks THEN "pending" ELSE job[k]]
            /\ \/ \E d : inbox' = inbox \cup (ks \X {d}) /\ lost' = lost
               \/ inbox' = inbox /\ lost' = lost \cup ks
    BY <1>3, Woken
  <2>2. UNCHANGED <<by, running, answers, ran, told, reply>>
    BY <1>3 DEF Accept
  <2> QED BY <2>1, <2>2 DEF CallTypes, Outcome
<1>4. ASSUME NEW c \in Conn, EvictBrowser(c) PROVE CallTypes'
  BY <1>4 DEF EvictBrowser, Drops, Cut, calls, Calls, CallTypes, Outcome
<1>5. ASSUME NEW k \in Call, Forward(k) PROVE CallTypes'
  <2>1. CASE Serve(k) /\ UNCHANGED told
    <3>1. /\ UNCHANGED <<by, running, answers, ran>>
          /\ job[k] \in {"none", "forward"}
          /\ told' = told /\ told[k] # "none"
      BY <1>5, <2>1 DEF Forward, peerSide, primarySide, CallTypes, OnceInv
    <3>2. /\ UNCHANGED reply
          /\ \/ job' = [job EXCEPT ![k] = "waiting"] /\ UNCHANGED <<inbox, lost>>
             \/ /\ job' = [job EXCEPT ![k] = "pending"]
                /\ \/ \E c : inbox' = inbox \cup {<<k, c>>} /\ UNCHANGED lost
                   \/ UNCHANGED inbox /\ lost' = lost \cup {k}
      BY <2>1, Served DEF CallTypes
    <3> QED BY <3>1, <3>2 DEF CallTypes, Outcome
  <2>2. CASE Tell(k, "noclient") /\ Lose(k, Unheard(k)) /\ UNCHANGED inbox
    <3>1. /\ UNCHANGED <<by, running, answers, ran>>
          /\ job[k] \in {"none", "forward"}
          /\ told[k] # "none"
      BY <1>5 DEF Forward, peerSide, primarySide, CallTypes, OnceInv
    <3> QED BY <2>2, <3>1 DEF Tell, Lose, Unheard, CallTypes, Outcome
  <2> QED BY <1>5, <2>1, <2>2 DEF Forward
<1>6. ASSUME NEW k \in Call, NoBrowser(k) PROVE CallTypes'
  BY <1>6 DEF NoBrowser, Tell, Lose, Unheard, peerSide, primarySide, CallTypes, Outcome
<1>7. ASSUME NEW k \in Call, TimeOut(k) PROVE CallTypes'
  BY <1>7 DEF TimeOut, Tell, Lose, Unheard, peerSide, primarySide, CallTypes, Outcome
<1>8. ASSUME NEW k \in Call, RelayTimeOut(k) PROVE CallTypes'
  BY <1>8 DEF RelayTimeOut, Lose, peerSide, primarySide, transit, CallTypes, Outcome
<1>9. ASSUME NEW k \in Call, Hear(k) PROVE CallTypes'
  BY <1>9 DEF Hear, peerSide, primarySide, history, CallTypes, Outcome
<1>10. ASSUME NEW m \in inbox, Deliver(m[1], m[2]) PROVE CallTypes'
  BY <1>10 DEF Deliver, peerSide, primarySide, calls, CallTypes, Outcome
<1>11. ASSUME NEW m \in running, Finish(m[1], m[2]) PROVE CallTypes'
  <2>1. answers' \subseteq answers \cup {<<m[1], cur[m[2]]>>}
    BY <1>11 DEF Finish, Ws
  <2>2. running' \subseteq running /\ UNCHANGED <<inbox, reply, by, told, job, ran>> /\ m[1] \in Call
    BY <1>11 DEF Finish, calls, CallTypes
  <2> QED BY <2>1, <2>2 DEF CallTypes
<1>12. ASSUME NEW m \in answers, ReceiveAnswer(m[1], m[2]) PROVE CallTypes'
  BY <1>12 DEF ReceiveAnswer, Awaited, Tell, Lose, Unheard, peerSide, primarySide, CallTypes,
     Outcome
<1>13. ASSUME NEW k \in Call, CallHere(k) PROVE CallTypes'
  <2>1. CASE Serve(k) /\ told' = [told EXCEPT ![k] = "pending"]
    <3>1. /\ UNCHANGED <<by, running, answers, ran>>
          /\ job[k] \in {"none", "forward"}
          /\ told' = [told EXCEPT ![k] = "pending"] /\ told[k] = "none" /\ by[k] = Primary
      BY <1>13, <2>1 DEF CallHere, peerSide, primarySide, CallTypes, OnceInv
    <3>2. /\ UNCHANGED reply
          /\ \/ job' = [job EXCEPT ![k] = "waiting"] /\ UNCHANGED <<inbox, lost>>
             \/ /\ job' = [job EXCEPT ![k] = "pending"]
                /\ \/ \E c : inbox' = inbox \cup {<<k, c>>} /\ UNCHANGED lost
                   \/ UNCHANGED inbox /\ lost' = lost \cup {k}
      BY <2>1, Served DEF CallTypes
    <3> QED BY <3>1, <3>2 DEF CallTypes, Outcome
  <2>2. CASE Tell(k, "noclient") /\ Lose(k, Unheard(k)) /\ UNCHANGED inbox
    <3>1. /\ UNCHANGED <<by, running, answers, ran>>
          /\ job[k] \in {"none", "forward"}
          /\ by[k] = Primary
      BY <1>13 DEF CallHere, peerSide, primarySide, CallTypes, OnceInv
    <3> QED BY <2>2, <3>1 DEF Tell, Lose, Unheard, CallTypes, Outcome
  <2> QED BY <1>13, <2>1, <2>2 DEF CallHere
<1>14. ASSUME NEW k \in Call, NEW r \in Relay, CallThere(k, r) PROVE CallTypes'
  BY <1>14 DEF CallThere, Lose, peerSide, primarySide, transit, CallTypes, Outcome
<1>15. ASSUME NEW x \in Chrome, Replace(x) PROVE CallTypes'
  BY <1>15 DEF Replace, Calls, calls, CallTypes, Outcome
<1>16. ASSUME NEW x \in Chrome, Killed(x) PROVE CallTypes'
  BY <1>16 DEF Killed, Calls, calls, CallTypes, Outcome
<1>17. ASSUME NEW c \in Conn, EvictRelay(c) PROVE CallTypes'
  BY <1>17 DEF EvictRelay, Drops, Cut, calls, Calls, CallTypes, Outcome
<1>18. ASSUME NEW c \in Conn, Break(c) PROVE CallTypes'
  BY <1>18 DEF Break, Cut, calls, Calls, CallTypes, Outcome
<1>19. ASSUME Dies PROVE CallTypes'
  BY <1>19 DEF Dies, CallTypes, Outcome
<1>20. ASSUME NEW c \in Conn, 
             \/ Closing(c) \/ ReceiveInit(c)
      PROVE  CallTypes'
  <2>1. UNCHANGED <<inbox, running, answers, reply, by, told, job, ran>>
    BY <1>20 DEF Closing, peerSide, transit, calls, history, ReceiveInit
  <2> QED BY <2>1 DEF CallTypes, Outcome
<1>21. ASSUME NEW p \in Peer, 
             \/ Opens(p) \/ Dial(p)
      PROVE  CallTypes'
  <2>1. UNCHANGED <<inbox, running, answers, reply, by, told, job, ran>>
    BY <1>21 DEF Opens, primarySide, calls, history, Dial
  <2> QED BY <2>1 DEF CallTypes, Outcome
<1>22. ASSUME Starts PROVE CallTypes'
  <2>1. UNCHANGED <<inbox, running, answers, reply, by, told, job, ran>>
    BY <1>22 DEF Starts, peerSide, primarySide, transit, calls, history
  <2> QED BY <2>1 DEF CallTypes, Outcome
<1>23. CASE UNCHANGED vars
  BY <1>23 DEF vars, peerSide, primarySide, transit, calls, history, CallTypes, Outcome
<1> QED
  BY <1>1, <1>2, <1>3, <1>4, <1>5, <1>6, <1>7, <1>8, <1>9, <1>10, <1>11, <1>12,
     <1>13, <1>14, <1>15, <1>16, <1>17, <1>18, <1>19, <1>20, <1>21, <1>22, <1>23
     DEF Next, System

\* A command is sent when its call leaves its first three states, and never again.
LEMMA OnceStep == ListOK /\ CallTypes /\ OnceInv /\ [Next]_vars => OnceInv'
<1> SUFFICES ASSUME ListOK, CallTypes /\ OnceInv, [Next]_vars PROVE OnceInv'
  OBVIOUS
<1>1. ASSUME NEW c \in Conn, Closed(c) PROVE OnceInv'
  BY <1>1 DEF Closed, Over, Calls, peerSide, CallTypes, OnceInv
<1>2. ASSUME NEW c \in Conn, PeerClosed(c) PROVE OnceInv'
  BY <1>2 DEF PeerClosed, primarySide, history, CallTypes, OnceInv
<1>3. ASSUME NEW c \in Conn, Accept(c) PROVE OnceInv'
  <2>1. PICK ks \in SUBSET Call :
            /\ ks = {k \in Call : job[k] = "waiting"}
            /\ job' = [k \in Call |-> IF k \in ks THEN "pending" ELSE job[k]]
            /\ \/ \E d : inbox' = inbox \cup (ks \X {d}) /\ lost' = lost
               \/ inbox' = inbox /\ lost' = lost \cup ks
    BY <1>3, Woken
  <2>2. UNCHANGED <<by, running, answers, ran, told, reply>>
    BY <1>3 DEF Accept
  <2> QED BY <2>1, <2>2 DEF CallTypes, OnceInv
<1>4. ASSUME NEW c \in Conn, EvictBrowser(c) PROVE OnceInv'
  BY <1>4 DEF EvictBrowser, Drops, Cut, calls, Calls, CallTypes, OnceInv
<1>5. ASSUME NEW k \in Call, Forward(k) PROVE OnceInv'
  <2>1. CASE Serve(k) /\ UNCHANGED told
    <3>1. /\ UNCHANGED <<by, running, answers, ran>>
          /\ job[k] \in {"none", "forward"}
          /\ told' = told /\ told[k] # "none"
      BY <1>5, <2>1 DEF Forward, peerSide, primarySide, CallTypes, OnceInv
    <3>2. /\ UNCHANGED reply
          /\ \/ job' = [job EXCEPT ![k] = "waiting"] /\ UNCHANGED <<inbox, lost>>
             \/ /\ job' = [job EXCEPT ![k] = "pending"]
                /\ \/ \E c : inbox' = inbox \cup {<<k, c>>} /\ UNCHANGED lost
                   \/ UNCHANGED inbox /\ lost' = lost \cup {k}
      BY <2>1, Served DEF CallTypes
    <3> QED BY <3>1, <3>2 DEF CallTypes, OnceInv
  <2>2. CASE Tell(k, "noclient") /\ Lose(k, Unheard(k)) /\ UNCHANGED inbox
    <3>1. /\ UNCHANGED <<by, running, answers, ran>>
          /\ job[k] \in {"none", "forward"}
          /\ told[k] # "none"
      BY <1>5 DEF Forward, peerSide, primarySide, CallTypes, OnceInv
    <3> QED BY <2>2, <3>1 DEF Tell, Lose, Unheard, CallTypes, OnceInv
  <2> QED BY <1>5, <2>1, <2>2 DEF Forward
<1>6. ASSUME NEW k \in Call, NoBrowser(k) PROVE OnceInv'
  BY <1>6 DEF NoBrowser, Tell, Lose, Unheard, peerSide, primarySide, CallTypes, OnceInv
<1>7. ASSUME NEW k \in Call, TimeOut(k) PROVE OnceInv'
  BY <1>7 DEF TimeOut, Tell, Lose, Unheard, peerSide, primarySide, CallTypes, OnceInv
<1>8. ASSUME NEW k \in Call, RelayTimeOut(k) PROVE OnceInv'
  BY <1>8 DEF RelayTimeOut, Lose, peerSide, primarySide, transit, CallTypes, OnceInv
<1>9. ASSUME NEW k \in Call, Hear(k) PROVE OnceInv'
  BY <1>9 DEF Hear, peerSide, primarySide, history, CallTypes, OnceInv
<1>10. ASSUME NEW m \in inbox, Deliver(m[1], m[2]) PROVE OnceInv'
  BY <1>10 DEF Deliver, peerSide, primarySide, calls, CallTypes, OnceInv
<1>11. ASSUME NEW m \in answers, ReceiveAnswer(m[1], m[2]) PROVE OnceInv'
  BY <1>11 DEF ReceiveAnswer, Awaited, Tell, Lose, Unheard, peerSide, primarySide, CallTypes,
     OnceInv
<1>12. ASSUME NEW k \in Call, CallHere(k) PROVE OnceInv'
  <2>1. CASE Serve(k) /\ told' = [told EXCEPT ![k] = "pending"]
    <3>1. /\ UNCHANGED <<by, running, answers, ran>>
          /\ job[k] \in {"none", "forward"}
          /\ told' = [told EXCEPT ![k] = "pending"] /\ told[k] = "none" /\ by[k] = Primary
      BY <1>12, <2>1 DEF CallHere, peerSide, primarySide, CallTypes, OnceInv
    <3>2. /\ UNCHANGED reply
          /\ \/ job' = [job EXCEPT ![k] = "waiting"] /\ UNCHANGED <<inbox, lost>>
             \/ /\ job' = [job EXCEPT ![k] = "pending"]
                /\ \/ \E c : inbox' = inbox \cup {<<k, c>>} /\ UNCHANGED lost
                   \/ UNCHANGED inbox /\ lost' = lost \cup {k}
      BY <2>1, Served DEF CallTypes
    <3> QED BY <3>1, <3>2 DEF CallTypes, OnceInv
  <2>2. CASE Tell(k, "noclient") /\ Lose(k, Unheard(k)) /\ UNCHANGED inbox
    <3>1. /\ UNCHANGED <<by, running, answers, ran>>
          /\ job[k] \in {"none", "forward"}
          /\ by[k] = Primary
      BY <1>12 DEF CallHere, peerSide, primarySide, CallTypes, OnceInv
    <3> QED BY <2>2, <3>1 DEF Tell, Lose, Unheard, CallTypes, OnceInv
  <2> QED BY <1>12, <2>1, <2>2 DEF CallHere
<1>13. ASSUME NEW k \in Call, NEW r \in Relay, CallThere(k, r) PROVE OnceInv'
  BY <1>13 DEF CallThere, Lose, peerSide, primarySide, transit, CallTypes, OnceInv
<1>14. ASSUME NEW x \in Chrome, Replace(x) PROVE OnceInv'
  BY <1>14 DEF Replace, Calls, calls, CallTypes, OnceInv
<1>15. ASSUME NEW x \in Chrome, Killed(x) PROVE OnceInv'
  BY <1>15 DEF Killed, Calls, calls, CallTypes, OnceInv
<1>16. ASSUME NEW c \in Conn, EvictRelay(c) PROVE OnceInv'
  BY <1>16 DEF EvictRelay, Drops, Cut, calls, Calls, CallTypes, OnceInv
<1>17. ASSUME NEW c \in Conn, Break(c) PROVE OnceInv'
  BY <1>17 DEF Break, Cut, calls, Calls, CallTypes, OnceInv
<1>18. ASSUME Dies PROVE OnceInv'
  BY <1>18 DEF Dies, CallTypes, OnceInv
<1>19. ASSUME NEW c \in Conn, 
             \/ Closing(c) \/ ReceiveInit(c)
      PROVE  OnceInv'
  <2>1. UNCHANGED <<told, job, ran, inbox, by>>
    BY <1>19 DEF Closing, peerSide, transit, calls, history, ReceiveInit
  <2> QED BY <2>1 DEF CallTypes, OnceInv
<1>20. ASSUME NEW p \in Peer, 
             \/ Opens(p) \/ Dial(p)
      PROVE  OnceInv'
  <2>1. UNCHANGED <<told, job, ran, inbox, by>>
    BY <1>20 DEF Opens, primarySide, calls, history, Dial
  <2> QED BY <2>1 DEF CallTypes, OnceInv
<1>21. ASSUME NEW m \in running, Finish(m[1], m[2]) PROVE OnceInv'
  <2>1. UNCHANGED <<told, job, ran, inbox, by>>
    BY <1>21 DEF Finish, peerSide, primarySide, calls
  <2> QED BY <2>1 DEF CallTypes, OnceInv
<1>22. ASSUME Starts PROVE OnceInv'
  <2>1. UNCHANGED <<told, job, ran, inbox, by>>
    BY <1>22 DEF Starts, peerSide, primarySide, transit, calls, history
  <2> QED BY <2>1 DEF CallTypes, OnceInv
<1>23. CASE UNCHANGED vars
  BY <1>23 DEF vars, peerSide, primarySide, transit, calls, history, CallTypes, OnceInv
<1> QED
  BY <1>1, <1>2, <1>3, <1>4, <1>5, <1>6, <1>7, <1>8, <1>9, <1>10, <1>11, <1>12,
     <1>13, <1>14, <1>15, <1>16, <1>17, <1>18, <1>19, <1>20, <1>21, <1>22, <1>23
     DEF Next, System

\* What is taken off the way is lost, or goes on as the next message.
LEMMA LossStep == ListOK /\ CallTypes /\ OnceInv /\ LossInv /\ [Next]_vars => LossInv'
<1> SUFFICES ASSUME ListOK, CallTypes /\ OnceInv /\ LossInv, [Next]_vars, NEW q \in Call PROVE LossOK(q)'
  BY DEF LossInv
<1>1. ASSUME NEW c \in Conn, Closed(c) PROVE LossOK(q)'
  BY <1>1 DEF Closed, Over, Calls, peerSide, CallTypes, LossInv, LossOK, OnTheWay, Outcome
<1>2. ASSUME NEW c \in Conn, PeerClosed(c) PROVE LossOK(q)'
  BY <1>2 DEF PeerClosed, primarySide, history, CallTypes, LossInv, LossOK, OnTheWay, Outcome
<1>3. ASSUME NEW c \in Conn, Accept(c) PROVE LossOK(q)'
  <2>1. PICK ks \in SUBSET Call :
            /\ ks = {k \in Call : job[k] = "waiting"}
            /\ job' = [k \in Call |-> IF k \in ks THEN "pending" ELSE job[k]]
            /\ \/ \E d : inbox' = inbox \cup (ks \X {d}) /\ lost' = lost
               \/ inbox' = inbox /\ lost' = lost \cup ks
    BY <1>3, Woken
  <2>2. UNCHANGED <<by, running, answers, ran, told, reply>>
    BY <1>3 DEF Accept
  <2>4. CASE q \in ks
    <3>1. q \in lost' \/ OnTheWay(q)'
      <4>1. CASE \E d : inbox' = inbox \cup (ks \X {d})
        <5>1. PICK d : inbox' = inbox \cup (ks \X {d})
          BY <4>1
        <5>2. <<q, d>> \in inbox' /\ <<q, d>>[1] = q
          BY <5>1, <2>4
        <5> QED BY <5>2 DEF OnTheWay
      <4> QED BY <4>1, <2>1, <2>4
    <3> QED BY <3>1, <2>2, <2>1, <2>4 DEF LossInv, LossOK
  <2>5. CASE q \notin ks
    <3>1. job'[q] = job[q] /\ lost \subseteq lost' /\ inbox \subseteq inbox'
      BY <2>1, <2>5
    <3> QED BY <3>1, <2>2 DEF LossInv, LossOK, OnTheWay
  <2> QED BY <2>4, <2>5
<1>4. ASSUME NEW c \in Conn, EvictBrowser(c) PROVE LossOK(q)'
  BY <1>4 DEF EvictBrowser, Drops, Cut, calls, Calls, CallTypes, LossInv, LossOK, OnTheWay,
     Outcome
<1>5. ASSUME NEW k \in Call, Forward(k) PROVE LossOK(q)'
  <2>1. CASE Serve(k) /\ UNCHANGED told
    <3>1. /\ UNCHANGED <<by, running, answers, ran>>
          /\ job[k] \in {"none", "forward"}
          /\ told' = told /\ told[k] # "none"
      BY <1>5, <2>1 DEF Forward, peerSide, primarySide, CallTypes, OnceInv
    <3>2. /\ UNCHANGED reply
          /\ \/ job' = [job EXCEPT ![k] = "waiting"] /\ UNCHANGED <<inbox, lost>>
             \/ /\ job' = [job EXCEPT ![k] = "pending"]
                /\ \/ \E c : inbox' = inbox \cup {<<k, c>>} /\ UNCHANGED lost
                   \/ UNCHANGED inbox /\ lost' = lost \cup {k}
      BY <2>1, Served DEF CallTypes
    <3>3. CASE q = k
      <4>1. job'[q] = "pending" => q \in lost' \/ OnTheWay(q)'
        <5>1. CASE \E c : inbox' = inbox \cup {<<k, c>>}
          <6>1. PICK c : inbox' = inbox \cup {<<k, c>>}
            BY <5>1
          <6>2. <<k, c>> \in inbox' /\ <<k, c>>[1] = q
            BY <6>1, <3>3
          <6> QED BY <6>2 DEF OnTheWay
        <5>2. CASE lost' = lost \cup {k}
          BY <5>2, <3>3
        <5>3. CASE job' = [job EXCEPT ![k] = "waiting"]
          BY <5>3, <3>3 DEF CallTypes
        <5> QED BY <3>2, <5>1, <5>2, <5>3
      <4>3. job'[q] # "over" /\ reply' = reply /\ by' = by /\ lost \subseteq lost'
        BY <3>1, <3>2, <3>3 DEF CallTypes
      <4>4. told'[q] = "timeout" => told[q] = "timeout"
        BY <3>1, <3>3 DEF CallTypes
      <4> QED BY <4>1, <4>3, <4>4 DEF LossInv, LossOK
    <3>4. CASE q # k
      <4>1. /\ told'[q] = told[q] /\ job'[q] = job[q]
            /\ UNCHANGED <<by, reply>> /\ lost \subseteq lost'
            /\ inbox \subseteq inbox' /\ UNCHANGED <<running, answers>>
        BY <3>1, <3>2, <3>4 DEF CallTypes
      <4> QED BY <4>1 DEF LossInv, LossOK, OnTheWay
    <3> QED BY <3>3, <3>4
  <2>2. CASE Tell(k, "noclient") /\ Lose(k, Unheard(k)) /\ UNCHANGED inbox
    <3>1. /\ UNCHANGED <<by, running, answers, ran>>
          /\ job[k] \in {"none", "forward"}
          /\ told[k] # "none"
      BY <1>5 DEF Forward, peerSide, primarySide, CallTypes, OnceInv
    <3> QED BY <2>2, <3>1 DEF Tell, Lose, Unheard, CallTypes, LossInv, LossOK, OnTheWay, Outcome
  <2> QED BY <1>5, <2>1, <2>2 DEF Forward
<1>6. ASSUME NEW k \in Call, NoBrowser(k) PROVE LossOK(q)'
  BY <1>6 DEF NoBrowser, Tell, Lose, Unheard, peerSide, primarySide, CallTypes, LossInv, LossOK,
     OnTheWay, Outcome
<1>7. ASSUME NEW k \in Call, TimeOut(k) PROVE LossOK(q)'
  BY <1>7, HopelessIs DEF TimeOut, Tell, Lose, Unheard, peerSide, primarySide, CallTypes,
     LossInv, LossOK, OnTheWay, Outcome, Late
<1>8. ASSUME NEW k \in Call, RelayTimeOut(k) PROVE LossOK(q)'
  BY <1>8, HopelessIs DEF RelayTimeOut, Lose, peerSide, primarySide, transit, CallTypes,
     LossInv, LossOK, OnTheWay, Outcome, Late
<1>9. ASSUME NEW k \in Call, Hear(k) PROVE LossOK(q)'
  BY <1>9 DEF Hear, peerSide, primarySide, history, CallTypes, LossInv, LossOK, OnTheWay,
     Outcome
<1>10. ASSUME NEW m \in inbox, Deliver(m[1], m[2]) PROVE LossOK(q)'
  <2>1. /\ m = <<m[1], m[2]>> /\ inbox' = inbox \ {m}
        /\ UNCHANGED <<answers, reply, by, told, job>>
    BY <1>10 DEF Deliver, calls, CallTypes
  <2>2. \/ running' = running \cup {<<m[1], m[2][1]>>} /\ UNCHANGED lost
        \/ UNCHANGED running /\ lost' = lost \cup {m[1]}
    BY <1>10 DEF Deliver
  <2>3. CASE q = m[1]
    <3>1. q \in lost' \/ <<q, m[2][1]>> \in running'
      BY <2>2, <2>3
    <3>2. <<q, m[2][1]>>[1] = q /\ lost \subseteq lost'
      BY <2>2
    <3> QED BY <2>1, <3>1, <3>2 DEF LossInv, LossOK, OnTheWay
  <2>4. CASE q # m[1]
    BY <2>1, <2>2, <2>4 DEF LossInv, LossOK, OnTheWay
  <2> QED BY <2>3, <2>4
<1>11. ASSUME NEW m \in running, Finish(m[1], m[2]) PROVE LossOK(q)'
  <2>1. /\ m = <<m[1], m[2]>> /\ running' = running \ {m}
        /\ UNCHANGED <<inbox, reply, by, told, job>>
    BY <1>11 DEF Finish, calls, CallTypes
  <2>2. \/ answers' = answers \cup {<<m[1], cur[m[2]]>>} /\ UNCHANGED lost
        \/ answers \subseteq answers' /\ lost' = lost \cup {m[1]}
    BY <1>11 DEF Finish, Ws, Lose
  <2>3. CASE q = m[1]
    <3>1. q \in lost' \/ <<q, cur[m[2]]>> \in answers'
      BY <2>2, <2>3
    <3>2. <<q, cur[m[2]]>>[1] = q /\ lost \subseteq lost'
      BY <2>2
    <3> QED BY <2>1, <3>1, <3>2 DEF LossInv, LossOK, OnTheWay
  <2>4. CASE q # m[1]
    BY <2>1, <2>2, <2>4 DEF LossInv, LossOK, OnTheWay
  <2> QED BY <2>3, <2>4
<1>12. ASSUME NEW m \in answers, ReceiveAnswer(m[1], m[2]) PROVE LossOK(q)'
  BY <1>12 DEF ReceiveAnswer, Awaited, Tell, Lose, Unheard, peerSide, primarySide, CallTypes,
     LossInv, LossOK, OnTheWay, Outcome
<1>13. ASSUME NEW k \in Call, CallHere(k) PROVE LossOK(q)'
  <2>1. CASE Serve(k) /\ told' = [told EXCEPT ![k] = "pending"]
    <3>1. /\ UNCHANGED <<by, running, answers, ran>>
          /\ job[k] \in {"none", "forward"}
          /\ told' = [told EXCEPT ![k] = "pending"] /\ told[k] = "none" /\ by[k] = Primary
      BY <1>13, <2>1 DEF CallHere, peerSide, primarySide, CallTypes, OnceInv
    <3>2. /\ UNCHANGED reply
          /\ \/ job' = [job EXCEPT ![k] = "waiting"] /\ UNCHANGED <<inbox, lost>>
             \/ /\ job' = [job EXCEPT ![k] = "pending"]
                /\ \/ \E c : inbox' = inbox \cup {<<k, c>>} /\ UNCHANGED lost
                   \/ UNCHANGED inbox /\ lost' = lost \cup {k}
      BY <2>1, Served DEF CallTypes
    <3>3. CASE q = k
      <4>1. job'[q] = "pending" => q \in lost' \/ OnTheWay(q)'
        <5>1. CASE \E c : inbox' = inbox \cup {<<k, c>>}
          <6>1. PICK c : inbox' = inbox \cup {<<k, c>>}
            BY <5>1
          <6>2. <<k, c>> \in inbox' /\ <<k, c>>[1] = q
            BY <6>1, <3>3
          <6> QED BY <6>2 DEF OnTheWay
        <5>2. CASE lost' = lost \cup {k}
          BY <5>2, <3>3
        <5>3. CASE job' = [job EXCEPT ![k] = "waiting"]
          BY <5>3, <3>3 DEF CallTypes
        <5> QED BY <3>2, <5>1, <5>2, <5>3
      <4>3. job'[q] # "over" /\ reply' = reply /\ by' = by /\ lost \subseteq lost'
        BY <3>1, <3>2, <3>3 DEF CallTypes
      <4>4. told'[q] = "timeout" => told[q] = "timeout"
        BY <3>1, <3>3 DEF CallTypes
      <4> QED BY <4>1, <4>3, <4>4 DEF LossInv, LossOK
    <3>4. CASE q # k
      <4>1. /\ told'[q] = told[q] /\ job'[q] = job[q]
            /\ UNCHANGED <<by, reply>> /\ lost \subseteq lost'
            /\ inbox \subseteq inbox' /\ UNCHANGED <<running, answers>>
        BY <3>1, <3>2, <3>4 DEF CallTypes
      <4> QED BY <4>1 DEF LossInv, LossOK, OnTheWay
    <3> QED BY <3>3, <3>4
  <2>2. CASE Tell(k, "noclient") /\ Lose(k, Unheard(k)) /\ UNCHANGED inbox
    <3>1. /\ UNCHANGED <<by, running, answers, ran>>
          /\ job[k] \in {"none", "forward"}
          /\ by[k] = Primary
      BY <1>13 DEF CallHere, peerSide, primarySide, CallTypes, OnceInv
    <3> QED BY <2>2, <3>1 DEF Tell, Lose, Unheard, CallTypes, LossInv, LossOK, OnTheWay, Outcome
  <2> QED BY <1>13, <2>1, <2>2 DEF CallHere
<1>14. ASSUME NEW k \in Call, NEW r \in Relay, CallThere(k, r) PROVE LossOK(q)'
  BY <1>14 DEF CallThere, Lose, peerSide, primarySide, transit, CallTypes, LossInv, LossOK,
     OnTheWay, Outcome
<1>15. ASSUME NEW x \in Chrome, Replace(x) PROVE LossOK(q)'
  BY <1>15 DEF Replace, Calls, calls, CallTypes, LossInv, LossOK, OnTheWay, Outcome
<1>16. ASSUME NEW x \in Chrome, Killed(x) PROVE LossOK(q)'
  BY <1>16 DEF Killed, Calls, calls, CallTypes, LossInv, LossOK, OnTheWay, Outcome
<1>17. ASSUME NEW c \in Conn, EvictRelay(c) PROVE LossOK(q)'
  BY <1>17 DEF EvictRelay, Drops, Cut, calls, Calls, CallTypes, LossInv, LossOK, OnTheWay,
     Outcome
<1>18. ASSUME NEW c \in Conn, Break(c) PROVE LossOK(q)'
  BY <1>18 DEF Break, Cut, calls, Calls, CallTypes, LossInv, LossOK, OnTheWay, Outcome
<1>19. ASSUME Dies PROVE LossOK(q)'
  BY <1>19 DEF Dies, CallTypes, LossInv, LossOK, OnTheWay, Outcome
<1>20. ASSUME NEW c \in Conn, 
             \/ Closing(c) \/ ReceiveInit(c)
      PROVE  LossOK(q)'
  <2>1. UNCHANGED <<told, job, ran, inbox, running, answers, reply, by, lost>>
    BY <1>20 DEF Closing, peerSide, transit, calls, history, ReceiveInit
  <2> QED BY <2>1 DEF CallTypes, LossInv, LossOK, OnTheWay, Outcome
<1>21. ASSUME NEW p \in Peer, 
             \/ Opens(p) \/ Dial(p)
      PROVE  LossOK(q)'
  <2>1. UNCHANGED <<told, job, ran, inbox, running, answers, reply, by, lost>>
    BY <1>21 DEF Opens, primarySide, calls, history, Dial
  <2> QED BY <2>1 DEF CallTypes, LossInv, LossOK, OnTheWay, Outcome
<1>22. ASSUME Starts PROVE LossOK(q)'
  <2>1. UNCHANGED <<told, job, ran, inbox, running, answers, reply, by, lost>>
    BY <1>22 DEF Starts, peerSide, primarySide, transit, calls, history
  <2> QED BY <2>1 DEF CallTypes, LossInv, LossOK, OnTheWay, Outcome
<1>23. CASE UNCHANGED vars
  BY <1>23 DEF vars, peerSide, primarySide, transit, calls, history, CallTypes, LossInv, LossOK,
     OnTheWay, Outcome
<1> QED
  BY <1>1, <1>2, <1>3, <1>4, <1>5, <1>6, <1>7, <1>8, <1>9, <1>10, <1>11, <1>12,
     <1>13, <1>14, <1>15, <1>16, <1>17, <1>18, <1>19, <1>20, <1>21, <1>22, <1>23
     DEF Next, System

\* The invariant holds in every reachable state.
LEMMA CallInvCorrect == Spec => []CallInv
<1>1. CallInv /\ [Next]_vars => CallInv'
  BY ListStep, TypesStep, OnceStep, LossStep DEF CallInv
<1> QED BY <1>1, CallInit, PTL DEF Spec

\* A command is executed at most once and in one Chrome, although Chromes and
\* their connections come and go while it waits and runs (_selectTargetClient
\* instead of the former fan-out).
THEOREM Once == Spec => []ExecutedOnce
<1>1. CallInv => ExecutedOnce
  BY DEF CallInv, OnceInv, ExecutedOnce
<1> QED BY <1>1, CallInvCorrect, PTL

\* An executed command's answer finds its caller: a call times out only if its command
\* or its answer met a connection that had ended or was ready while the Chrome had
\* none, a timer was too short, or the command went to a relay (broadcast,
\* relay_forward, sendToServer, the relay's own timer).
THEOREM Timeouts == Spec => []TimeoutIsLoss
<1>1. CallInv => TimeoutIsLoss
  BY DEF CallInv, LossInv, LossOK, TimeoutIsLoss
<1> QED BY <1>1, CallInvCorrect, PTL

------------------------------------------------------------------------------
(* RelaySessions *)

\* A function with one more value, and one with one less
LEMMA PutTypes ==
    ASSUME NEW f, NEW c, NEW x
    PROVE  /\ DOMAIN Put(f, c, x) = DOMAIN f \cup {c}
           /\ Put(f, c, x)[c] = x
           /\ \A d \in DOMAIN f \ {c} : Put(f, c, x)[d] = f[d]
           /\ Range(Put(f, c, x)) \subseteq Range(f) \cup {x}
BY DEF Put, Range

\* See WithTypes.
LEMMA ForgetTypes ==
    ASSUME NEW f, NEW c
    PROVE  /\ DOMAIN Forget(f, c) = DOMAIN f \ {c}
           /\ \A d \in DOMAIN f \ {c} : Forget(f, c)[d] = f[d]
           /\ Range(Forget(f, c)) \subseteq Range(f)
BY DEF Forget, Restrict, Range

\* An UPDATE keeps the order of the orphaned sessions.
LEMMA RowTypes ==
    ASSUME SessionTypeOK, NEW s \in Session, NEW state \in RowState, SetRow(s, state)
    PROVE  /\ row' \in [Session -> RowState]
           /\ later' \subseteq Orphans' \X Orphans'
           /\ \A x, y \in Orphans' : <<x, y>> \in later' <=> x # y /\ <<y, x>> \notin later'
<1>1. row' \in [Session -> RowState]
      BY DEF SessionTypeOK, SetRow
<1>2. Orphans' = IF state = "orphaned" THEN Orphans \cup {s} ELSE Orphans \ {s}
      BY DEF SessionTypeOK, SetRow, Orphans
<1>3. later' \subseteq Orphans' \X Orphans'
      BY <1>2 DEF SessionTypeOK, SetRow
<1>4. \A x, y \in Orphans' : <<x, y>> \in later' <=> x # y /\ <<y, x>> \notin later'
      BY <1>2 DEF SessionTypeOK, SetRow
<1> QED BY <1>1, <1>3, <1>4

\* A relay's connections have numbers up to that of its last one, which the
\* primary does not know before it has accepted it
NumberOK ==
    \A c \in browserClients \cup DOMAIN relayClients :
        /\ phase[c[1]] # "new" /\ c[2] <= conn[c[1]]
        /\ phase[c[1]] = "connecting" => c[2] < conn[c[1]]

\* The type invariant with what it takes to be inductive
SessionTypeInv ==
    /\ SessionTypeOK
    /\ \A r \in Cli : phase[r] # "new" => conn[r] \in 1 .. MaxSocket
    /\ \A r \in Cli : phase[r] = "recovering" => found[r] \in Session
    /\ NumberOK

\* The last connection of a relay that has started is one of its connections.
LEMMA CurrentIsConn ==
    ASSUME SessionTypeInv, NEW r \in Cli, phase[r] # "new"
    PROVE  Current(r) \in Socket
BY DEF SessionTypeInv, Current, Socket

\* The types of the table of sessions
RowOK ==
    /\ row \in [Session -> RowState]
    /\ later \subseteq Orphans \X Orphans
    /\ \A s, t \in Orphans : <<s, t>> \in later <=> s # t /\ <<t, s>> \notin later

\* An UPDATE of a row keeps the types of the table.
LEMMA RowStep ==
    ASSUME SessionTypeOK, NEW s \in Session, NEW state \in RowState, SetRow(s, state)
    PROVE  RowOK'
BY RowTypes DEF RowOK

\* So does a step that leaves the table alone.
LEMMA RowSame ==
    ASSUME SessionTypeOK, UNCHANGED db
    PROVE  RowOK'
BY DEF RowOK, SessionTypeOK, db, Orphans

\* The types of the relays' and of the primary's side
SideOK ==
    /\ phase \in [Cli -> Phase] /\ cwd \in [Cli -> Directory]
    /\ session \in [Cli -> Session] /\ found \in [Cli -> Session \cup {NoSession}]
    /\ conn \in [Cli -> 0 .. MaxSocket]
    /\ broken \subseteq Socket /\ browserClients \subseteq Socket /\ closing \subseteq Socket
    /\ DOMAIN relayClients \subseteq Socket /\ Range(relayClients) \subseteq Session
    /\ DOMAIN relayInits \subseteq Socket /\ Range(relayInits) \subseteq Session
    /\ cleanups \subseteq Session /\ tabs \subseteq Session
    /\ mishaps \subseteq {"overlap", "late", "evict"}
    /\ \A r \in Cli : phase[r] # "new" => conn[r] \in 1 .. MaxSocket
    /\ \A r \in Cli : phase[r] = "recovering" => found[r] \in Session

\* The parts of the type invariant.
LEMMA SessionTypeParts ==
    SessionTypeInv <=>
        SideOK /\ RowOK /\ NumberOK /\ browserClients \cap DOMAIN relayClients = {}
BY DEF SessionTypeInv, SessionTypeOK, SideOK, RowOK

\* What SayInit adds to the messages under way.
LEMMA SayInitTypes ==
    ASSUME SessionTypeInv, NEW r \in Cli, phase[r] # "new", NEW s \in Session, SayInit(r, s)
    PROVE  /\ DOMAIN relayInits' \subseteq Socket /\ Range(relayInits') \subseteq Session
           /\ DOMAIN relayInits' = IF Current(r) \in broken THEN DOMAIN relayInits
                              ELSE DOMAIN relayInits \cup {Current(r)}
           /\ Current(r) \notin broken => relayInits'[Current(r)] = s
           /\ \A c \in DOMAIN relayInits : c # Current(r) => relayInits'[c] = relayInits[c]
<1>1. Current(r) \in Socket
      BY CurrentIsConn
<1>2. CASE Current(r) \in broken
      BY <1>2 DEF SayInit, SessionTypeInv, SessionTypeOK
<1>3. CASE Current(r) \notin broken
  <2>1. relayInits' = Put(relayInits, Current(r), s)
        BY <1>3 DEF SayInit
  <2>2. Range(Put(relayInits, Current(r), s)) \subseteq Range(relayInits) \cup {s}
        BY PutTypes
  <2>3. /\ DOMAIN relayInits' = DOMAIN relayInits \cup {Current(r)}
        /\ relayInits'[Current(r)] = s
        /\ \A c \in DOMAIN relayInits : c # Current(r) => relayInits'[c] = relayInits[c]
        BY <2>1 DEF Put
  <2> QED BY <1>1, <1>3, <2>1, <2>2, <2>3 DEF SessionTypeInv, SessionTypeOK
<1> QED BY <1>2, <1>3

\* Every action keeps the types of the two sides and of the table.
LEMMA SideStep ==
    ASSUME SessionTypeInv, [SessionNext]_sessionVars
    PROVE  SideOK' /\ RowOK'
<1> USE DEF SessionTypeInv
<1> USE RowStep, RowSame, SessionBoundAssumption, NoSessionAssumption
<1>1. ASSUME NEW r \in Cli, Start(r)
      PROVE  SideOK' /\ RowOK'
  <2>1. RowOK'
        BY <1>1 DEF Start
  <2>2. conn' \in [Cli -> 0 .. MaxSocket]
        BY <1>1 DEF Start, SessionTypeOK
  <2>3. \A q \in Cli : phase'[q] # "new" => conn'[q] \in 1 .. MaxSocket
        BY <1>1 DEF Start, Goto, SessionTypeOK
  <2> QED BY <1>1, <2>1, <2>2, <2>3, ZenonT(30) DEF Start, Goto, Mishap, SideOK, SessionTypeOK, Phase,
          clientSide, extension
<1>2. ASSUME NEW r \in Cli, Reconnect(r)
      PROVE  SideOK' /\ RowOK'
  <2>1. RowOK'
        BY <1>2 DEF Reconnect
  <2>2. conn' \in [Cli -> 0 .. MaxSocket]
        BY <1>2 DEF Reconnect, SessionTypeOK
  <2>3. \A q \in Cli : phase'[q] # "new" => conn'[q] \in 1 .. MaxSocket
        BY <1>2 DEF Reconnect, Goto, SessionTypeOK
  <2> QED BY <1>2, <2>1, <2>2, <2>3 DEF Reconnect, Goto, Mishap, SideOK, SessionTypeOK,
          Phase, clientSide, extension
<1>3. ASSUME NEW r \in Cli, FindOrphan(r)
      PROVE  SideOK' /\ RowOK'
  <2>1. CASE SayInit(r, session[r]) /\ Goto(r, "open") /\ UNCHANGED found
    <3>1. DOMAIN relayInits' \subseteq Socket /\ Range(relayInits') \subseteq Session
          BY <1>3, <2>1, SayInitTypes DEF FindOrphan, SessionTypeOK
    <3> QED BY <1>3, <2>1, <3>1 DEF FindOrphan, Goto, SideOK, SessionTypeOK, Phase, extension
  <2>2. CASE Goto(r, "recovering") /\ UNCHANGED relayInits
        BY <1>3, <2>2 DEF FindOrphan, Goto, SideOK, SessionTypeOK, Phase, extension, db,
           OrphansFor, Orphans
  <2> QED BY <1>3, <2>1, <2>2 DEF FindOrphan
<1>4. ASSUME NEW r \in Cli, Recover(r)
      PROVE  SideOK' /\ RowOK'
  <2>1. found[r] \in Session /\ phase[r] # "new"
        BY <1>4 DEF Recover
  <2>2. RowOK'
        BY <1>4, <2>1 DEF Recover, RowState
  <2>3. DOMAIN relayInits' \subseteq Socket /\ Range(relayInits') \subseteq Session
        BY <1>4, <2>1, SayInitTypes DEF Recover
  <2> QED BY <1>4, <2>1, <2>2, <2>3 DEF Recover, Goto, SideOK, SessionTypeOK, Phase, extension
<1>5. ASSUME NEW r \in Cli, LoseRelay(r)
      PROVE  SideOK' /\ RowOK'
      BY <1>5 DEF LoseRelay, Goto, SideOK, SessionTypeOK, Phase, clientSide, extension, db
<1>6. ASSUME NEW r \in Cli, UseTab(r)
      PROVE  SideOK' /\ RowOK'
      BY <1>6 DEF UseTab, SideOK, SessionTypeOK, relaySide, clientSide, db
<1>7. ASSUME NEW r \in Cli, Exit(r)
      PROVE  SideOK' /\ RowOK'
      BY <1>7, CurrentIsConn DEF Exit, Goto, SideOK, SessionTypeOK, Phase, db
<1>8. ASSUME NEW r \in Cli, AcceptRelay(r)
      PROVE  SideOK' /\ RowOK'
      BY <1>8, CurrentIsConn DEF AcceptRelay, Goto, SideOK, SessionTypeOK, Phase, extension
<1>9. ASSUME NEW c \in Socket, ReceiveRelayInit(c)
      PROVE  SideOK' /\ RowOK'
  <2>1. relayInits[c] \in Session
        BY <1>9 DEF ReceiveRelayInit, SessionTypeOK, Range
  <2>2. RowOK'
        BY <1>9, <2>1 DEF ReceiveRelayInit, SaveRelay, RowState
  <2>3. /\ DOMAIN relayClients' \subseteq Socket /\ Range(relayClients') \subseteq Session
    <3>1. DOMAIN Put(relayClients, c, relayInits[c]) = DOMAIN relayClients \cup {c}
          BY PutTypes
    <3>2. Range(Put(relayClients, c,
            relayInits[c])) \subseteq Range(relayClients) \cup {relayInits[c]}
          BY PutTypes
    <3> QED BY <1>9, <2>1, <3>1, <3>2 DEF ReceiveRelayInit, SessionTypeOK
  <2>4. DOMAIN relayInits' \subseteq Socket /\ Range(relayInits') \subseteq Session
    <3>1. DOMAIN Forget(relayInits, c) = DOMAIN relayInits \ {c} /\ Range(Forget(relayInits,
            c)) \subseteq Range(relayInits)
          BY ForgetTypes
    <3> QED BY <1>9, <3>1 DEF ReceiveRelayInit, SessionTypeOK
  <2> QED BY <1>9, <2>2, <2>3, <2>4 DEF ReceiveRelayInit, SideOK, SessionTypeOK, relaySide,
          extension
<1>10. ASSUME NEW r \in Cli, Drop(r)
      PROVE  SideOK' /\ RowOK'
      BY <1>10, CurrentIsConn DEF Drop, Connected, SideOK, SessionTypeOK, extension, db
<1>11. ASSUME NEW c \in Socket, Close(c)
      PROVE  SideOK' /\ RowOK'
  <2>1. c \in DOMAIN relayClients => relayClients[c] \in Session
        BY DEF SessionTypeOK, Range
  <2>2. RowOK' /\ cleanups' \subseteq Session
        BY <1>11, <2>1 DEF Close, MarkOrphaned, RowState, SessionTypeOK
  <2>3. /\ DOMAIN relayClients' \subseteq Socket /\ Range(relayClients') \subseteq Session
        /\ DOMAIN relayInits' \subseteq Socket /\ Range(relayInits') \subseteq Session
    <3>1. DOMAIN Forget(relayInits, c) = DOMAIN relayInits \ {c} /\ Range(Forget(relayInits,
            c)) \subseteq Range(relayInits)
          BY ForgetTypes
    <3>2. DOMAIN Forget(relayClients,
            c) = DOMAIN relayClients \ {c} /\ Range(Forget(relayClients,
               c)) \subseteq Range(relayClients)
          BY ForgetTypes
    <3> QED BY <1>11, <3>1, <3>2 DEF Close, SessionTypeOK
  <2> QED BY <1>11, <2>2, <2>3 DEF Close, SideOK, SessionTypeOK, relaySide
<1>12. ASSUME NEW c \in Socket, Evict(c)
      PROVE  SideOK' /\ RowOK'
  <2>1. DOMAIN Forget(relayClients,
          c) = DOMAIN relayClients \ {c} /\ Range(Forget(relayClients,
             c)) \subseteq Range(relayClients)
        BY ForgetTypes
  <2>2. RowOK'
        BY <1>12 DEF Evict
  <2> QED BY <1>12, <2>1, <2>2 DEF Evict, Mishap, SideOK, SessionTypeOK, extension
<1>13. ASSUME NEW s \in Session, ExpireOrphan(s)
      PROVE  SideOK' /\ RowOK'
      BY <1>13 DEF ExpireOrphan, RowState, SideOK, SessionTypeOK, relaySide, clientSide,
         extension
<1>14. ASSUME NEW s \in Session, HandleCleanup(s) \/ CloseStale(s)
      PROVE  SideOK' /\ RowOK'
      BY <1>14 DEF HandleCleanup, CloseStale, SideOK, SessionTypeOK, relaySide, clientSide, db
<1>15. CASE UNCHANGED sessionVars
      BY <1>15 DEF sessionVars, SideOK, SessionTypeOK, relaySide, clientSide, db, extension
<1> QED BY <1>1, <1>2, <1>3, <1>4, <1>5, <1>6, <1>7, <1>8, <1>9, <1>10, <1>11, <1>12, <1>13,
           <1>14, <1>15 DEF SessionNext, RelayStep, DeliverSession

\* Who of the relays moves, and what the primary learns, in a step
LEMMA NumberStep ==
    ASSUME SessionTypeInv, [SessionNext]_sessionVars, SideOK'
    PROVE  NumberOK' /\ browserClients' \cap DOMAIN relayClients' = {}
<1> DEFINE Goal == NumberOK' /\ browserClients' \cap DOMAIN relayClients' = {}
<1> USE DEF NumberOK
<1>t. /\ conn \in [Cli -> 0 .. MaxSocket] /\ phase \in [Cli -> Phase]
      /\ browserClients \subseteq Socket /\ DOMAIN relayClients \subseteq Socket
      /\ browserClients \cap DOMAIN relayClients = {} /\ NumberOK
      /\ {conn[r] : r \in Cli} \subseteq Int
      /\ \A r \in Cli : phase[r] # "new" => Current(r) \in Socket
      BY CurrentIsConn DEF SessionTypeInv, SessionTypeOK
<1>c. \A c \in Socket : c[1] \in Cli /\ c[2] \in Int /\ c = <<c[1], c[2]>>
      BY DEF Socket
<1>1. ASSUME NEW r \in Cli, Start(r) \/ Reconnect(r)
      PROVE  Goal
  <2>1. UNCHANGED <<browserClients, relayClients>>
        BY <1>1 DEF Start, Reconnect, clientSide
  <2>2. \A q \in Cli : q # r => conn'[q] = conn[q] /\ phase'[q] = phase[q]
        BY <1>1, <1>t DEF Start, Reconnect, Goto
  <2>3. /\ phase'[r] = "connecting"
        /\ phase[r] # "new" => conn'[r] = conn[r] + 1
        BY <1>1, <1>t DEF Start, Reconnect, Goto
  <2> QED BY <1>t, <1>c, <2>1, <2>2, <2>3
<1>2. ASSUME NEW r \in Cli, AcceptRelay(r)
      PROVE  Goal
  <2>1. /\ browserClients' = browserClients \cup {Current(r)} /\ UNCHANGED <<conn,
          relayClients>>
        /\ phase[r] = "connecting" /\ phase' = [phase EXCEPT ![r] = "finding"]
        BY <1>2 DEF AcceptRelay, Goto
  <2>2. Current(r) \in Socket /\ Current(r)[1] = r /\ Current(r)[2] = conn[r]
        BY <1>t, <2>1 DEF Current
  <2>3. Current(r) \notin DOMAIN relayClients
        BY <1>t, <2>1, <2>2
  <2> QED BY <1>t, <1>c, <2>1, <2>2, <2>3
<1>3. ASSUME NEW r \in Cli, FindOrphan(r) \/ Recover(r) \/ LoseRelay(r) \/ Exit(r)
      PROVE  Goal
  <2>1. /\ UNCHANGED <<browserClients, relayClients, conn>>
        /\ \E l \in Phase \ {"new", "connecting"} : phase' = [phase EXCEPT ![r] = l]
        BY <1>3 DEF FindOrphan, Recover, LoseRelay, Exit, Goto, Phase, clientSide
  <2> QED BY <1>t, <1>c, <2>1
<1>4. ASSUME NEW c \in Socket, ReceiveRelayInit(c) \/ Close(c) \/ Evict(c)
      PROVE  Goal
  <2>1. UNCHANGED <<phase, conn>>
        BY <1>4 DEF ReceiveRelayInit, Close, Evict, relaySide
  <2>2. DOMAIN Forget(relayClients, c) = DOMAIN relayClients \ {c}
        BY ForgetTypes
  <2>3. DOMAIN Put(relayClients, c, relayInits[c]) = DOMAIN relayClients \cup {c}
        BY PutTypes
  <2>4. /\ browserClients' \subseteq browserClients
        /\ browserClients' \cap DOMAIN relayClients' = {}
        /\ DOMAIN relayClients' \subseteq DOMAIN relayClients \cup browserClients
        BY <1>4, <1>t, <2>2, <2>3 DEF ReceiveRelayInit, Close, Evict
  <2> QED BY <1>t, <2>1, <2>4
<1>5. CASE UNCHANGED <<phase, conn, browserClients, relayClients>>
      BY <1>5, <1>t
<1> QED
    BY <1>1, <1>2, <1>3, <1>4, <1>5
    DEF SessionNext, RelayStep, DeliverSession, UseTab, Drop, ExpireOrphan, CloseStale,
       HandleCleanup, sessionVars,
        relaySide, clientSide

\* The type invariant is inductive.
LEMMA SessionTypeStep ==
    ASSUME SessionTypeInv, [SessionNext]_sessionVars
    PROVE  SessionTypeInv'
<1>1. SideOK' /\ RowOK'
      BY SideStep
<1>2. NumberOK' /\ browserClients' \cap DOMAIN relayClients' = {}
      BY <1>1, NumberStep
<1> QED BY <1>1, <1>2 DEF SideOK, RowOK, SessionTypeInv, SessionTypeOK

\* And holds at the start.
LEMMA SessionTypeInit == ASSUME SessionInit PROVE SessionTypeInv
<1> SUFFICES SideOK /\ RowOK /\ NumberOK /\ browserClients \cap DOMAIN relayClients = {}
    BY SessionTypeParts
<1>1. DOMAIN <<>> = {} /\ Range(<<>>) = {}
      BY DEF Range
<1> QED BY <1>1, SessionBoundAssumption DEF SessionInit, SideOK, RowOK, NumberOK, Orphans,
        Phase, RowState, Session

\* Every variable of RelaySessions always has its type, and of two orphaned
\* sessions one is always the later (context-manager.js:129, ORDER BY).
THEOREM SessionTypeCorrect == SessionSpec => []SessionTypeOK /\ []SessionTypeInv
<1>1. SessionInit => SessionTypeInv
      BY SessionTypeInit
<1>2. SessionTypeInv /\ [SessionNext]_sessionVars => SessionTypeInv'
      BY SessionTypeStep
<1>3. SessionTypeInv => SessionTypeOK
      BY DEF SessionTypeInv
<1> QED BY <1>1, <1>2, <1>3, PTL DEF SessionSpec

\* A session stays in the project it was drawn in, and without an overlap a
\* project has one relay
ProjectInv ==
    /\ \A r \in Cli : cwd[session[r]] = cwd[r]
    /\ \A r \in Cli : phase[r] = "recovering" => cwd[found[r]] = cwd[r]
    /\ "overlap" \notin mishaps =>
          \A r, q \in Cli : r # q /\ Live(r) /\ Live(q) => cwd[r] # cwd[q]

\* What the other steps leave as it is.
LEMMA QuietStep ==
    ASSUME [SessionNext]_sessionVars,
           \A r \in Cli : ~Start(r) /\ ~Reconnect(r) /\ ~FindOrphan(r) /\ ~Recover(r)
                             /\ ~AcceptRelay(r) /\ ~LoseRelay(r) /\ ~Exit(r)
    PROVE  UNCHANGED <<phase, cwd, session, found, conn>>
BY DEF SessionNext, RelayStep, DeliverSession, UseTab, Drop, ExpireOrphan, CloseStale,
   HandleCleanup, sessionVars,
       ReceiveRelayInit, Close, Evict, relaySide

\* ProjectInv is inductive.
LEMMA ProjectStep == SessionTypeInv /\ ProjectInv /\ [SessionNext]_sessionVars => ProjectInv'
<1> SUFFICES ASSUME SessionTypeInv, ProjectInv, [SessionNext]_sessionVars
             PROVE  ProjectInv'
    OBVIOUS
<1> USE DEF ProjectInv, Live
<1>t. /\ phase \in [Cli -> Phase] /\ session \in [Cli -> Cli]
      /\ found \in [Cli -> Cli \cup {NoSession}]
      /\ \A r \in Cli : phase[r] = "recovering" => found[r] \in Cli
      BY DEF SessionTypeInv, SessionTypeOK, Session
<1>m. mishaps \subseteq mishaps' /\ UNCHANGED cwd
      BY DEF SessionNext, RelayStep, DeliverSession, Start, Reconnect, FindOrphan, Recover,
         AcceptRelay, LoseRelay, Exit,
             UseTab, Drop, ExpireOrphan, CloseStale, HandleCleanup, sessionVars,
                ReceiveRelayInit, Close,
             Evict, relaySide, Mishap
<1>1. ASSUME NEW r \in Cli, Start(r)
      PROVE  ProjectInv'
  <2>1. UNCHANGED <<session, found>> /\ phase' = [phase EXCEPT ![r] = "connecting"]
        BY <1>1 DEF Start, Goto
  <2>2. "overlap" \notin mishaps' => \A q \in Cli \ {r} : Live(q) => cwd[q] # cwd[r]
        BY <1>1 DEF Start, Mishap
  <2> QED BY <1>t, <1>m, <2>1, <2>2
<1>2. ASSUME NEW r \in Cli, Reconnect(r) \/ AcceptRelay(r) \/ LoseRelay(r) \/ Exit(r)
      PROVE  ProjectInv'
  <2>1. /\ UNCHANGED <<session, found>> /\ Live(r)
        /\ \E l \in Phase \ {"recovering"} : phase' = [phase EXCEPT ![r] = l]
        BY <1>2 DEF Reconnect, AcceptRelay, LoseRelay, Exit, Goto, Phase
  <2> QED BY <1>t, <1>m, <2>1
<1>3. ASSUME NEW r \in Cli, FindOrphan(r)
      PROVE  ProjectInv'
  <2>1. UNCHANGED session /\ Live(r)
        BY <1>3 DEF FindOrphan
  <2>2. CASE UNCHANGED found /\ phase' = [phase EXCEPT ![r] = "open"]
        BY <1>t, <1>m, <2>1, <2>2
  <2>3. CASE \E s \in OrphansFor(r) : /\ found' = [found EXCEPT ![r] = s]
                                       /\ phase' = [phase EXCEPT ![r] = "recovering"]
        BY <1>t, <1>m, <2>1, <2>3 DEF OrphansFor
  <2> QED BY <1>3, <2>2, <2>3 DEF FindOrphan, Goto
<1>4. ASSUME NEW r \in Cli, Recover(r)
      PROVE  ProjectInv'
  <2>1. /\ phase[r] = "recovering" /\ phase' = [phase EXCEPT ![r] = "open"]
        /\ session' = [session EXCEPT ![r] = found[r]]
        /\ found' = [found EXCEPT ![r] = NoSession]
        BY <1>4 DEF Recover, Goto
  <2> QED BY <1>t, <1>m, <2>1
<1>5. CASE UNCHANGED <<phase, cwd, session, found, conn>>
      BY <1>5, <1>m
<1> QED BY <1>1, <1>2, <1>3, <1>4, <1>5, QuietStep

\* And holds at the start.
LEMMA ProjectInit == SessionInit => ProjectInv
BY DEF SessionInit, ProjectInv, Live, Session

\* The invariant of the projects.
LEMMA ProjectCorrect == SessionSpec => []ProjectInv
<1>1. SessionTypeInv /\ ProjectInv /\ [SessionNext]_sessionVars => ProjectInv'
      BY ProjectStep
<1> QED BY <1>1, ProjectInit, SessionTypeCorrect, PTL DEF SessionSpec

\* As long as a project has one relay at a time, two relays never work in the
\* same session, whatever connections are lost, evicted or replaced too early
\* (server.js:80).
THEOREM Distinct == SessionSpec => []SessionsDistinct
<1>1. SessionTypeInv /\ ProjectInv => SessionsDistinct
      BY DEF SessionTypeInv, SessionTypeOK, ProjectInv, SessionsDistinct, Live, Session
<1> QED BY <1>1, SessionTypeCorrect, ProjectCorrect, PTL

------------------------------------------------------------------------------

\* The connections over which a session has been named, or is being named
Named == DOMAIN relayClients \cup DOMAIN relayInits

\* The primary's connections are the relays' last ones; those that are not in
\* use any more will be closed
ConnInv ==
    /\ \A c \in browserClients \cup DOMAIN relayClients \cup closing \cup broken :
          c = Current(c[1]) /\ phase[c[1]] \notin {"new", "connecting"}
    /\ \A c \in browserClients \cup DOMAIN relayClients :
          c \in closing \/ (Connected(c[1]) /\ c \notin broken)
    /\ \A c \in closing : Connected(c[1]) => c \in broken
    /\ \A c \in broken : Connected(c[1])
    /\ \A r \in Cli : phase[r] \in {"finding", "recovering"} =>
          Current(r) \notin Named /\ Current(r) \in browserClients \cup broken
    /\ DOMAIN relayInits \subseteq browserClients

\* A connection names the session of its relay, and no other names the same
ClaimInv ==
    /\ \A c \in DOMAIN relayClients : relayClients[c] = session[c[1]]
    /\ \A c \in DOMAIN relayInits : relayInits[c] = session[c[1]]
    /\ \A c, d \in Named : session[c[1]] = session[d[1]] => c = d
    /\ \A c \in Named, r \in Cli : Live(r) /\ session[r] = session[c[1]] => c[1] = r
    /\ \A c \in Named, r \in Cli : phase[r] = "recovering" => session[c[1]] # found[r]

\* A session that is named over a connection is not up for recovery
RowInv ==
    /\ \A c \in DOMAIN relayClients : row[session[c[1]]] = "active"
    /\ SharedDb => \A c \in Named : row[session[c[1]]] # "orphaned"
    /\ \A r \in Cli : phase[r] = "recovering" => SharedDb

\* A relay that has not started is unknown
NewInv ==
    \A r \in Cli : phase[r] = "new" =>
        /\ row[r] = "none" /\ session[r] = r
        /\ \A q \in Cli \ {r} : session[q] # r /\ found[q] # r

\* No relay has been started beside another, none has reconnected too early
Calm == mishaps \subseteq {"evict"}
LiveInv == Calm => ConnInv /\ ClaimInv /\ RowInv /\ NewInv

\* Mishaps are never taken back.
LEMMA CalmBefore == [SessionNext]_sessionVars /\ Calm' => Calm
BY DEF Calm, SessionNext, RelayStep, DeliverSession, Start, Reconnect, FindOrphan, Recover,
   AcceptRelay, LoseRelay, Exit,
       UseTab, Drop, ExpireOrphan, CloseStale, HandleCleanup, sessionVars, ReceiveRelayInit,
          Close,
       Evict, relaySide, Mishap

\* SayInit names the session over the connection if that is still there.
LEMMA SaidInit ==
    ASSUME SessionTypeInv, ConnInv, NEW r \in Cli, phase[r] \in {"finding", "recovering"},
           NEW s \in Session, SayInit(r, s)
    PROVE  /\ DOMAIN relayInits' \subseteq DOMAIN relayInits \cup {Current(r)}
           /\ DOMAIN relayInits' \subseteq browserClients
           /\ Current(r) \in DOMAIN relayInits' => relayInits'[Current(r)] = s
           /\ \A c \in DOMAIN relayInits : c \in DOMAIN relayInits' /\ relayInits'[c] = relayInits[c]
<1>1. /\ Current(r) \notin DOMAIN relayInits /\ DOMAIN relayInits \subseteq browserClients
      /\ Current(r) \in browserClients \cup broken
      BY DEF ConnInv, Named
<1>2. /\ DOMAIN relayInits' = IF Current(r) \in broken THEN DOMAIN relayInits
                         ELSE DOMAIN relayInits \cup {Current(r)}
      /\ Current(r) \notin broken => relayInits'[Current(r)] = s
      /\ \A c \in DOMAIN relayInits : c # Current(r) => relayInits'[c] = relayInits[c]
      BY SayInitTypes
<1> QED BY <1>1, <1>2

\* ConnInv is inductive while nothing but evictions happens.
LEMMA ConnStep ==
    ASSUME SessionTypeInv, ConnInv, [SessionNext]_sessionVars, Calm'
    PROVE  ConnInv'
<1> USE DEF ConnInv, Named
<1>t. /\ conn \in [Cli -> 0 .. MaxSocket] /\ phase \in [Cli -> Phase]
      /\ browserClients \subseteq Socket /\ DOMAIN relayClients \subseteq Socket
      /\ DOMAIN relayInits \subseteq Socket
      /\ closing \subseteq Socket /\ broken \subseteq Socket
      /\ \A r \in Cli : phase[r] # "new" => Current(r) \in Socket
      BY CurrentIsConn DEF SessionTypeInv, SessionTypeOK
<1>c. \A c \in Socket : c[1] \in Cli /\ c[2] \in Int /\ c = <<c[1], c[2]>>
      BY DEF Socket
<1>k. \A r \in Cli : Current(r)[1] = r /\ Current(r)[2] = conn[r]
      BY DEF Current
<1>1. ASSUME NEW r \in Cli, Start(r) \/ Reconnect(r)
      PROVE  ConnInv'
  <2>1. /\ UNCHANGED <<browserClients, relayClients, relayInits, closing, broken>>
        /\ phase[r] \in {"new", "lost"} /\ phase' = [phase EXCEPT ![r] = "connecting"]
        /\ \A q \in Cli : q # r => conn'[q] = conn[q]
        /\ phase[r] = "lost" => Current(r) \notin closing
        BY <1>1, <1>t DEF Start, Reconnect, clientSide, Goto, Calm, Mishap
  <2>2. \A c \in browserClients \cup DOMAIN relayClients \cup closing \cup broken : c[1] # r
    <3> SUFFICES ASSUME NEW c \in browserClients \cup DOMAIN relayClients \cup closing \cup broken,
                        c[1] = r
                 PROVE  FALSE
        OBVIOUS
    <3>1. phase[r] = "lost" /\ c = Current(r)
          BY <2>1
    <3>2. c \notin closing
          BY <2>1, <3>1
    <3> QED BY <3>1, <3>2 DEF Connected
  <2>3. \A q \in Cli : q # r => Current(q)' = Current(q) /\ phase'[q] = phase[q]
        BY <2>1, <1>t DEF Current
  <2> QED BY <1>t, <1>c, <2>1, <2>2, <2>3 DEF Connected
<1>2. ASSUME NEW r \in Cli, AcceptRelay(r)
      PROVE  ConnInv'
  <2>1. /\ browserClients' = browserClients \cup {Current(r)}
        /\ UNCHANGED <<conn, relayClients, relayInits, closing, broken>>
        /\ phase[r] = "connecting" /\ phase' = [phase EXCEPT ![r] = "finding"]
        BY <1>2 DEF AcceptRelay, Goto
  <2>2. \A c \in browserClients \cup DOMAIN relayClients \cup closing \cup broken : c[1] # r
        BY <2>1
  <2>3. \A q \in Cli : Current(q)' = Current(q)
        BY <2>1 DEF Current
  <2> QED BY <1>t, <1>c, <1>k, <2>1, <2>2, <2>3 DEF Connected
<1>3. ASSUME NEW r \in Cli, FindOrphan(r) \/ Recover(r)
      PROVE  ConnInv'
  <2>1. /\ UNCHANGED <<conn, browserClients, relayClients, closing, broken>>
        /\ phase[r] \in {"finding", "recovering"}
        /\ \/ phase' = [phase EXCEPT ![r] = "recovering"] /\ UNCHANGED relayInits
           \/ /\ phase' = [phase EXCEPT ![r] = "open"]
              /\ \E s \in Session : SayInit(r, s)
        BY <1>3 DEF FindOrphan, Recover, Goto, SessionTypeInv, SessionTypeOK
  <2>2. /\ DOMAIN relayInits' \subseteq browserClients
        /\ DOMAIN relayInits' \subseteq DOMAIN relayInits \cup {Current(r)}
        BY <2>1, SaidInit
  <2>3. \A q \in Cli : Current(q)' = Current(q)
        BY <2>1 DEF Current
  <2>4. \A q \in Cli \ {r} : Current(q) # Current(r)
        BY <1>k
  <2> QED BY <1>t, <1>c, <1>k, <2>1, <2>2, <2>3, <2>4 DEF Connected
<1>4. ASSUME NEW r \in Cli, LoseRelay(r) \/ Exit(r)
      PROVE  ConnInv'
  <2>1. /\ UNCHANGED <<conn, browserClients, relayClients, relayInits>>
        /\ broken' = broken \ {Current(r)}
        /\ phase[r] \in {"open", "lost"}
        /\ \/ phase' = [phase EXCEPT ![r] = "lost"] /\ Current(r) \in broken /\ UNCHANGED closing
           \/ /\ phase' = [phase EXCEPT ![r] = "exited"]
              /\ closing' = IF /\ phase[r] = "open"
                               /\ Current(r) \in browserClients \cup DOMAIN relayClients
                            THEN closing \cup {Current(r)} ELSE closing
        BY <1>4 DEF LoseRelay, Exit, Goto, clientSide
  <2>2. \A q \in Cli : Current(q)' = Current(q)
        BY <2>1 DEF Current
  <2> QED BY <1>t, <1>c, <1>k, <2>1, <2>2 DEF Connected
<1>5. ASSUME NEW r \in Cli, Drop(r)
      PROVE  ConnInv'
  <2>1. \A q \in Cli : Current(q)' = Current(q)
        BY <1>5 DEF Drop, Current
  <2> QED BY <1>t, <1>c, <1>k, <1>5, <2>1 DEF Drop, Connected
<1>6. ASSUME NEW c \in Socket, ReceiveRelayInit(c)
      PROVE  ConnInv'
  <2>1. \A q \in Cli : Current(q)' = Current(q)
        BY <1>6 DEF ReceiveRelayInit, relaySide, Current
  <2>2. DOMAIN Forget(relayInits, c) = DOMAIN relayInits \ {c}
        BY ForgetTypes
  <2>3. DOMAIN Put(relayClients, c, relayInits[c]) = DOMAIN relayClients \cup {c}
        BY DEF Put
  <2>4. /\ c \in DOMAIN relayInits /\ DOMAIN relayInits' = DOMAIN relayInits \ {c}
        /\ browserClients' = browserClients \ {c}
        /\ DOMAIN relayClients' = DOMAIN relayClients \cup {c}
        /\ UNCHANGED <<phase, conn, broken, closing>>
        BY <1>6, <2>2, <2>3 DEF ReceiveRelayInit, relaySide
  <2> QED BY <1>t, <1>c, <1>k, <2>1, <2>4 DEF Connected
<1>7. ASSUME NEW c \in Socket, Close(c)
      PROVE  ConnInv'
  <2>1. \A q \in Cli : Current(q)' = Current(q)
        BY <1>7 DEF Close, relaySide, Current
  <2>2. /\ DOMAIN Forget(relayInits, c) = DOMAIN relayInits \ {c}
        /\ DOMAIN Forget(relayClients, c) = DOMAIN relayClients \ {c}
        BY ForgetTypes
  <2>3. /\ c \in closing /\ DOMAIN relayInits' = DOMAIN relayInits \ {c}
        /\ browserClients' = browserClients \ {c}
        /\ DOMAIN relayClients' = DOMAIN relayClients \ {c}
        /\ closing' = closing \ {c} /\ UNCHANGED <<phase, conn, broken>>
        BY <1>7, <2>2 DEF Close, relaySide
  <2> QED BY <1>t, <1>c, <1>k, <2>1, <2>3 DEF Connected
<1>8. ASSUME NEW c \in Socket, Evict(c)
      PROVE  ConnInv'
  <2>1. \A q \in Cli : Current(q)' = Current(q)
        BY <1>8 DEF Evict, Current
  <2>2. DOMAIN Forget(relayClients, c) = DOMAIN relayClients \ {c}
        BY ForgetTypes
  <2>3. /\ c \in DOMAIN relayClients /\ DOMAIN relayClients' = DOMAIN relayClients \ {c}
        /\ closing' = closing \cup {c}
        /\ broken' = broken \cup {d \in {c} : Connected(d[1]) /\ Current(d[1]) = d}
        /\ UNCHANGED <<phase, conn, browserClients, relayInits>>
        BY <1>8, <2>2 DEF Evict
  <2> QED BY <1>t, <1>c, <1>k, <2>1, <2>3 DEF Connected
<1>9. CASE UNCHANGED <<phase, conn, broken, browserClients, relayClients, relayInits,
                       closing>>
      BY <1>9 DEF Connected, Current
<1> QED
    BY <1>1, <1>2, <1>3, <1>4, <1>5, <1>6, <1>7, <1>8, <1>9
    DEF SessionNext, RelayStep, DeliverSession, UseTab, ExpireOrphan, CloseStale,
       HandleCleanup, sessionVars,
        relaySide, clientSide

\* What the proof of ClaimStep goes by: two relays at work have nothing in
\* common, and a connection that names a session is the last of its relay.
LEMMA Apart ==
    ASSUME SessionTypeInv, ProjectInv, ConnInv, Calm
    PROVE  /\ \A r, q \in Cli : Live(r) /\ Live(q) /\ session[r] = session[q] => r = q
           /\ \A r, q \in Cli : r # q /\ Live(r) /\ phase[q] = "recovering" => found[q] # session[r]
           /\ \A r, q \in Cli : r # q /\ phase[r] = "recovering" /\ phase[q] = "recovering"
                                    => found[q] # found[r]
           /\ \A c \in Named : c \in Socket /\ c[1] \in Cli /\ c = Current(c[1]) /\ phase[c[1]] # "new"
           /\ \A c \in Named : phase[c[1]] \notin {"finding", "recovering"}
                               \/ c # Current(c[1])
<1>1. \A r, q \in Cli : r # q /\ Live(r) /\ Live(q) => cwd[r] # cwd[q]
      BY DEF ProjectInv, Calm
<1>2. \A c \in Named : c \in Socket /\ c[1] \in Cli /\ c = Current(c[1]) /\ phase[c[1]] # "new"
      BY DEF ConnInv, Named, SessionTypeInv, SessionTypeOK, Socket
<1> QED BY <1>1, <1>2 DEF ProjectInv, Live, ConnInv

\* What ClaimStep keeps
NameInv == ClaimInv /\ RowInv /\ NewInv

\* NameInv is inductive while nothing but evictions happens.
LEMMA ClaimStep ==
    ASSUME SessionTypeInv, ProjectInv, ConnInv, NameInv, Calm,
           [SessionNext]_sessionVars
    PROVE  NameInv'
<1> USE DEF NameInv, ClaimInv, RowInv, NewInv, Live, Named
<1>t. /\ phase \in [Cli -> Phase] /\ session \in [Cli -> Cli]
      /\ found \in [Cli -> Cli \cup {NoSession}] /\ row \in [Cli -> RowState]
      /\ \A r \in Cli : phase[r] = "recovering" => found[r] \in Cli
      BY DEF SessionTypeInv, SessionTypeOK, Session
<1>a. /\ \A r, q \in Cli : Live(r) /\ Live(q) /\ session[r] = session[q] => r = q
      /\ \A r, q \in Cli : r # q /\ Live(r) /\ phase[q] = "recovering" => found[q] # session[r]
      /\ \A r, q \in Cli : r # q /\ phase[r] = "recovering" /\ phase[q] = "recovering"
                               => found[q] # found[r]
      /\ \A c \in Named : c[1] \in Cli /\ c = Current(c[1]) /\ phase[c[1]] # "new"
      BY Apart
<1>k. \A r \in Cli : Current(r)[1] = r
      BY DEF Current
<1>1. ASSUME NEW r \in Cli,
             Start(r) \/ Reconnect(r) \/ AcceptRelay(r) \/ LoseRelay(r) \/ Exit(r)
      PROVE  NameInv'
  <2>1. /\ UNCHANGED <<session, found, relayClients, relayInits, row>> /\ phase[r] # "exited"
        /\ \E l \in Phase \ {"new", "recovering"} : phase' = [phase EXCEPT ![r] = l]
        BY <1>1 DEF Start, Reconnect, AcceptRelay, LoseRelay, Exit, Goto, Phase, clientSide,
           db
  <2> QED BY <1>t, <1>a, <2>1
<1>2. ASSUME NEW r \in Cli, FindOrphan(r), phase'[r] = "open"
      PROVE  NameInv'
  <2>1. /\ UNCHANGED <<session, found, relayClients, row>> /\ phase[r] = "finding"
        /\ OrphansFor(r) = {} /\ SayInit(r, session[r])
        /\ phase' = [phase EXCEPT ![r] = "open"]
        BY <1>2, <1>t DEF FindOrphan, Goto, db
  <2>2. /\ DOMAIN relayInits' \subseteq DOMAIN relayInits \cup {Current(r)}
        /\ Current(r) \in DOMAIN relayInits' => relayInits'[Current(r)] = session[r]
        /\ \A c \in DOMAIN relayInits : c \in DOMAIN relayInits' /\ relayInits'[c] = relayInits[c]
        BY <2>1, <1>t, SaidInit DEF Session
  <2>3. Current(r) \notin Named
        BY <2>1 DEF ConnInv
  <2>4. SharedDb => row[session[r]] # "orphaned"
        BY <2>1, <1>t DEF OrphansFor, Orphans, Session, ProjectInv
  <2>5. \A c \in Named : session[c[1]] # session[r]
        BY <2>1, <2>3, <1>a
  <2>6. ClaimInv'
        BY <2>1, <2>2, <2>3, <2>5, <1>t, <1>a, <1>k
  <2>7. RowInv'
        BY <2>1, <2>2, <2>4, <1>t, <1>k
  <2>8. NewInv'
        BY <2>1, <1>t
  <2> QED BY <2>6, <2>7, <2>8
<1>3. ASSUME NEW r \in Cli, FindOrphan(r), phase'[r] # "open"
      PROVE  NameInv'
  <2>1. /\ UNCHANGED <<session, relayClients, relayInits, row>> /\ phase[r] = "finding"
        /\ phase' = [phase EXCEPT ![r] = "recovering"]
        BY <1>3, <1>t DEF FindOrphan, Goto, db
  <2>2. PICK s \in OrphansFor(r) : found' = [found EXCEPT ![r] = s]
        BY <1>3, <1>t DEF FindOrphan, Goto
  <2>3. s \in Cli /\ row[s] = "orphaned" /\ SharedDb
        BY <2>2 DEF OrphansFor, Orphans, Session
  <2>4. \A c \in Named : session[c[1]] # s
        BY <2>3
  <2> QED BY <2>1, <2>2, <2>3, <2>4, <1>t, <1>a
<1>4. ASSUME NEW r \in Cli, Recover(r)
      PROVE  NameInv'
  <2> DEFINE s == found[r]
  <2>1. /\ UNCHANGED relayClients /\ phase[r] = "recovering" /\ SayInit(r, s) /\ s \in Cli
        /\ session' = [session EXCEPT ![r] = s] /\ found' = [found EXCEPT ![r] = NoSession]
        /\ row' = [row EXCEPT ![s] = IF row[s] = "none" THEN "none" ELSE "recovered"]
        /\ phase' = [phase EXCEPT ![r] = "open"]
        BY <1>4, <1>t DEF Recover, Goto, SetRow
  <2>2. /\ DOMAIN relayInits' \subseteq DOMAIN relayInits \cup {Current(r)}
        /\ Current(r) \in DOMAIN relayInits' => relayInits'[Current(r)] = s
        /\ \A c \in DOMAIN relayInits : c \in DOMAIN relayInits' /\ relayInits'[c] = relayInits[c]
        BY <2>1, <1>t, SaidInit DEF Session
  <2>3. Current(r) \notin Named
        BY <2>1 DEF ConnInv
  <2>4. \A c \in Named : c[1] # r /\ session'[c[1]] = session[c[1]] /\ session[c[1]] # s
        BY <2>1, <2>3, <1>t, <1>a
  <2>5. session'[r] = s /\ phase[s] # "new" /\ row'[s] \in {"none", "recovered"}
        BY <2>1, <1>t
  <2>6. ClaimInv'
        BY <2>1, <2>2, <2>3, <2>4, <2>5, <1>t, <1>a, <1>k
  <2>7. RowInv'
        BY <2>1, <2>2, <2>4, <2>5, <1>t, <1>a, <1>k
  <2>8. NewInv'
        BY <2>1, <2>5, <1>t, NoSessionAssumption
  <2> QED BY <2>6, <2>7, <2>8
<1>5. ASSUME NEW c \in Socket, ReceiveRelayInit(c)
      PROVE  NameInv'
  <2>1. /\ c \in DOMAIN relayInits /\ UNCHANGED <<phase, session, found>>
        /\ relayInits' = Forget(relayInits,
           c) /\ relayClients' = IF c \in browserClients THEN Put(relayClients, c,
              relayInits[c]) ELSE relayClients
        /\ row' = [row EXCEPT ![relayInits[c]] = "active"]
        BY <1>5 DEF ReceiveRelayInit, SaveRelay, SetRow, relaySide
  <2>2. /\ DOMAIN relayInits' \subseteq DOMAIN relayInits
        /\ \A d \in DOMAIN relayInits' : relayInits'[d] = relayInits[d]
        BY <2>1 DEF Forget, Restrict
  <2>3. /\ DOMAIN relayClients' \subseteq DOMAIN relayClients \cup {c}
        /\ \A d \in DOMAIN relayClients' : relayClients'[d] =
              IF d = c /\ c \in browserClients THEN relayInits[c] ELSE relayClients[d]
        /\ c \in DOMAIN relayClients' => relayClients'[c] = session[c[1]]
        BY <2>1 DEF Put
  <2>4. /\ relayInits[c] = session[c[1]] /\ session[c[1]] \in Cli
        /\ c[1] \in Cli /\ phase[c[1]] # "new"
        BY <2>1, <1>a, <1>t
  <2>5. row' \in [Cli -> RowState] /\ row'[session[c[1]]] = "active"
        /\ \A x \in Cli : x # session[c[1]] => row'[x] = row[x]
        BY <2>1, <2>4, <1>t DEF RowState
  <2>6. ClaimInv'
        BY <2>1, <2>2, <2>3, <2>4, <1>t, <1>a
  <2>7. RowInv'
        BY <2>1, <2>2, <2>3, <2>4, <2>5, <1>t, <1>a
  <2>8. NewInv'
        BY <2>1, <2>4, <2>5, <1>t
  <2> QED BY <2>6, <2>7, <2>8
<1>6. ASSUME NEW c \in Socket, Close(c)
      PROVE  NameInv'
  <2>1. /\ UNCHANGED <<phase, session, found>>
        /\ relayInits' = Forget(relayInits, c) /\ relayClients' = Forget(relayClients, c)
        /\ \/ UNCHANGED row
           \/ /\ c \in DOMAIN relayClients /\ row[relayClients[c]] # "none"
              /\ row' = [row EXCEPT ![relayClients[c]] = "orphaned"]
        BY <1>6 DEF Close, MarkOrphaned, SetRow, relaySide, db
  <2>2. /\ DOMAIN relayInits' = DOMAIN relayInits \ {c}
        /\ DOMAIN relayClients' = DOMAIN relayClients \ {c}
        /\ \A d \in DOMAIN relayInits' : relayInits'[d] = relayInits[d]
        /\ \A d \in DOMAIN relayClients' : relayClients'[d] = relayClients[d]
        BY <2>1 DEF Forget, Restrict
  <2>3. \A d \in Named' : d \in Named /\ d # c /\ row'[session[d[1]]] = row[session[d[1]]]
        BY <2>1, <2>2, <1>t, <1>a
  <2>4. \A x \in Cli : row[x] = "none" => row'[x] = "none"
        BY <2>1, <1>t
  <2> QED BY <2>1, <2>2, <2>3, <2>4, <1>t, <1>a
<1>7. ASSUME NEW c \in Socket, Evict(c)
      PROVE  NameInv'
  <2>1. /\ UNCHANGED <<phase, session, found, relayInits, row>>
        /\ relayClients' = Forget(relayClients, c)
        BY <1>7 DEF Evict, db
  <2>2. /\ DOMAIN relayClients' = DOMAIN relayClients \ {c}
        /\ \A d \in DOMAIN relayClients' : relayClients'[d] = relayClients[d]
        BY <2>1 DEF Forget, Restrict
  <2> QED BY <2>1, <2>2, <1>t, <1>a
<1>8. ASSUME NEW s \in Session, ExpireOrphan(s)
      PROVE  NameInv'
  <2>1. /\ UNCHANGED <<phase, session, found, relayClients, relayInits>>
        /\ row[s] = "orphaned" /\ row' = [row EXCEPT ![s] = "none"]
        BY <1>8 DEF ExpireOrphan, SetRow, relaySide, clientSide
  <2>2. /\ \A x \in Cli : row[x] = "active" => row'[x] = "active"
        /\ \A x \in Cli : row[x] = "none" => row'[x] = "none"
        /\ \A x \in Cli : row'[x] = "orphaned" => row[x] = "orphaned"
        BY <2>1, <1>t
  <2> QED BY <2>1, <2>2, <1>t, <1>a
<1>9. CASE UNCHANGED <<phase, session, found, relayClients, relayInits, row>>
      BY <1>9
<1> QED
    BY <1>1, <1>2, <1>3, <1>4, <1>5, <1>6, <1>7, <1>8, <1>9
    DEF SessionNext, RelayStep, DeliverSession, UseTab, Drop, CloseStale, HandleCleanup,
       sessionVars,
        relaySide, clientSide, db

\* LiveInv holds at the start.
LEMMA LiveInit == ASSUME SessionInit PROVE LiveInv
<1> SUFFICES ConnInv /\ ClaimInv /\ RowInv /\ NewInv
    BY DEF LiveInv
<1>1. DOMAIN relayClients = {} /\ DOMAIN relayInits = {}
      BY DEF SessionInit
<1> QED BY <1>1, NoSessionAssumption DEF SessionInit, ConnInv, ClaimInv, RowInv, NewInv,
        Named, Session

\* The invariant of the rows.
LEMMA LiveCorrect == SessionSpec => []LiveInv
<1>1. SessionTypeInv /\ ProjectInv /\ LiveInv /\ [SessionNext]_sessionVars => LiveInv'
  <2> SUFFICES ASSUME SessionTypeInv, ProjectInv, LiveInv, [SessionNext]_sessionVars, Calm'
               PROVE  (ConnInv /\ ClaimInv /\ RowInv /\ NewInv)'
      BY DEF LiveInv
  <2>1. Calm
        BY CalmBefore
  <2> QED BY <2>1, ConnStep, ClaimStep DEF LiveInv, NameInv
<1>2. SessionInit => LiveInv
      BY LiveInit
<1> QED BY <1>1, <1>2, SessionTypeCorrect, ProjectCorrect, PTL DEF SessionSpec

\* The row of a session in use stays active through every loss, eviction and
\* recovery, as long as no relay is started beside another of its project and
\* none reconnects before its old close is noticed: no other relay recovers it
\* and it does not expire (context-manager.js:101-140).
THEOREM RowKept == SessionSpec => []LiveNotOrphaned
<1>1. SessionTypeInv /\ LiveInv => LiveNotOrphaned
      BY DEF LiveInv, Calm, ClaimInv, RowInv, LiveNotOrphaned, Registered, Named, Current
<1> QED BY <1>1, SessionTypeCorrect, LiveCorrect, PTL

==============================================================================
