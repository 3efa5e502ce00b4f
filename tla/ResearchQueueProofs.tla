------------------------- MODULE ResearchQueueProofs -------------------------
(***************************************************************************)
(* Theorems about ResearchQueue, for every set of sessions and every bound *)
(* on numbers and faults.                                                  *)
(***************************************************************************)
EXTENDS ResearchQueue, FiniteSetTheorems, TLAPS

\* The session is inside acquire_slot and has drawn a number
HasNumber(p) == pc[p] \notin {"idle", "dead"}

\* What TypeOK needs to be inductive: a run has a number wherever it uses one,
\* its heartbeat thread runs only inside it, and is stopped on the way out;
\* the touch writes back what it has read.
LocOK(p) ==
    /\ HasNumber(p) => seq[p] \in Seqs
    /\ hb[p] # "off" => HasNumber(p)
    /\ pc[p] \in {"unlink", "leave", "publish", "log"} => hb[p] = "off"
    /\ pc[p] \in InSnap /\ ret[p] = "leave" => hb[p] = "off"
    /\ pc[p] = "touchWrite" => buf[p] \in Stamp
    /\ pc[p] \in {"stop", "unlink"} => ret[p] = "leave"
LocInv == \A p \in Session : LocOK(p)

TypeInv == TypeOK /\ LocInv

\* Where live_tickets goes from its scan to its second listing.
LEMMA ScanLocations ==
    /\ DOMAIN AfterScan = {"scan", "rescan", "snapScan"}
    /\ AfterScan["scan"] = "head"
    /\ AfterScan["rescan"] = "recheck"
    /\ AfterScan["snapScan"] = "snapList"
BY DEF AfterScan

\* What publish_snapshot lists is a snapshot.
LEMMA ListingType ==
    ASSUME NEW S \in SUBSET Seqs PROVE Listing(S) \in SnapshotType
BY DEF Listing, SnapshotType

\* A listing shows tickets that gc left, and at most spends an error.
LEMMA ListsFacts ==
    ASSUME TypeOK, NEW p \in Session, NEW S, Lists(p, S)
    PROVE  /\ S \subseteq Tickets \ doomed[p]
           /\ faults' \in [FaultKind -> Nat]
           /\ faults'["crash"] = faults["crash"] /\ faults'["stall"] = faults["stall"]
           /\ \/ faults'["error"] = faults["error"] /\ S = Tickets \ doomed[p]
              \/ faults'["error"] = faults["error"] + 1
BY DEF Lists, Spend, FaultKind, TypeOK

\* The queue starts well typed.
LEMMA TypeInit == Init => TypeInv
BY BoundAssumption DEF Init, TypeInv, TypeOK, LocInv, LocOK, HasNumber, Seqs,
   Stamp, SnapshotType, Blank, Location, InPoll, InSnap, InStamp, InExit, FaultKind

\* No action of the queue breaks a type.
LEMMA TypeStep == TypeInv /\ [Next]_vars => TypeOK'
<1> SUFFICES ASSUME TypeInv, [Next]_vars PROVE TypeOK'
  OBVIOUS
<1> USE DEF TypeInv, TypeOK, LocInv, LocOK, HasNumber, Seqs, Stamp, Location,
            InPoll, InSnap, InStamp, InExit, FaultKind, dir, Goto, Put, Remove,
            Reap, Spend, Tickets, Blank, SnapshotType
<1>1. ASSUME NEW p \in Session, Draw(p) PROVE TypeOK'
  BY <1>1, BoundAssumption DEF Draw
<1>2. ASSUME NEW p \in Session, WriteTicket(p) PROVE TypeOK'
  BY <1>2 DEF WriteTicket
<1>3. ASSUME NEW p \in Session, Scan(p) PROVE TypeOK'
  BY <1>3, ScanLocations DEF Scan
<1>4. ASSUME NEW p \in Session, Head(p) PROVE TypeOK'
  <2>1. PICK S \in SUBSET Tickets :
          Lists(p, S) /\ Goto(p, IF IsHead(p, S) THEN "try" ELSE "wait")
    BY <1>4 DEF Head
  <2>2. faults' \in [FaultKind -> Nat]
    BY <2>1, ListsFacts
  <2> HIDE DEF FaultKind
  <2> QED BY <1>4, <2>1, <2>2 DEF Head
<1>5. ASSUME NEW p \in Session, TryLock(p) PROVE TypeOK'
  BY <1>5 DEF TryLock
<1>6. ASSUME NEW p \in Session, Recheck(p) PROVE TypeOK'
  <2>1. PICK S \in SUBSET Tickets :
          /\ Lists(p, S)
          /\ \/ Goto(p, "stamp") /\ UNCHANGED lock
             \/ Goto(p, "scan") /\ lock' = NoSession
    BY <1>6 DEF Recheck
  <2>2. faults' \in [FaultKind -> Nat]
    BY <2>1, ListsFacts
  <2> HIDE DEF FaultKind
  <2> QED BY <1>6, <2>1, <2>2 DEF Recheck
<1>7. ASSUME NEW p \in Session, Expire(p) PROVE TypeOK'
  BY <1>7 DEF Expire
<1>8. ASSUME NEW p \in Session, KeepWaiting(p) PROVE TypeOK'
  BY <1>8 DEF KeepWaiting
<1>9. ASSUME NEW p \in Session, TouchRead(p) PROVE TypeOK'
  <2>1. seq[p] \in 1 .. MaxSeq
    BY <1>9 DEF TouchRead
  <2>2. disk[seq[p]] \in {"absent", "waiting", "active"}
    BY <2>1
  <2>3. /\ buf' \in [Session -> {"none", "old", "new"} \cup Stamp]
        /\ pc' \in [Session -> Location]
        /\ ret' \in [Session -> {"scan", "running", "leave"}]
    <3>1. CASE disk[seq[p]] = "absent"
      BY <1>9, <3>1 DEF TouchRead
    <3>2. CASE disk[seq[p]] \in Stamp
      BY <1>9, <3>2 DEF TouchRead
    <3> QED BY <2>2, <3>1, <3>2
  <2> HIDE DEF Stamp, Location, Goto
  <2> QED BY <1>9, <2>3 DEF TouchRead
<1>10. ASSUME NEW p \in Session, TouchWrite(p) PROVE TypeOK'
  BY <1>10 DEF TouchWrite
<1>11. ASSUME NEW p \in Session, SnapList(p) PROVE TypeOK'
  <2>1. PICK S \in SUBSET Tickets : Lists(p, S) /\ text' = [text EXCEPT ![p] = Listing(S)]
    BY <1>11 DEF SnapList
  <2>2. faults' \in [FaultKind -> Nat] /\ Listing(S) \in SnapshotType
    BY <2>1, ListsFacts, ListingType DEF Tickets
  <2>3. text' \in [Session -> SnapshotType]
    BY <2>1, <2>2
  <2> HIDE DEF FaultKind, SnapshotType
  <2> QED BY <1>11, <2>2, <2>3 DEF SnapList
<1>12. ASSUME NEW p \in Session, SnapWrite(p) PROVE TypeOK'
  BY <1>12 DEF SnapWrite
<1>13. ASSUME NEW p \in Session, SnapError(p) PROVE TypeOK'
  <2>1. /\ pc' \in [Session -> Location]
        /\ ret' \in [Session -> {"scan", "running", "leave"}]
        /\ hb' \in [Session -> {"off", "sleep"} \cup Stamp]
    BY <1>13 DEF SnapError, Abandon
  <2>2. orphan' \subseteq Seqs
    <3>1. seq[p] \in 1 .. MaxSeq
      BY <1>13 DEF SnapError, Abandon
    <3>2. orphan' = orphan \/ orphan' = orphan \cup {seq[p]}
      BY <1>13 DEF SnapError, Abandon
    <3>3. orphan \subseteq Seqs
      OBVIOUS
    <3> HIDE DEF TypeInv
    <3> QED BY <3>1, <3>2, <3>3
  <2>3. faults' \in [FaultKind -> Nat]
    BY <1>13 DEF SnapError, Abandon
  <2>4. text' \in [Session -> SnapshotType]
    BY <1>13 DEF SnapError, Abandon
  <2> HIDE DEF Stamp, Location, Goto, FaultKind, SnapshotType
  <2> QED BY <1>13, <2>1, <2>2, <2>3, <2>4 DEF SnapError, Abandon
<1>14. ASSUME NEW p \in Session, StampRead(p) PROVE TypeOK'
  BY <1>14 DEF StampRead
<1>15. ASSUME NEW p \in Session, StampWrite(p) PROVE TypeOK'
  <2>1. seq[p] \in 1 .. MaxSeq
    BY <1>15 DEF StampWrite
  <2>2. stale' \subseteq 1 .. MaxSeq
    BY <1>15, <2>1 DEF StampWrite
  <2> QED BY <1>15, <2>1, <2>2 DEF StampWrite
<1>16. ASSUME NEW p \in Session, Release(p) PROVE TypeOK'
  BY <1>16 DEF Release
<1>17. ASSUME NEW p \in Session, StopHeartbeat(p) PROVE TypeOK'
  BY <1>17 DEF StopHeartbeat
<1>18. ASSUME NEW p \in Session, JoinTimeout(p) PROVE TypeOK'
  <2>1. seq[p] \in 1 .. MaxSeq
    BY <1>18 DEF JoinTimeout
  <2>2. ghost' \subseteq [seq : 1 .. MaxSeq, state : Stamp, pid : Session]
    BY <1>18, <2>1 DEF JoinTimeout
  <2> QED BY <1>18, <2>2 DEF JoinTimeout
<1>19. ASSUME NEW p \in Session, Unlink(p) PROVE TypeOK'
  BY <1>19 DEF Unlink
<1>20. ASSUME NEW p \in Session, Leave(p) PROVE TypeOK'
  BY <1>20, BoundAssumption DEF Leave
<1>21. ASSUME NEW p \in Session, HbRead(p) PROVE TypeOK'
  BY <1>21 DEF HbRead
<1>22. ASSUME NEW p \in Session, HbWrite(p) PROVE TypeOK'
  BY <1>22 DEF HbWrite
<1>23. ASSUME NEW g \in ghost, GhostWrite(g) PROVE TypeOK'
  BY <1>23 DEF GhostWrite
<1>24. ASSUME NEW p \in Session, Crash(p) PROVE TypeOK'
  <2>1. 0 \in 0 .. MaxSeq
    BY BoundAssumption
  <2>2. faults' \in [FaultKind -> Nat]
    BY <1>24 DEF Crash
  <2>3. /\ text' \in [Session -> SnapshotType] /\ doomed' \in [Session -> SUBSET Seqs]
        /\ ghost' \subseteq ghost /\ orphan' \subseteq orphan
    BY <1>24 DEF Crash
  <2> QED BY <1>24, <2>1, <2>2, <2>3 DEF Crash
<1>25. ASSUME NEW p \in Session, ReusePid(p) PROVE TypeOK'
  BY <1>25 DEF ReusePid
<1>26. ASSUME NEW s \in Seqs, Age(s) PROVE TypeOK'
  BY <1>26 DEF Age
<1>27. ASSUME NEW p \in Session, Wedge(p) PROVE TypeOK'
  <2>1. seq[p] \in 1 .. MaxSeq
    BY <1>27 DEF Wedge
  <2>2. stale' \subseteq 1 .. MaxSeq
    BY <1>27, <2>1 DEF Wedge
  <2> QED BY <1>27, <2>2 DEF Wedge
<1>28. CASE Suspend
  BY <1>28 DEF Suspend
<1>29. CASE UNCHANGED vars
  BY <1>29 DEF vars
<1>30. ASSUME NEW p \in Session, LogEnqueued(p) PROVE TypeOK'
  BY <1>30 DEF LogEnqueued
<1>31. ASSUME NEW p \in Session, EnqueueError(p) PROVE TypeOK'
  BY <1>31 DEF EnqueueError
<1>32. ASSUME NEW p \in Session, GcSkips(p) PROVE TypeOK'
  BY <1>32, SMTT(30) DEF GcSkips
<1>33. ASSUME NEW p \in Session, SkipTicket(p) PROVE TypeOK'
  BY <1>33 DEF SkipTicket
<1>34. ASSUME NEW p \in Session, LogError(p) PROVE TypeOK'
  <2>1. orphan' \subseteq Seqs
    <3>1. orphan' = orphan \cup {seq[p]} /\ seq[p] \in 1 .. MaxSeq
      BY <1>34 DEF LogError, Abandon
    <3> QED BY <3>1
  <2>2. faults' \in [FaultKind -> Nat]
    BY <1>34 DEF LogError
  <2>3. /\ pc' \in [Session -> Location] /\ hb' \in [Session -> {"off", "sleep"} \cup Stamp]
        /\ ret' \in [Session -> {"scan", "running", "leave"}]
    BY <1>34 DEF LogError, Abandon
  <2> HIDE DEF FaultKind, Location, Stamp, Goto, Abandon
  <2> QED BY <1>34, <2>1, <2>2, <2>3 DEF LogError
<1>35. ASSUME NEW p \in Session, UnlinkError(p) PROVE TypeOK'
  BY <1>35 DEF UnlinkError
<1>36. ASSUME NEW p \in Session, HbSkip(p) PROVE TypeOK'
  BY <1>36 DEF HbSkip
<1> QED
  BY <1>1, <1>2, <1>3, <1>4, <1>5, <1>6, <1>7, <1>8, <1>9, <1>10,
     <1>11, <1>12, <1>13, <1>14, <1>15, <1>16, <1>17, <1>18, <1>19, <1>20,
     <1>21, <1>22, <1>23, <1>24, <1>25, <1>26, <1>27, <1>28, <1>29, <1>30,
     <1>31, <1>32, <1>33, <1>34, <1>35, <1>36
     DEF Next, Step, Heartbeat, Fault, FileError

\* A run keeps its number and its buffers from write_ticket to the way out.
LEMMA LocStep == TypeInv /\ [Next]_vars => LocInv'
<1> SUFFICES ASSUME TypeInv, [Next]_vars, NEW q \in Session PROVE LocOK(q)'
  BY DEF LocInv
<1> USE DEF TypeInv, TypeOK, LocInv, LocOK, HasNumber, Seqs, Stamp, Location,
            InPoll, InSnap, InStamp, InExit, dir, Goto, Put
<1>1. ASSUME NEW p \in Session, Draw(p) PROVE LocOK(q)'
  BY <1>1, BoundAssumption DEF Draw
<1>2. ASSUME NEW p \in Session, WriteTicket(p) PROVE LocOK(q)'
  BY <1>2 DEF WriteTicket
<1>3. ASSUME NEW p \in Session, Scan(p) PROVE LocOK(q)'
  BY <1>3, ScanLocations DEF Scan
<1>4. ASSUME NEW p \in Session, Head(p) PROVE LocOK(q)'
  BY <1>4 DEF Head, Lists
<1>5. ASSUME NEW p \in Session, TryLock(p) PROVE LocOK(q)'
  BY <1>5 DEF TryLock
<1>6. ASSUME NEW p \in Session, Recheck(p) PROVE LocOK(q)'
  BY <1>6 DEF Recheck, Lists
<1>7. ASSUME NEW p \in Session, Expire(p) PROVE LocOK(q)'
  BY <1>7 DEF Expire
<1>8. ASSUME NEW p \in Session, KeepWaiting(p) PROVE LocOK(q)'
  BY <1>8 DEF KeepWaiting
<1>9. ASSUME NEW p \in Session, TouchRead(p) PROVE LocOK(q)'
  BY <1>9 DEF TouchRead
<1>10. ASSUME NEW p \in Session, TouchWrite(p) PROVE LocOK(q)'
  BY <1>10 DEF TouchWrite
<1>11. ASSUME NEW p \in Session, SnapList(p) PROVE LocOK(q)'
  BY <1>11 DEF SnapList, Lists
<1>12. ASSUME NEW p \in Session, SnapWrite(p) PROVE LocOK(q)'
  BY <1>12 DEF SnapWrite
<1>13. ASSUME NEW p \in Session, SnapError(p) PROVE LocOK(q)'
  BY <1>13 DEF SnapError, Abandon
<1>14. ASSUME NEW p \in Session, StampRead(p) PROVE LocOK(q)'
  BY <1>14 DEF StampRead
<1>15. ASSUME NEW p \in Session, StampWrite(p) PROVE LocOK(q)'
  BY <1>15 DEF StampWrite
<1>16. ASSUME NEW p \in Session, Release(p) PROVE LocOK(q)'
  BY <1>16 DEF Release
<1>17. ASSUME NEW p \in Session, StopHeartbeat(p) PROVE LocOK(q)'
  BY <1>17 DEF StopHeartbeat
<1>18. ASSUME NEW p \in Session, JoinTimeout(p) PROVE LocOK(q)'
  BY <1>18 DEF JoinTimeout
<1>19. ASSUME NEW p \in Session, Unlink(p) PROVE LocOK(q)'
  BY <1>19 DEF Unlink
<1>20. ASSUME NEW p \in Session, Leave(p) PROVE LocOK(q)'
  BY <1>20 DEF Leave
<1>21. ASSUME NEW p \in Session, HbRead(p) PROVE LocOK(q)'
  BY <1>21 DEF HbRead
<1>22. ASSUME NEW p \in Session, HbWrite(p) PROVE LocOK(q)'
  BY <1>22 DEF HbWrite
<1>23. ASSUME NEW g \in ghost, GhostWrite(g) PROVE LocOK(q)'
  BY <1>23 DEF GhostWrite
<1>24. ASSUME NEW p \in Session, Crash(p) PROVE LocOK(q)'
  BY <1>24 DEF Crash
<1>25. ASSUME NEW p \in Session, ReusePid(p) PROVE LocOK(q)'
  BY <1>25 DEF ReusePid
<1>26. ASSUME NEW s \in Seqs, Age(s) PROVE LocOK(q)'
  BY <1>26 DEF Age
<1>27. ASSUME NEW p \in Session, Wedge(p) PROVE LocOK(q)'
  BY <1>27 DEF Wedge
<1>28. CASE Suspend
  BY <1>28 DEF Suspend
<1>29. CASE UNCHANGED vars
  BY <1>29 DEF vars
<1>30. ASSUME NEW p \in Session, LogEnqueued(p) PROVE LocOK(q)'
  BY <1>30 DEF LogEnqueued
<1>31. ASSUME NEW p \in Session, EnqueueError(p) PROVE LocOK(q)'
  BY <1>31 DEF EnqueueError
<1>32. ASSUME NEW p \in Session, GcSkips(p) PROVE LocOK(q)'
  BY <1>32 DEF GcSkips
<1>33. ASSUME NEW p \in Session, SkipTicket(p) PROVE LocOK(q)'
  BY <1>33 DEF SkipTicket
<1>34. ASSUME NEW p \in Session, LogError(p) PROVE LocOK(q)'
  BY <1>34 DEF LogError, Abandon
<1>35. ASSUME NEW p \in Session, UnlinkError(p) PROVE LocOK(q)'
  BY <1>35 DEF UnlinkError
<1>36. ASSUME NEW p \in Session, HbSkip(p) PROVE LocOK(q)'
  BY <1>36 DEF HbSkip
<1> QED
  BY <1>1, <1>2, <1>3, <1>4, <1>5, <1>6, <1>7, <1>8, <1>9, <1>10,
     <1>11, <1>12, <1>13, <1>14, <1>15, <1>16, <1>17, <1>18, <1>19, <1>20,
     <1>21, <1>22, <1>23, <1>24, <1>25, <1>26, <1>27, <1>28, <1>29, <1>30,
     <1>31, <1>32, <1>33, <1>34, <1>35, <1>36
     DEF Next, Step, Heartbeat, Fault, FileError

\* Every reachable state is well typed: in particular no handler ever writes a
\* ticket from a buffer it has not filled, or for a run without a number.
THEOREM TypeCorrect == Spec => []TypeOK
<1>1. TypeInv => TypeOK
  BY DEF TypeInv
<1>2. TypeInv /\ [Next]_vars => TypeInv'
  BY TypeStep, LocStep DEF TypeInv
<1> QED BY <1>1, <1>2, TypeInit, PTL DEF Spec

\* The same with the part the other proofs need: where a session is in
\* acquire_slot decides which of its buffers are filled.
THEOREM TypeInvCorrect == Spec => []TypeInv
<1>1. TypeInv /\ [Next]_vars => TypeInv'
  BY TypeStep, LocStep DEF TypeInv
<1> QED BY <1>1, TypeInit, PTL DEF Spec

------------------------------------------------------------------------------

\* Whoever is between a successful lock.acquire and the release holds the lock
LockOK(p) == pc[p] \in {"rescan", "recheck"} \/ Active(p) => lock = p
LockInv == \A p \in Session : LockOK(p)

\* Nobody is promoted at the start.
LEMMA LockInit == Init => LockInv
BY DEF Init, LockInv, LockOK, Active, InStamp, InSnap

\* Only TryLock makes a holder, and only the holder lets go or dies.
LEMMA LockStep == TypeInv /\ LockInv /\ [Next]_vars => LockInv'
<1> SUFFICES ASSUME TypeInv, LockInv, [Next]_vars, NEW q \in Session PROVE LockOK(q)'
  BY DEF LockInv
<1> USE SessionAssumption DEF TypeInv, TypeOK, LockInv, LockOK, Active, InStamp,
        InSnap, Location, InPoll, InExit, Goto
<1>1. ASSUME NEW p \in Session, Draw(p) PROVE LockOK(q)'
  BY <1>1 DEF Draw
<1>2. ASSUME NEW p \in Session, WriteTicket(p) PROVE LockOK(q)'
  BY <1>2 DEF WriteTicket
<1>3. ASSUME NEW p \in Session, Scan(p) PROVE LockOK(q)'
  BY <1>3, ScanLocations DEF Scan
<1>4. ASSUME NEW p \in Session, Head(p) PROVE LockOK(q)'
  BY <1>4 DEF Head, Lists
<1>5. ASSUME NEW p \in Session, TryLock(p) PROVE LockOK(q)'
  BY <1>5 DEF TryLock
<1>6. ASSUME NEW p \in Session, Recheck(p) PROVE LockOK(q)'
  BY <1>6 DEF Recheck, Lists
<1>7. ASSUME NEW p \in Session, Expire(p) PROVE LockOK(q)'
  BY <1>7 DEF Expire
<1>8. ASSUME NEW p \in Session, KeepWaiting(p) PROVE LockOK(q)'
  BY <1>8 DEF KeepWaiting
<1>9. ASSUME NEW p \in Session, TouchRead(p) PROVE LockOK(q)'
  BY <1>9 DEF TouchRead
<1>10. ASSUME NEW p \in Session, TouchWrite(p) PROVE LockOK(q)'
  BY <1>10 DEF TouchWrite
<1>11. ASSUME NEW p \in Session, SnapList(p) PROVE LockOK(q)'
  BY <1>11 DEF SnapList, Lists
<1>12. ASSUME NEW p \in Session, SnapWrite(p) PROVE LockOK(q)'
  BY <1>12 DEF SnapWrite
<1>13. ASSUME NEW p \in Session, SnapError(p) PROVE LockOK(q)'
  BY <1>13 DEF SnapError, Abandon
<1>14. ASSUME NEW p \in Session, StampRead(p) PROVE LockOK(q)'
  BY <1>14 DEF StampRead
<1>15. ASSUME NEW p \in Session, StampWrite(p) PROVE LockOK(q)'
  BY <1>15 DEF StampWrite
<1>16. ASSUME NEW p \in Session, Release(p) PROVE LockOK(q)'
  BY <1>16 DEF Release
<1>17. ASSUME NEW p \in Session, StopHeartbeat(p) PROVE LockOK(q)'
  BY <1>17 DEF StopHeartbeat
<1>18. ASSUME NEW p \in Session, JoinTimeout(p) PROVE LockOK(q)'
  BY <1>18 DEF JoinTimeout
<1>19. ASSUME NEW p \in Session, Unlink(p) PROVE LockOK(q)'
  BY <1>19 DEF Unlink, LocInv, LocOK
<1>20. ASSUME NEW p \in Session, Leave(p) PROVE LockOK(q)'
  BY <1>20 DEF Leave
<1>21. ASSUME NEW p \in Session, HbRead(p) PROVE LockOK(q)'
  BY <1>21 DEF HbRead
<1>22. ASSUME NEW p \in Session, HbWrite(p) PROVE LockOK(q)'
  BY <1>22 DEF HbWrite
<1>23. ASSUME NEW g \in ghost, GhostWrite(g) PROVE LockOK(q)'
  BY <1>23 DEF GhostWrite
<1>24. ASSUME NEW p \in Session, Crash(p) PROVE LockOK(q)'
  BY <1>24 DEF Crash
<1>25. ASSUME NEW p \in Session, ReusePid(p) PROVE LockOK(q)'
  BY <1>25 DEF ReusePid
<1>26. ASSUME NEW s \in Seqs, Age(s) PROVE LockOK(q)'
  BY <1>26 DEF Age
<1>27. ASSUME NEW p \in Session, Wedge(p) PROVE LockOK(q)'
  BY <1>27 DEF Wedge
<1>28. CASE Suspend
  BY <1>28 DEF Suspend
<1>29. CASE UNCHANGED vars
  BY <1>29 DEF vars
<1>30. ASSUME NEW p \in Session, LogEnqueued(p) PROVE LockOK(q)'
  BY <1>30 DEF LogEnqueued
<1>31. ASSUME NEW p \in Session, EnqueueError(p) PROVE LockOK(q)'
  BY <1>31 DEF EnqueueError
<1>32. ASSUME NEW p \in Session, GcSkips(p) PROVE LockOK(q)'
  BY <1>32 DEF GcSkips
<1>33. ASSUME NEW p \in Session, SkipTicket(p) PROVE LockOK(q)'
  BY <1>33 DEF SkipTicket
<1>34. ASSUME NEW p \in Session, LogError(p) PROVE LockOK(q)'
  BY <1>34 DEF LogError, Abandon
<1>35. ASSUME NEW p \in Session, UnlinkError(p) PROVE LockOK(q)'
  BY <1>35 DEF UnlinkError, LocInv, LocOK
<1>36. ASSUME NEW p \in Session, HbSkip(p) PROVE LockOK(q)'
  BY <1>36 DEF HbSkip
<1> QED
  BY <1>1, <1>2, <1>3, <1>4, <1>5, <1>6, <1>7, <1>8, <1>9, <1>10,
     <1>11, <1>12, <1>13, <1>14, <1>15, <1>16, <1>17, <1>18, <1>19, <1>20,
     <1>21, <1>22, <1>23, <1>24, <1>25, <1>26, <1>27, <1>28, <1>29, <1>30,
     <1>31, <1>32, <1>33, <1>34, <1>35, <1>36
     DEF Next, Step, Heartbeat, Fault, FileError

\* At most one session is ever between promotion and release: the holder of
\* active.lock, through every crash, stall, timeout and failed publication.
THEOREM SlotExclusive == Spec => []MutualExclusion
<1>1. LockInv => MutualExclusion
  BY DEF LockInv, LockOK, MutualExclusion
<1> QED BY <1>1, LockInit, LockStep, TypeInvCorrect, PTL DEF Spec

------------------------------------------------------------------------------

\* Faults are counted, never forgotten.
LEMMA FaultsGrow ==
    TypeInv /\ [Next]_vars =>
        \A f \in {"crash", "stall", "error"} :
            faults'[f] \in {faults[f], faults[f] + 1} /\ faults[f] \in Nat
<1> SUFFICES ASSUME TypeInv, [Next]_vars, NEW f \in {"crash", "stall", "error"}
             PROVE  faults'[f] \in {faults[f], faults[f] + 1} /\ faults[f] \in Nat
  OBVIOUS
<1> DEFINE Grown == faults'[f] \in {faults[f], faults[f] + 1}
<1>0. faults \in [FaultKind -> Nat] /\ TypeOK /\ f \in FaultKind
  BY DEF TypeInv, TypeOK, FaultKind
<1> USE <1>0 DEF FaultKind, Spend
<1>1. ASSUME NEW p \in Session, Draw(p) PROVE Grown
  BY <1>1 DEF Draw
<1>2. ASSUME NEW p \in Session, WriteTicket(p) PROVE Grown
  BY <1>2 DEF WriteTicket
<1>3. ASSUME NEW p \in Session, Scan(p) PROVE Grown
  BY <1>3 DEF Scan
<1>4. ASSUME NEW p \in Session, Head(p) PROVE Grown
  BY <1>4, ListsFacts DEF Head, Lists
<1>5. ASSUME NEW p \in Session, TryLock(p) PROVE Grown
  BY <1>5 DEF TryLock
<1>6. ASSUME NEW p \in Session, Recheck(p) PROVE Grown
  BY <1>6, ListsFacts DEF Recheck, Lists
<1>7. ASSUME NEW p \in Session, Expire(p) PROVE Grown
  BY <1>7 DEF Expire
<1>8. ASSUME NEW p \in Session, KeepWaiting(p) PROVE Grown
  BY <1>8 DEF KeepWaiting
<1>9. ASSUME NEW p \in Session, TouchRead(p) PROVE Grown
  BY <1>9 DEF TouchRead
<1>10. ASSUME NEW p \in Session, TouchWrite(p) PROVE Grown
  BY <1>10 DEF TouchWrite
<1>11. ASSUME NEW p \in Session, SnapList(p) PROVE Grown
  BY <1>11, ListsFacts DEF SnapList, Lists
<1>12. ASSUME NEW p \in Session, SnapWrite(p) PROVE Grown
  BY <1>12 DEF SnapWrite
<1>13. ASSUME NEW p \in Session, SnapError(p) PROVE Grown
  BY <1>13 DEF SnapError
<1>14. ASSUME NEW p \in Session, StampRead(p) PROVE Grown
  BY <1>14 DEF StampRead
<1>15. ASSUME NEW p \in Session, StampWrite(p) PROVE Grown
  BY <1>15 DEF StampWrite
<1>16. ASSUME NEW p \in Session, Release(p) PROVE Grown
  BY <1>16 DEF Release
<1>17. ASSUME NEW p \in Session, StopHeartbeat(p) PROVE Grown
  BY <1>17 DEF StopHeartbeat
<1>18. ASSUME NEW p \in Session, JoinTimeout(p) PROVE Grown
  BY <1>18 DEF JoinTimeout
<1>19. ASSUME NEW p \in Session, Unlink(p) PROVE Grown
  BY <1>19 DEF Unlink
<1>20. ASSUME NEW p \in Session, Leave(p) PROVE Grown
  BY <1>20 DEF Leave
<1>21. ASSUME NEW p \in Session, HbRead(p) PROVE Grown
  BY <1>21 DEF HbRead
<1>22. ASSUME NEW p \in Session, HbWrite(p) PROVE Grown
  BY <1>22 DEF HbWrite
<1>23. ASSUME NEW g \in ghost, GhostWrite(g) PROVE Grown
  BY <1>23 DEF GhostWrite
<1>24. ASSUME NEW p \in Session, Crash(p) PROVE Grown
  BY <1>24 DEF Crash
<1>25. ASSUME NEW p \in Session, ReusePid(p) PROVE Grown
  BY <1>25 DEF ReusePid
<1>26. ASSUME NEW s \in Seqs, Age(s) PROVE Grown
  BY <1>26 DEF Age
<1>27. ASSUME NEW p \in Session, Wedge(p) PROVE Grown
  BY <1>27 DEF Wedge
<1>28. CASE Suspend
  BY <1>28 DEF Suspend
<1>29. CASE UNCHANGED vars
  BY <1>29 DEF vars
<1>30. ASSUME NEW p \in Session, LogEnqueued(p) PROVE Grown
  BY <1>30 DEF LogEnqueued
<1>31. ASSUME NEW p \in Session, EnqueueError(p) PROVE Grown
  BY <1>31 DEF EnqueueError
<1>32. ASSUME NEW p \in Session, GcSkips(p) PROVE Grown
  BY <1>32 DEF GcSkips
<1>33. ASSUME NEW p \in Session, SkipTicket(p) PROVE Grown
  BY <1>33 DEF SkipTicket
<1>34. ASSUME NEW p \in Session, LogError(p) PROVE Grown
  BY <1>34 DEF LogError
<1>35. ASSUME NEW p \in Session, UnlinkError(p) PROVE Grown
  BY <1>35 DEF UnlinkError
<1>36. ASSUME NEW p \in Session, HbSkip(p) PROVE Grown
  BY <1>36 DEF HbSkip
<1> QED
  BY <1>0, <1>1, <1>2, <1>3, <1>4, <1>5, <1>6, <1>7, <1>8, <1>9, <1>10,
     <1>11, <1>12, <1>13, <1>14, <1>15, <1>16, <1>17, <1>18, <1>19, <1>20,
     <1>21, <1>22, <1>23, <1>24, <1>25, <1>26, <1>27, <1>28, <1>29, <1>30,
     <1>31, <1>32, <1>33, <1>34, <1>35, <1>36
     DEF Next, Step, Heartbeat, Fault, FileError

\* The ticket of p's run has been written and not yet unlinked by p
InRun(p) == Waiting(p) \/ Active(p) \/ pc[p] \in {"stop", "unlink"}
Unwritten(s) == pidOf[s] = NoSession

\* Nothing has stalled; a number nobody has written is in no set of tickets
QuietInv ==
    /\ faults["stall"] = 0
    /\ ghost = {}
    /\ \A s \in Seqs : s > counter => Unwritten(s)
    /\ \A s \in Seqs : Unwritten(s) => s \notin Tickets /\ s \notin stale
    /\ \A s \in Seqs, r \in Session : Unwritten(s) => s \notin doomed[r]

\* A run's ticket carries its pid, is on disk, is fresh, and nobody has judged
\* it dead
OwnOK(p) ==
    /\ seq[p] <= counter
    /\ pc[p] = "publish" => Unwritten(seq[p])
    /\ pc[p] = "stampWrite" => buf[p] # "old"
    /\ InRun(p) => pidOf[seq[p]] = p /\ seq[p] \in Tickets /\ seq[p] \notin stale
PairOK(p, r) ==
    /\ InRun(p) => seq[p] \notin doomed[r]
    /\ seq[p] = seq[r] /\ seq[p] # 0 => p = r
KeepInv ==
    /\ QuietInv
    /\ \A p \in Session : OwnOK(p)
    /\ \A p, r \in Session : PairOK(p, r)

\* Nothing is listed, doomed or stale at the start.
LEMMA KeepInit == Init => KeepInv
<1> SUFFICES ASSUME Init PROVE KeepInv
  OBVIOUS
<1> USE SessionAssumption, BoundAssumption DEF Init, FaultKind, Tickets, InRun,
        Waiting, Active, InPoll, InSnap, InStamp, Unwritten, Seqs
<1>1. QuietInv
  BY DEF QuietInv
<1>2. \A p \in Session : OwnOK(p)
  BY DEF OwnOK
<1>3. \A p, r \in Session : PairOK(p, r)
  BY DEF PairOK
<1> QED BY <1>1, <1>2, <1>3 DEF KeepInv

\* Without stalls only unattended tickets ever grow stale.
LEMMA QuietStep ==
    ASSUME faults'["stall"] = 0, TypeInv, KeepInv, [Next]_vars PROVE QuietInv'
<1> USE SessionAssumption, BoundAssumption
        DEF TypeInv, TypeOK, LocInv, LocOK, HasNumber, KeepInv, QuietInv, OwnOK,
            InRun, Waiting, Active, Unwritten, Tickets, Seqs, Stamp, InPoll,
            InSnap, InStamp, InExit, Location, FaultKind, dir, Goto, Put, Remove,
            Reap, Spend
<1>1. ASSUME NEW p \in Session, Draw(p) PROVE QuietInv'
  BY <1>1 DEF Draw
<1>2. ASSUME NEW p \in Session, WriteTicket(p) PROVE QuietInv'
  BY <1>2 DEF WriteTicket
<1>3. ASSUME NEW p \in Session, Scan(p) PROVE QuietInv'
  BY <1>3, ScanLocations DEF Scan
<1>4. ASSUME NEW p \in Session, Head(p) PROVE QuietInv'
  BY <1>4 DEF Head, Lists
<1>5. ASSUME NEW p \in Session, TryLock(p) PROVE QuietInv'
  BY <1>5 DEF TryLock
<1>6. ASSUME NEW p \in Session, Recheck(p) PROVE QuietInv'
  BY <1>6 DEF Recheck, Lists
<1>7. ASSUME NEW p \in Session, Expire(p) PROVE QuietInv'
  BY <1>7 DEF Expire
<1>8. ASSUME NEW p \in Session, KeepWaiting(p) PROVE QuietInv'
  BY <1>8 DEF KeepWaiting
<1>9. ASSUME NEW p \in Session, TouchRead(p) PROVE QuietInv'
  BY <1>9 DEF TouchRead
<1>10. ASSUME NEW p \in Session, TouchWrite(p) PROVE QuietInv'
  BY <1>10 DEF TouchWrite
<1>11. ASSUME NEW p \in Session, SnapList(p) PROVE QuietInv'
  BY <1>11 DEF SnapList, Lists
<1>12. ASSUME NEW p \in Session, SnapWrite(p) PROVE QuietInv'
  BY <1>12 DEF SnapWrite
<1>13. ASSUME NEW p \in Session, SnapError(p) PROVE QuietInv'
  BY <1>13 DEF SnapError, Abandon
<1>14. ASSUME NEW p \in Session, StampRead(p) PROVE QuietInv'
  BY <1>14 DEF StampRead
<1>15. ASSUME NEW p \in Session, StampWrite(p) PROVE QuietInv'
  BY <1>15 DEF StampWrite
<1>16. ASSUME NEW p \in Session, Release(p) PROVE QuietInv'
  BY <1>16 DEF Release
<1>17. ASSUME NEW p \in Session, StopHeartbeat(p) PROVE QuietInv'
  BY <1>17 DEF StopHeartbeat
<1>18. ASSUME NEW p \in Session, JoinTimeout(p) PROVE QuietInv'
  BY <1>18 DEF JoinTimeout
<1>19. ASSUME NEW p \in Session, Unlink(p) PROVE QuietInv'
  BY <1>19 DEF Unlink
<1>20. ASSUME NEW p \in Session, Leave(p) PROVE QuietInv'
  BY <1>20 DEF Leave
<1>21. ASSUME NEW p \in Session, HbRead(p) PROVE QuietInv'
  BY <1>21 DEF HbRead
<1>22. ASSUME NEW p \in Session, HbWrite(p) PROVE QuietInv'
  <2>1. UNCHANGED <<counter, pidOf, seq, doomed, ghost, faults>>
    BY <1>22 DEF HbWrite
  <2>2. seq[p] \in Seqs /\ ~Unwritten(seq[p])
    BY <1>22 DEF HbWrite
  <2>3. stale' \subseteq stale /\ \A s \in Seqs \ {seq[p]} : disk'[s] = disk[s]
    BY <1>22 DEF HbWrite
  <2> QED BY <2>1, <2>2, <2>3
<1>23. ASSUME NEW g \in ghost, GhostWrite(g) PROVE QuietInv'
  BY <1>23 DEF GhostWrite
<1>24. ASSUME NEW p \in Session, Crash(p) PROVE QuietInv'
  BY <1>24 DEF Crash
<1>25. ASSUME NEW p \in Session, ReusePid(p) PROVE QuietInv'
  BY <1>25 DEF ReusePid
<1>26. ASSUME NEW s \in Seqs, Age(s) PROVE QuietInv'
  BY <1>26 DEF Age
<1>27. ASSUME NEW p \in Session, Wedge(p) PROVE QuietInv'
  BY <1>27 DEF Wedge
<1>28. CASE Suspend
  BY <1>28 DEF Suspend
<1>29. CASE UNCHANGED vars
  BY <1>29 DEF vars
<1>30. ASSUME NEW p \in Session, LogEnqueued(p) PROVE QuietInv'
  BY <1>30 DEF LogEnqueued
<1>31. ASSUME NEW p \in Session, EnqueueError(p) PROVE QuietInv'
  BY <1>31 DEF EnqueueError
<1>32. ASSUME NEW p \in Session, GcSkips(p) PROVE QuietInv'
  BY <1>32 DEF GcSkips
<1>33. ASSUME NEW p \in Session, SkipTicket(p) PROVE QuietInv'
  BY <1>33 DEF SkipTicket
<1>34. ASSUME NEW p \in Session, LogError(p) PROVE QuietInv'
  BY <1>34 DEF LogError, Abandon
<1>35. ASSUME NEW p \in Session, UnlinkError(p) PROVE QuietInv'
  BY <1>35 DEF UnlinkError
<1>36. ASSUME NEW p \in Session, HbSkip(p) PROVE QuietInv'
  BY <1>36 DEF HbSkip
<1> QED
  BY <1>1, <1>2, <1>3, <1>4, <1>5, <1>6, <1>7, <1>8, <1>9, <1>10,
     <1>11, <1>12, <1>13, <1>14, <1>15, <1>16, <1>17, <1>18, <1>19, <1>20,
     <1>21, <1>22, <1>23, <1>24, <1>25, <1>26, <1>27, <1>28, <1>29, <1>30,
     <1>31, <1>32, <1>33, <1>34, <1>35, <1>36
     DEF Next, Step, Heartbeat, Fault, FileError

\* A run's own ticket stays where write_ticket put it until its unlink.
LEMMA OwnStep ==
    ASSUME faults'["stall"] = 0, TypeInv, KeepInv, [Next]_vars, NEW q \in Session
    PROVE  OwnOK(q)'
<1> USE SessionAssumption, BoundAssumption
        DEF TypeInv, TypeOK, LocInv, LocOK, HasNumber, KeepInv, QuietInv, OwnOK,
            PairOK, InRun, Waiting, Active, Unwritten, Tickets, Seqs, Stamp,
            InPoll, InSnap, InStamp, InExit, Location, FaultKind, dir, Goto, Put,
            Remove, Reap, Spend
<1>1. ASSUME NEW p \in Session, Draw(p) PROVE OwnOK(q)'
  BY <1>1 DEF Draw
<1>2. ASSUME NEW p \in Session, WriteTicket(p) PROVE OwnOK(q)'
  <2>0. seq[p] \in Seqs /\ pc[p] = "publish"
    BY <1>2 DEF WriteTicket
  <2>1. seq[p] \in Seqs /\ pidOf'[seq[p]] = p /\ disk'[seq[p]] = "waiting"
    <3> HIDE DEF KeepInv, LocInv
    <3> QED BY <1>2, <2>0 DEF WriteTicket
  <2>2. Unwritten(seq[p]) /\ seq[p] \notin stale'
    BY <1>2, <2>1 DEF WriteTicket
  <2>3. CASE q = p
    BY <1>2, <2>1, <2>2, <2>3 DEF WriteTicket
  <2>4. CASE q # p
    <3>1. pc'[q] = pc[q] /\ seq' = seq /\ ret' = ret /\ buf' = buf /\ stale' = stale
      BY <1>2, <2>4 DEF WriteTicket
    <3>2. seq[q] \in Seqs => seq[q] # seq[p]
      BY <2>4
    <3>3. \A s \in Seqs \ {seq[p]} : pidOf'[s] = pidOf[s] /\ disk'[s] = disk[s]
      BY <1>2 DEF WriteTicket
    <3>4. counter' = counter
      BY <1>2 DEF WriteTicket
    <3>5. OwnOK(q) /\ (InRun(q) => seq[q] \in Seqs) /\ (pc[q] = "publish" => seq[q] \in Seqs)
      OBVIOUS
    <3>6. InRun(q)' = InRun(q)
      BY <3>1
    <3> HIDE DEF KeepInv, LocInv, TypeOK, InRun, Seqs
    <3> QED BY <3>1, <3>2, <3>3, <3>4, <3>5, <3>6
  <2> QED BY <2>3, <2>4
<1>3. ASSUME NEW p \in Session, Scan(p) PROVE OwnOK(q)'
  BY <1>3, ScanLocations DEF Scan
<1>4. ASSUME NEW p \in Session, Head(p) PROVE OwnOK(q)'
  BY <1>4 DEF Head, Lists
<1>5. ASSUME NEW p \in Session, TryLock(p) PROVE OwnOK(q)'
  BY <1>5 DEF TryLock
<1>6. ASSUME NEW p \in Session, Recheck(p) PROVE OwnOK(q)'
  BY <1>6 DEF Recheck, Lists
<1>7. ASSUME NEW p \in Session, Expire(p) PROVE OwnOK(q)'
  BY <1>7 DEF Expire
<1>8. ASSUME NEW p \in Session, KeepWaiting(p) PROVE OwnOK(q)'
  BY <1>8 DEF KeepWaiting
<1>9. ASSUME NEW p \in Session, TouchRead(p) PROVE OwnOK(q)'
  BY <1>9 DEF TouchRead
<1>10. ASSUME NEW p \in Session, TouchWrite(p) PROVE OwnOK(q)'
  BY <1>10 DEF TouchWrite
<1>11. ASSUME NEW p \in Session, SnapList(p) PROVE OwnOK(q)'
  BY <1>11 DEF SnapList, Lists
<1>12. ASSUME NEW p \in Session, SnapWrite(p) PROVE OwnOK(q)'
  BY <1>12 DEF SnapWrite
<1>13. ASSUME NEW p \in Session, SnapError(p) PROVE OwnOK(q)'
  BY <1>13 DEF SnapError, Abandon
<1>14. ASSUME NEW p \in Session, StampRead(p) PROVE OwnOK(q)'
  BY <1>14 DEF StampRead
<1>15. ASSUME NEW p \in Session, StampWrite(p) PROVE OwnOK(q)'
  BY <1>15 DEF StampWrite
<1>16. ASSUME NEW p \in Session, Release(p) PROVE OwnOK(q)'
  BY <1>16 DEF Release
<1>17. ASSUME NEW p \in Session, StopHeartbeat(p) PROVE OwnOK(q)'
  BY <1>17 DEF StopHeartbeat
<1>18. ASSUME NEW p \in Session, JoinTimeout(p) PROVE OwnOK(q)'
  BY <1>18 DEF JoinTimeout
<1>19. ASSUME NEW p \in Session, Unlink(p) PROVE OwnOK(q)'
  BY <1>19 DEF Unlink
<1>20. ASSUME NEW p \in Session, Leave(p) PROVE OwnOK(q)'
  BY <1>20 DEF Leave
<1>21. ASSUME NEW p \in Session, HbRead(p) PROVE OwnOK(q)'
  BY <1>21 DEF HbRead
<1>22. ASSUME NEW p \in Session, HbWrite(p) PROVE OwnOK(q)'
  BY <1>22 DEF HbWrite
<1>23. ASSUME NEW g \in ghost, GhostWrite(g) PROVE OwnOK(q)'
  BY <1>23 DEF GhostWrite
<1>24. ASSUME NEW p \in Session, Crash(p) PROVE OwnOK(q)'
  BY <1>24 DEF Crash
<1>25. ASSUME NEW p \in Session, ReusePid(p) PROVE OwnOK(q)'
  BY <1>25 DEF ReusePid
<1>26. ASSUME NEW s \in Seqs, Age(s) PROVE OwnOK(q)'
  BY <1>26 DEF Age, Attended
<1>27. ASSUME NEW p \in Session, Wedge(p) PROVE OwnOK(q)'
  BY <1>27 DEF Wedge
<1>28. CASE Suspend
  BY <1>28 DEF Suspend
<1>29. CASE UNCHANGED vars
  BY <1>29 DEF vars
<1>30. ASSUME NEW p \in Session, LogEnqueued(p) PROVE OwnOK(q)'
  BY <1>30 DEF LogEnqueued
<1>31. ASSUME NEW p \in Session, EnqueueError(p) PROVE OwnOK(q)'
  BY <1>31 DEF EnqueueError
<1>32. ASSUME NEW p \in Session, GcSkips(p) PROVE OwnOK(q)'
  BY <1>32 DEF GcSkips
<1>33. ASSUME NEW p \in Session, SkipTicket(p) PROVE OwnOK(q)'
  BY <1>33 DEF SkipTicket
<1>34. ASSUME NEW p \in Session, LogError(p) PROVE OwnOK(q)'
  BY <1>34 DEF LogError, Abandon
<1>35. ASSUME NEW p \in Session, UnlinkError(p) PROVE OwnOK(q)'
  BY <1>35 DEF UnlinkError
<1>36. ASSUME NEW p \in Session, HbSkip(p) PROVE OwnOK(q)'
  BY <1>36 DEF HbSkip
<1> QED
  BY <1>1, <1>2, <1>3, <1>4, <1>5, <1>6, <1>7, <1>8, <1>9, <1>10,
     <1>11, <1>12, <1>13, <1>14, <1>15, <1>16, <1>17, <1>18, <1>19, <1>20,
     <1>21, <1>22, <1>23, <1>24, <1>25, <1>26, <1>27, <1>28, <1>29, <1>30,
     <1>31, <1>32, <1>33, <1>34, <1>35, <1>36
     DEF Next, Step, Heartbeat, Fault, FileError

\* No session ever dooms the ticket of another session's run.
LEMMA PairStep ==
    ASSUME faults'["stall"] = 0, TypeInv, KeepInv, [Next]_vars, NEW q \in Session,
           NEW r \in Session
    PROVE  PairOK(q, r)'
<1> USE SessionAssumption, BoundAssumption
        DEF TypeInv, TypeOK, LocInv, LocOK, HasNumber, KeepInv, QuietInv, OwnOK,
            PairOK, InRun, Waiting, Active, Unwritten, Tickets, Seqs, Stamp,
            InPoll, InSnap, InStamp, InExit, Location, FaultKind, dir, Goto, Put,
            Remove, Reap, Spend
<1>1. ASSUME NEW p \in Session, Draw(p) PROVE PairOK(q, r)'
  BY <1>1 DEF Draw
<1>2. ASSUME NEW p \in Session, WriteTicket(p) PROVE PairOK(q, r)'
  BY <1>2 DEF WriteTicket
<1>3. ASSUME NEW p \in Session, Scan(p) PROVE PairOK(q, r)'
  BY <1>3, ScanLocations DEF Scan, Reclaimable, Alive
<1>4. ASSUME NEW p \in Session, Head(p) PROVE PairOK(q, r)'
  BY <1>4 DEF Head, Lists
<1>5. ASSUME NEW p \in Session, TryLock(p) PROVE PairOK(q, r)'
  BY <1>5 DEF TryLock
<1>6. ASSUME NEW p \in Session, Recheck(p) PROVE PairOK(q, r)'
  BY <1>6 DEF Recheck, Lists
<1>7. ASSUME NEW p \in Session, Expire(p) PROVE PairOK(q, r)'
  BY <1>7 DEF Expire
<1>8. ASSUME NEW p \in Session, KeepWaiting(p) PROVE PairOK(q, r)'
  BY <1>8 DEF KeepWaiting
<1>9. ASSUME NEW p \in Session, TouchRead(p) PROVE PairOK(q, r)'
  BY <1>9 DEF TouchRead
<1>10. ASSUME NEW p \in Session, TouchWrite(p) PROVE PairOK(q, r)'
  BY <1>10 DEF TouchWrite
<1>11. ASSUME NEW p \in Session, SnapList(p) PROVE PairOK(q, r)'
  BY <1>11 DEF SnapList, Lists
<1>12. ASSUME NEW p \in Session, SnapWrite(p) PROVE PairOK(q, r)'
  BY <1>12 DEF SnapWrite
<1>13. ASSUME NEW p \in Session, SnapError(p) PROVE PairOK(q, r)'
  BY <1>13 DEF SnapError, Abandon
<1>14. ASSUME NEW p \in Session, StampRead(p) PROVE PairOK(q, r)'
  BY <1>14 DEF StampRead
<1>15. ASSUME NEW p \in Session, StampWrite(p) PROVE PairOK(q, r)'
  BY <1>15 DEF StampWrite
<1>16. ASSUME NEW p \in Session, Release(p) PROVE PairOK(q, r)'
  BY <1>16 DEF Release
<1>17. ASSUME NEW p \in Session, StopHeartbeat(p) PROVE PairOK(q, r)'
  BY <1>17 DEF StopHeartbeat
<1>18. ASSUME NEW p \in Session, JoinTimeout(p) PROVE PairOK(q, r)'
  BY <1>18 DEF JoinTimeout
<1>19. ASSUME NEW p \in Session, Unlink(p) PROVE PairOK(q, r)'
  BY <1>19 DEF Unlink
<1>20. ASSUME NEW p \in Session, Leave(p) PROVE PairOK(q, r)'
  BY <1>20 DEF Leave
<1>21. ASSUME NEW p \in Session, HbRead(p) PROVE PairOK(q, r)'
  BY <1>21 DEF HbRead
<1>22. ASSUME NEW p \in Session, HbWrite(p) PROVE PairOK(q, r)'
  BY <1>22 DEF HbWrite
<1>23. ASSUME NEW g \in ghost, GhostWrite(g) PROVE PairOK(q, r)'
  BY <1>23 DEF GhostWrite
<1>24. ASSUME NEW p \in Session, Crash(p) PROVE PairOK(q, r)'
  BY <1>24 DEF Crash
<1>25. ASSUME NEW p \in Session, ReusePid(p) PROVE PairOK(q, r)'
  BY <1>25 DEF ReusePid
<1>26. ASSUME NEW s \in Seqs, Age(s) PROVE PairOK(q, r)'
  BY <1>26 DEF Age
<1>27. ASSUME NEW p \in Session, Wedge(p) PROVE PairOK(q, r)'
  BY <1>27 DEF Wedge
<1>28. CASE Suspend
  BY <1>28 DEF Suspend
<1>29. CASE UNCHANGED vars
  BY <1>29 DEF vars
<1>30. ASSUME NEW p \in Session, LogEnqueued(p) PROVE PairOK(q, r)'
  BY <1>30 DEF LogEnqueued
<1>31. ASSUME NEW p \in Session, EnqueueError(p) PROVE PairOK(q, r)'
  BY <1>31 DEF EnqueueError
<1>32. ASSUME NEW p \in Session, GcSkips(p) PROVE PairOK(q, r)'
  BY <1>32 DEF GcSkips
<1>33. ASSUME NEW p \in Session, SkipTicket(p) PROVE PairOK(q, r)'
  BY <1>33 DEF SkipTicket
<1>34. ASSUME NEW p \in Session, LogError(p) PROVE PairOK(q, r)'
  BY <1>34 DEF LogError, Abandon
<1>35. ASSUME NEW p \in Session, UnlinkError(p) PROVE PairOK(q, r)'
  BY <1>35 DEF UnlinkError
<1>36. ASSUME NEW p \in Session, HbSkip(p) PROVE PairOK(q, r)'
  BY <1>36 DEF HbSkip
<1> QED
  BY <1>1, <1>2, <1>3, <1>4, <1>5, <1>6, <1>7, <1>8, <1>9, <1>10,
     <1>11, <1>12, <1>13, <1>14, <1>15, <1>16, <1>17, <1>18, <1>19, <1>20,
     <1>21, <1>22, <1>23, <1>24, <1>25, <1>26, <1>27, <1>28, <1>29, <1>30,
     <1>31, <1>32, <1>33, <1>34, <1>35, <1>36
     DEF Next, Step, Heartbeat, Fault, FileError

\* The three together, until the first stall: the tickets of runs in progress
\* are kept.
QuietKeep == faults["stall"] = 0 => KeepInv

LEMMA KeepStep == TypeInv /\ QuietKeep /\ [Next]_vars => QuietKeep'
<1> SUFFICES ASSUME TypeInv, QuietKeep, [Next]_vars, faults'["stall"] = 0 PROVE KeepInv'
  BY DEF QuietKeep
<1>0. KeepInv
  BY FaultsGrow DEF QuietKeep
<1>1. QuietInv'
  BY <1>0, QuietStep
<1>2. \A p \in Session : OwnOK(p)'
  BY <1>0, OwnStep
<1>3. \A p, r \in Session : PairOK(p, r)'
  BY <1>0, PairStep
<1> QED BY <1>1, <1>2, <1>3 DEF KeepInv

\* As long as nothing has stalled, the ticket of a session that waits or runs
\* stays in the directory: no interleaving of the other sessions' garbage
\* collection with its refreshes takes it, for any number of sessions, deaths,
\* reused pids, timeouts and file errors.
THEOREM NoTicketLost == Spec => []TicketKept
<1>1. QuietKeep => TicketKept
  BY DEF QuietKeep, KeepInv, OwnOK, InRun, TicketKept
<1>2. Init => QuietKeep
  BY KeepInit DEF QuietKeep
<1> QED BY <1>1, <1>2, KeepStep, TypeInvCorrect, PTL DEF Spec

\* As long as nothing stalls and every ticket can be read, promotion follows
\* the order of the written tickets.
THEOREM FifoPromotion == Spec => OldestWaiterPromoted
<1> DEFINE Oldest == \A p \in Session :
                        pc[p] = "recheck" /\ pc'[p] = "stamp" /\ Undisturbed' =>
                           \A q \in Session \ {p} : Waiting(q) => seq[p] < seq[q]
<1>1. TypeInv /\ QuietKeep /\ [Next]_vars => [Oldest]_vars
  <2> SUFFICES ASSUME TypeInv, QuietKeep, [Next]_vars, NEW p \in Session,
                      pc[p] = "recheck", pc'[p] = "stamp", Undisturbed',
                      NEW q \in Session \ {p}, Waiting(q)
               PROVE  seq[p] < seq[q]
    OBVIOUS
  <2>0. KeepInv
    BY FaultsGrow DEF QuietKeep, Undisturbed
  <2>1. Recheck(p) /\ IsHead(p, Tickets \ doomed[p])
    <3> USE DEF TypeInv, TypeOK, Goto
    <3>1. ASSUME NEW r \in Session, Draw(r) PROVE FALSE
      BY <3>1 DEF Draw
    <3>2. ASSUME NEW r \in Session, WriteTicket(r) PROVE FALSE
      BY <3>2 DEF WriteTicket
    <3>3. ASSUME NEW r \in Session, Scan(r) PROVE FALSE
      BY <3>3, ScanLocations DEF Scan
    <3>4. ASSUME NEW r \in Session, Head(r) PROVE FALSE
      BY <3>4 DEF Head, Lists
    <3>5. ASSUME NEW r \in Session, TryLock(r) PROVE FALSE
      BY <3>5 DEF TryLock
    <3>6. ASSUME NEW r \in Session, Recheck(r) PROVE Recheck(p) /\ IsHead(p, Tickets \ doomed[p])
      <4>1. r = p
        BY <3>6 DEF Recheck
      <4>2. PICK S \in SUBSET Tickets : Lists(p, S) /\ IsHead(p, S)
        BY <3>6, <4>1 DEF Recheck
      <4>3. S = Tickets \ doomed[p]
        <5>1. faults'["error"] = 0 /\ faults["error"] \in Nat
          BY FaultsGrow DEF Undisturbed
        <5>2. \/ faults'["error"] = faults["error"] /\ S = Tickets \ doomed[p]
              \/ faults'["error"] = faults["error"] + 1
          BY <4>2, ListsFacts
        <5> QED BY <5>1, <5>2
      <4> QED BY <3>6, <4>1, <4>2, <4>3
    <3>7. ASSUME NEW r \in Session, Expire(r) PROVE FALSE
      BY <3>7 DEF Expire
    <3>8. ASSUME NEW r \in Session, KeepWaiting(r) PROVE FALSE
      BY <3>8 DEF KeepWaiting
    <3>9. ASSUME NEW r \in Session, TouchRead(r) PROVE FALSE
      BY <3>9 DEF TouchRead
    <3>10. ASSUME NEW r \in Session, TouchWrite(r) PROVE FALSE
      BY <3>10 DEF TouchWrite
    <3>11. ASSUME NEW r \in Session, SnapList(r) PROVE FALSE
      BY <3>11 DEF SnapList, Lists
    <3>12. ASSUME NEW r \in Session, SnapWrite(r) PROVE FALSE
      BY <3>12 DEF SnapWrite
    <3>13. ASSUME NEW r \in Session, SnapError(r) PROVE FALSE
      BY <3>13 DEF SnapError, Abandon
    <3>14. ASSUME NEW r \in Session, StampRead(r) PROVE FALSE
      BY <3>14 DEF StampRead
    <3>15. ASSUME NEW r \in Session, StampWrite(r) PROVE FALSE
      BY <3>15 DEF StampWrite
    <3>16. ASSUME NEW r \in Session, Release(r) PROVE FALSE
      BY <3>16 DEF Release
    <3>17. ASSUME NEW r \in Session, StopHeartbeat(r) PROVE FALSE
      BY <3>17 DEF StopHeartbeat
    <3>18. ASSUME NEW r \in Session, JoinTimeout(r) PROVE FALSE
      BY <3>18 DEF JoinTimeout
    <3>19. ASSUME NEW r \in Session, Unlink(r) PROVE FALSE
      BY <3>19 DEF Unlink
    <3>20. ASSUME NEW r \in Session, Leave(r) PROVE FALSE
      BY <3>20 DEF Leave
    <3>21. ASSUME NEW r \in Session, HbRead(r) PROVE FALSE
      BY <3>21 DEF HbRead
    <3>22. ASSUME NEW r \in Session, HbWrite(r) PROVE FALSE
      BY <3>22 DEF HbWrite
    <3>23. ASSUME NEW g \in ghost, GhostWrite(g) PROVE FALSE
      BY <3>23 DEF GhostWrite
    <3>24. ASSUME NEW r \in Session, Crash(r) PROVE FALSE
      BY <3>24 DEF Crash
    <3>25. ASSUME NEW r \in Session, ReusePid(r) PROVE FALSE
      BY <3>25 DEF ReusePid
    <3>26. ASSUME NEW s \in Seqs, Age(s) PROVE FALSE
      BY <3>26 DEF Age
    <3>27. ASSUME NEW r \in Session, Wedge(r) PROVE FALSE
      BY <3>27 DEF Wedge
    <3>28. CASE Suspend
      BY <3>28 DEF Suspend
    <3>29. CASE UNCHANGED vars
      BY <3>29 DEF vars
    <3>30. ASSUME NEW r \in Session, LogEnqueued(r) PROVE FALSE
      BY <3>30 DEF LogEnqueued
    <3>31. ASSUME NEW r \in Session, EnqueueError(r) PROVE FALSE
      BY <3>31 DEF EnqueueError
    <3>32. ASSUME NEW r \in Session, GcSkips(r) PROVE FALSE
      BY <3>32 DEF GcSkips
    <3>33. ASSUME NEW r \in Session, SkipTicket(r) PROVE FALSE
      BY <3>33 DEF SkipTicket
    <3>34. ASSUME NEW r \in Session, LogError(r) PROVE FALSE
      BY <3>34 DEF LogError, Abandon
    <3>35. ASSUME NEW r \in Session, UnlinkError(r) PROVE FALSE
      BY <3>35 DEF UnlinkError
    <3>36. ASSUME NEW r \in Session, HbSkip(r) PROVE FALSE
      BY <3>36 DEF HbSkip
    <3> QED
      BY <3>1, <3>2, <3>3, <3>4, <3>5, <3>6, <3>7, <3>8, <3>9, <3>10,
         <3>11, <3>12, <3>13, <3>14, <3>15, <3>16, <3>17, <3>18, <3>19, <3>20,
         <3>21, <3>22, <3>23, <3>24, <3>25, <3>26, <3>27, <3>28, <3>29, <3>30,
         <3>31, <3>32, <3>33, <3>34, <3>35, <3>36
         DEF Next, Step, Heartbeat, Fault, FileError
  <2>2. seq[q] \in Tickets \ doomed[p]
    BY <2>0 DEF KeepInv, OwnOK, PairOK, InRun
  <2>3. seq[p] <= seq[q] /\ seq[p] \in Nat /\ seq[q] \in Nat
    BY <2>1, <2>2 DEF IsHead, TypeInv, TypeOK
  <2>4. seq[p] # seq[q]
    BY <2>0, <2>2 DEF KeepInv, PairOK, Tickets, Seqs
  <2> QED BY <2>3, <2>4
<1>2. Init => QuietKeep
  BY KeepInit DEF QuietKeep
<1> QED BY <1>1, <1>2, KeepStep, TypeInvCorrect, PTL DEF Spec, OldestWaiterPromoted
------------------------------------------------------------------------------

\* A step of p that moves only p's phase, and moves it as the slot allows
Only(p) == \A q \in Session \ {p} : Phase(q)' = Phase(q)
Allowed(p) ==
    \/ Phase(p)' = Phase(p)
    \/ Phase(p) = "out" /\ Phase(p)' = "waiting"
    \/ Phase(p) = "waiting" /\ Phase(p)' = "active" /\ \A q \in Session : ~Active(q)
    \/ Phase(p) \in {"waiting", "active"} /\ Phase(p)' = "out"

\* One session that enqueues, is promoted into a free slot or leaves makes a
\* step of RunSlot.
LEMMA PhaseMoves ==
    ASSUME NEW p \in Session, Only(p), Allowed(p) PROVE [Slot!Next]_phaseBar
<1>1. CASE Phase(p)' = Phase(p)
  BY <1>1 DEF phaseBar, Only
<1>2. CASE Phase(p)' # Phase(p)
  <2>1. phaseBar' = [phaseBar EXCEPT ![p] = Phase(p)']
    BY DEF phaseBar, Only
  <2>2. phaseBar[p] = Phase(p) /\ phaseBar'[p] # phaseBar[p]
    BY <1>2 DEF phaseBar
  <2>3. CASE Phase(p) = "out" /\ Phase(p)' = "waiting"
    BY <2>1, <2>2, <2>3 DEF Slot!Next, Slot!Enqueue, Slot!Move
  <2>4. CASE /\ Phase(p) = "waiting" /\ Phase(p)' = "active"
             /\ \A q \in Session : ~Active(q)
    <3>1. \A q \in Session : phaseBar[q] # "active"
      BY <2>4 DEF phaseBar, Phase
    <3> QED BY <2>1, <2>2, <2>4, <3>1 DEF Slot!Next, Slot!Promote, Slot!Move
  <2>5. CASE Phase(p) = "waiting" /\ Phase(p)' = "out"
    BY <2>1, <2>2, <2>5 DEF Slot!Next, Slot!GiveUp, Slot!Move
  <2>6. CASE Phase(p) = "active" /\ Phase(p)' = "out"
    BY <2>1, <2>2, <2>6 DEF Slot!Next, Slot!Finish, Slot!Move
  <2> QED BY <1>2, <2>3, <2>4, <2>5, <2>6 DEF Allowed
<1> QED BY <1>1, <1>2

\* A step that changes no phase is invisible to RunSlot.
LEMMA PhaseStutters ==
    ASSUME \A q \in Session : Phase(q)' = Phase(q) PROVE [Slot!Next]_phaseBar
BY DEF phaseBar

\* Every action of the queue is one or the other.
LEMMA SlotStep == TypeInv /\ LockInv /\ [Next]_vars => [Slot!Next]_phaseBar
<1> SUFFICES ASSUME TypeInv, LockInv, [Next]_vars PROVE [Slot!Next]_phaseBar
  OBVIOUS
<1> USE DEF TypeInv, TypeOK, LocInv, LocOK, Phase, Waiting, Active, InPoll,
            InSnap, InStamp, InExit, Location, Goto
<1>1. ASSUME NEW p \in Session, Draw(p) PROVE [Slot!Next]_phaseBar
  <2>1. Only(p)
    BY <1>1 DEF Only, Draw
  <2>2. Allowed(p)
    BY <1>1 DEF Allowed, Draw
  <2> QED BY <2>1, <2>2, PhaseMoves
<1>2. ASSUME NEW p \in Session, WriteTicket(p) PROVE [Slot!Next]_phaseBar
  <2>1. Only(p)
    BY <1>2 DEF Only, WriteTicket
  <2>2. Allowed(p)
    BY <1>2 DEF Allowed, WriteTicket
  <2> QED BY <2>1, <2>2, PhaseMoves
<1>3. ASSUME NEW p \in Session, Scan(p) PROVE [Slot!Next]_phaseBar
  <2>1. Only(p)
    BY <1>3, ScanLocations DEF Only, Scan
  <2>2. Allowed(p)
    BY <1>3, ScanLocations DEF Allowed, Scan
  <2> QED BY <2>1, <2>2, PhaseMoves
<1>4. ASSUME NEW p \in Session, Head(p) PROVE [Slot!Next]_phaseBar
  <2>1. Only(p)
    BY <1>4 DEF Only, Head, Lists
  <2>2. Allowed(p)
    BY <1>4 DEF Allowed, Head, Lists
  <2> QED BY <2>1, <2>2, PhaseMoves
<1>5. ASSUME NEW p \in Session, TryLock(p) PROVE [Slot!Next]_phaseBar
  <2>1. Only(p)
    BY <1>5 DEF Only, TryLock
  <2>2. Allowed(p)
    BY <1>5 DEF Allowed, TryLock
  <2> QED BY <2>1, <2>2, PhaseMoves
<1>6. ASSUME NEW p \in Session, Recheck(p) PROVE [Slot!Next]_phaseBar
  <2>1. Only(p)
    BY <1>6 DEF Only, Recheck, Lists
  <2>2. Allowed(p)
    <3>1. \A q \in Session : ~Active(q)
      <4> SUFFICES ASSUME NEW q \in Session, Active(q) PROVE FALSE
        OBVIOUS
      <4>1. lock = p /\ pc[p] = "recheck"
        BY <1>6 DEF Recheck, LockInv, LockOK
      <4>2. lock = q
        BY DEF LockInv, LockOK
      <4> QED BY <4>1, <4>2
    <3> QED BY <1>6, <3>1 DEF Allowed, Recheck, Lists
  <2> QED BY <2>1, <2>2, PhaseMoves
<1>7. ASSUME NEW p \in Session, Expire(p) PROVE [Slot!Next]_phaseBar
  <2>1. Only(p)
    BY <1>7 DEF Only, Expire
  <2>2. Allowed(p)
    BY <1>7 DEF Allowed, Expire
  <2> QED BY <2>1, <2>2, PhaseMoves
<1>8. ASSUME NEW p \in Session, KeepWaiting(p) PROVE [Slot!Next]_phaseBar
  <2>1. Only(p)
    BY <1>8 DEF Only, KeepWaiting
  <2>2. Allowed(p)
    BY <1>8 DEF Allowed, KeepWaiting
  <2> QED BY <2>1, <2>2, PhaseMoves
<1>9. ASSUME NEW p \in Session, TouchRead(p) PROVE [Slot!Next]_phaseBar
  <2>1. Only(p)
    BY <1>9 DEF Only, TouchRead
  <2>2. Allowed(p)
    BY <1>9 DEF Allowed, TouchRead
  <2> QED BY <2>1, <2>2, PhaseMoves
<1>10. ASSUME NEW p \in Session, TouchWrite(p) PROVE [Slot!Next]_phaseBar
  <2>1. Only(p)
    BY <1>10 DEF Only, TouchWrite
  <2>2. Allowed(p)
    BY <1>10 DEF Allowed, TouchWrite
  <2> QED BY <2>1, <2>2, PhaseMoves
<1>11. ASSUME NEW p \in Session, SnapList(p) PROVE [Slot!Next]_phaseBar
  <2>1. Only(p)
    BY <1>11 DEF Only, SnapList, Lists
  <2>2. Allowed(p)
    BY <1>11 DEF Allowed, SnapList, Lists
  <2> QED BY <2>1, <2>2, PhaseMoves
<1>12. ASSUME NEW p \in Session, SnapWrite(p) PROVE [Slot!Next]_phaseBar
  <2>1. Only(p)
    BY <1>12 DEF Only, SnapWrite
  <2>2. Allowed(p)
    BY <1>12 DEF Allowed, SnapWrite
  <2> QED BY <2>1, <2>2, PhaseMoves
<1>13. ASSUME NEW p \in Session, SnapError(p) PROVE [Slot!Next]_phaseBar
  <2>1. Only(p)
    BY <1>13 DEF Only, SnapError, Abandon
  <2>2. Allowed(p)
    BY <1>13 DEF Allowed, SnapError, Abandon
  <2> QED BY <2>1, <2>2, PhaseMoves
<1>14. ASSUME NEW p \in Session, StampRead(p) PROVE [Slot!Next]_phaseBar
  <2>1. Only(p)
    BY <1>14 DEF Only, StampRead
  <2>2. Allowed(p)
    BY <1>14 DEF Allowed, StampRead
  <2> QED BY <2>1, <2>2, PhaseMoves
<1>15. ASSUME NEW p \in Session, StampWrite(p) PROVE [Slot!Next]_phaseBar
  <2>1. Only(p)
    BY <1>15 DEF Only, StampWrite
  <2>2. Allowed(p)
    BY <1>15 DEF Allowed, StampWrite
  <2> QED BY <2>1, <2>2, PhaseMoves
<1>16. ASSUME NEW p \in Session, Release(p) PROVE [Slot!Next]_phaseBar
  <2>1. Only(p)
    BY <1>16 DEF Only, Release
  <2>2. Allowed(p)
    BY <1>16 DEF Allowed, Release
  <2> QED BY <2>1, <2>2, PhaseMoves
<1>17. ASSUME NEW p \in Session, StopHeartbeat(p) PROVE [Slot!Next]_phaseBar
  <2>1. Only(p)
    BY <1>17 DEF Only, StopHeartbeat
  <2>2. Allowed(p)
    BY <1>17 DEF Allowed, StopHeartbeat
  <2> QED BY <2>1, <2>2, PhaseMoves
<1>18. ASSUME NEW p \in Session, JoinTimeout(p) PROVE [Slot!Next]_phaseBar
  <2>1. Only(p)
    BY <1>18 DEF Only, JoinTimeout
  <2>2. Allowed(p)
    BY <1>18 DEF Allowed, JoinTimeout
  <2> QED BY <2>1, <2>2, PhaseMoves
<1>19. ASSUME NEW p \in Session, Unlink(p) PROVE [Slot!Next]_phaseBar
  <2>1. Only(p)
    BY <1>19 DEF Only, Unlink
  <2>2. Allowed(p)
    BY <1>19 DEF Allowed, Unlink
  <2> QED BY <2>1, <2>2, PhaseMoves
<1>20. ASSUME NEW p \in Session, Leave(p) PROVE [Slot!Next]_phaseBar
  <2>1. Only(p)
    BY <1>20 DEF Only, Leave
  <2>2. Allowed(p)
    BY <1>20 DEF Allowed, Leave
  <2> QED BY <2>1, <2>2, PhaseMoves
<1>21. ASSUME NEW p \in Session, HbRead(p) PROVE [Slot!Next]_phaseBar
  BY <1>21, PhaseStutters DEF HbRead
<1>22. ASSUME NEW p \in Session, HbWrite(p) PROVE [Slot!Next]_phaseBar
  BY <1>22, PhaseStutters DEF HbWrite
<1>23. ASSUME NEW g \in ghost, GhostWrite(g) PROVE [Slot!Next]_phaseBar
  BY <1>23, PhaseStutters DEF GhostWrite
<1>24. ASSUME NEW p \in Session, Crash(p) PROVE [Slot!Next]_phaseBar
  <2>1. Only(p)
    BY <1>24 DEF Only, Crash
  <2>2. Allowed(p)
    BY <1>24 DEF Allowed, Crash
  <2> QED BY <2>1, <2>2, PhaseMoves
<1>25. ASSUME NEW p \in Session, ReusePid(p) PROVE [Slot!Next]_phaseBar
  <2>1. Only(p)
    BY <1>25 DEF Only, ReusePid
  <2>2. Allowed(p)
    BY <1>25 DEF Allowed, ReusePid
  <2> QED BY <2>1, <2>2, PhaseMoves
<1>26. ASSUME NEW s \in Seqs, Age(s) PROVE [Slot!Next]_phaseBar
  BY <1>26, PhaseStutters DEF Age
<1>27. ASSUME NEW p \in Session, Wedge(p) PROVE [Slot!Next]_phaseBar
  BY <1>27, PhaseStutters DEF Wedge
<1>28. CASE Suspend
  BY <1>28, PhaseStutters DEF Suspend
<1>29. CASE UNCHANGED vars
  BY <1>29, PhaseStutters DEF vars
<1>30. ASSUME NEW p \in Session, LogEnqueued(p) PROVE [Slot!Next]_phaseBar
  <2>1. Only(p)
    BY <1>30 DEF Only, LogEnqueued
  <2>2. Allowed(p)
    BY <1>30 DEF Allowed, LogEnqueued
  <2> QED BY <2>1, <2>2, PhaseMoves
<1>31. ASSUME NEW p \in Session, EnqueueError(p) PROVE [Slot!Next]_phaseBar
  <2>1. Only(p)
    BY <1>31 DEF Only, EnqueueError
  <2>2. Allowed(p)
    BY <1>31 DEF Allowed, EnqueueError
  <2> QED BY <2>1, <2>2, PhaseMoves
<1>32. ASSUME NEW p \in Session, GcSkips(p) PROVE [Slot!Next]_phaseBar
  BY <1>32, PhaseStutters DEF GcSkips
<1>33. ASSUME NEW p \in Session, SkipTicket(p) PROVE [Slot!Next]_phaseBar
  <2>1. Only(p)
    BY <1>33 DEF Only, SkipTicket
  <2>2. Allowed(p)
    BY <1>33 DEF Allowed, SkipTicket
  <2> QED BY <2>1, <2>2, PhaseMoves
<1>34. ASSUME NEW p \in Session, LogError(p) PROVE [Slot!Next]_phaseBar
  <2>1. Only(p)
    BY <1>34 DEF Only, LogError, Abandon
  <2>2. Allowed(p)
    BY <1>34 DEF Allowed, LogError, Abandon
  <2> QED BY <2>1, <2>2, PhaseMoves
<1>35. ASSUME NEW p \in Session, UnlinkError(p) PROVE [Slot!Next]_phaseBar
  <2>1. Only(p)
    BY <1>35 DEF Only, UnlinkError
  <2>2. Allowed(p)
    BY <1>35 DEF Allowed, UnlinkError
  <2> QED BY <2>1, <2>2, PhaseMoves
<1>36. ASSUME NEW p \in Session, HbSkip(p) PROVE [Slot!Next]_phaseBar
  BY <1>36, PhaseStutters DEF HbSkip
<1> QED
  BY <1>1, <1>2, <1>3, <1>4, <1>5, <1>6, <1>7, <1>8, <1>9, <1>10,
     <1>11, <1>12, <1>13, <1>14, <1>15, <1>16, <1>17, <1>18, <1>19, <1>20,
     <1>21, <1>22, <1>23, <1>24, <1>25, <1>26, <1>27, <1>28, <1>29, <1>30,
     <1>31, <1>32, <1>33, <1>34, <1>35, <1>36
     DEF Next, Step, Heartbeat, Fault, FileError

\* acquire_slot implements the slot it promises CouncilBrowser.run: callers
\* wait, at most one is active, and everybody leaves, faults included.
THEOREM QueueImplementsSlot == Spec => ImplementsSlot
<1>1. Init => Slot!Init
  BY DEF Init, Slot!Init, phaseBar, Phase, Active, Waiting, InPoll, InStamp, InSnap
<1> QED
  BY <1>1, SlotStep, LockInit, LockStep, TypeInvCorrect, PTL
     DEF Spec, ImplementsSlot, Slot!Spec
------------------------------------------------------------------------------

\* Where numbers are in use
Fresh(s) ==
    /\ disk[s] = "absent" /\ s \notin snapshot.active
    /\ \A g \in ghost : g.seq # s
    /\ \A q \in Session : s \notin text[q].active

\* Every run has a number of its own, and a number that is not drawn yet is
\* nowhere.
NumbersInv ==
    /\ \A p \in Session : seq[p] <= counter /\ (pc[p] \in {"idle", "dead"} => seq[p] = 0)
    /\ \A p, r \in Session : seq[p] = seq[r] /\ seq[p] # 0 => p = r
    /\ \A s \in Seqs : s > counter => Fresh(s)

\* Nothing says of a run that waits for the slot that it is active: not its
\* ticket, not what its touch or its heartbeat thread are about to write back,
\* and no publisher's listing.
AheadOK(p) ==
    pc[p] = "publish" \/ Waiting(p) =>
        /\ disk[seq[p]] # "active" /\ hb[p] # "active"
        /\ pc[p] = "touchWrite" => buf[p] # "active"
        /\ \A g \in ghost : g.seq # seq[p]
        /\ \A q \in Session : seq[p] \notin text[q].active
        /\ seq[p] \notin snapshot.active
AheadInv == \A p \in Session : AheadOK(p)

\* A written ticket carries the pid of its run for good.
PidInv ==
    \A p \in Session : pc[p] \notin {"idle", "dead", "publish", "leave"} => pidOf[seq[p]] = p

\* p has done what it does about its ticket
Past(p) == pc[p] = "leave" \/ (pc[p] \in InSnap /\ ret[p] = "leave")
\* The tickets that nobody who is still in acquire_slot will unlink
Remains == {s \in Tickets : ~Attended(s) \/ Past(pidOf[s])}
LeftInv ==
    faults["crash"] = 0 /\ faults["stall"] = 0 =>
        ghost = {} /\ Cardinality(Remains) <= faults["error"]

\* Nothing is numbered, listed or left at the start.
LEMMA ListedInit == Init => NumbersInv /\ AheadInv /\ PidInv /\ LeftInv
<1> SUFFICES ASSUME Init PROVE NumbersInv /\ AheadInv /\ PidInv /\ LeftInv
  OBVIOUS
<1> USE DEF Init, Seqs, Blank, InSnap, InPoll, Waiting
<1>1. NumbersInv
  BY BoundAssumption DEF NumbersInv, Fresh
<1>2. AheadInv /\ PidInv
  BY DEF AheadInv, AheadOK, PidInv
<1>3. LeftInv
  <2>1. Remains = {} /\ faults["error"] = 0 /\ ghost = {}
    BY DEF Remains, Tickets, FaultKind
  <2> QED BY <2>1, FS_EmptySet DEF LeftInv
<1> QED BY <1>1, <1>2, <1>3

\* What a publisher lists as active has a ticket that says so.
LEMMA ListedActive ==
    ASSUME NEW S \in SUBSET Seqs, NEW s \in Listing(S).active PROVE disk[s] = "active"
BY DEF Listing

\* Numbers are drawn once, and nothing is written for a number nobody has drawn.
LEMMA NumbersStep == TypeInv /\ NumbersInv /\ [Next]_vars => NumbersInv'
<1> SUFFICES ASSUME TypeInv, NumbersInv, [Next]_vars PROVE NumbersInv'
  OBVIOUS
<1> USE DEF TypeInv, TypeOK, LocInv, LocOK, HasNumber, NumbersInv, Fresh, Seqs, Stamp, Blank,
            InPoll, InSnap, InStamp, InExit, dir, Goto, Put, Remove, Reap, Tickets
<1>1. ASSUME NEW p \in Session, Draw(p) PROVE NumbersInv'
  BY <1>1, BoundAssumption DEF Draw
<1>2. ASSUME NEW p \in Session, WriteTicket(p) PROVE NumbersInv'
  BY <1>2 DEF WriteTicket
<1>3. ASSUME NEW p \in Session, Scan(p) PROVE NumbersInv'
  BY <1>3, ScanLocations DEF Scan
<1>4. ASSUME NEW p \in Session, Head(p) PROVE NumbersInv'
  BY <1>4 DEF Head, Lists
<1>5. ASSUME NEW p \in Session, TryLock(p) PROVE NumbersInv'
  BY <1>5 DEF TryLock
<1>6. ASSUME NEW p \in Session, Recheck(p) PROVE NumbersInv'
  BY <1>6 DEF Recheck, Lists
<1>7. ASSUME NEW p \in Session, Expire(p) PROVE NumbersInv'
  BY <1>7 DEF Expire
<1>8. ASSUME NEW p \in Session, KeepWaiting(p) PROVE NumbersInv'
  BY <1>8 DEF KeepWaiting
<1>9. ASSUME NEW p \in Session, TouchRead(p) PROVE NumbersInv'
  BY <1>9 DEF TouchRead
<1>10. ASSUME NEW p \in Session, TouchWrite(p) PROVE NumbersInv'
  BY <1>10 DEF TouchWrite
<1>11. ASSUME NEW p \in Session, SnapList(p) PROVE NumbersInv'
  <2>1. PICK S \in SUBSET Tickets : Lists(p, S) /\ text' = [text EXCEPT ![p] = Listing(S)]
    BY <1>11 DEF SnapList
  <2>2. \A s \in Seqs : s > counter => s \notin Listing(S).active
    BY <2>1, ListedActive
  <2> HIDE DEF Tickets
  <2> QED BY <1>11, <2>1, <2>2, ZenonT(30) DEF SnapList
<1>12. ASSUME NEW p \in Session, SnapWrite(p) PROVE NumbersInv'
  <2>1. /\ UNCHANGED <<counter, disk, seq, ghost>> /\ snapshot' \in {snapshot, text[p]}
        /\ \A r \in Session : text'[r] = text[r] \/ text'[r] = Blank
    BY <1>12 DEF SnapWrite
  <2>2. \A r \in Session : pc'[r] \in {"idle", "dead"} => pc[r] \in {"idle", "dead"}
    BY <1>12 DEF SnapWrite
  <2>3. \A s : s \notin Blank.active
    OBVIOUS
  <2>4. ASSUME NEW s \in Seqs, s > counter PROVE Fresh(s)'
    <3>1. Fresh(s)
      BY <2>4
    <3> HIDE DEF TypeInv, LocInv, NumbersInv, Blank, Seqs
    <3> QED BY <2>1, <2>3, <3>1
  <2>5. \A r \in Session : seq'[r] <= counter' /\ (pc'[r] \in {"idle", "dead"} => seq'[r] = 0)
    BY <2>1, <2>2
  <2>6. \A r, t \in Session : seq'[r] = seq'[t] /\ seq'[r] # 0 => r = t
    BY <2>1
  <2> HIDE DEF Fresh
  <2> QED BY <2>1, <2>4, <2>5, <2>6
<1>13. ASSUME NEW p \in Session, SnapError(p) PROVE NumbersInv'
  <2>1. /\ UNCHANGED <<counter, disk, seq, ghost, snapshot>>
        /\ \A r \in Session : text'[r] = text[r] \/ text'[r] = Blank
        /\ \A r \in Session : pc'[r] \in {"idle", "dead"} => pc[r] \in {"idle", "dead"}
    BY <1>13 DEF SnapError, Abandon
  <2>2. \A s : s \notin Blank.active
    OBVIOUS
  <2>3. ASSUME NEW s \in Seqs, s > counter PROVE Fresh(s)'
    <3>1. Fresh(s)
      BY <2>3
    <3> HIDE DEF TypeInv, LocInv, NumbersInv, Blank, Seqs
    <3> QED BY <2>1, <2>2, <3>1
  <2> HIDE DEF Fresh
  <2> QED BY <2>1, <2>3
<1>14. ASSUME NEW p \in Session, StampRead(p) PROVE NumbersInv'
  BY <1>14, SMTT(30) DEF StampRead
<1>15. ASSUME NEW p \in Session, StampWrite(p) PROVE NumbersInv'
  BY <1>15 DEF StampWrite
<1>16. ASSUME NEW p \in Session, Release(p) PROVE NumbersInv'
  BY <1>16 DEF Release
<1>17. ASSUME NEW p \in Session, StopHeartbeat(p) PROVE NumbersInv'
  BY <1>17 DEF StopHeartbeat
<1>18. ASSUME NEW p \in Session, JoinTimeout(p) PROVE NumbersInv'
  BY <1>18 DEF JoinTimeout
<1>19. ASSUME NEW p \in Session, Unlink(p) PROVE NumbersInv'
  BY <1>19 DEF Unlink
<1>20. ASSUME NEW p \in Session, Leave(p) PROVE NumbersInv'
  BY <1>20 DEF Leave
<1>21. ASSUME NEW p \in Session, HbRead(p) PROVE NumbersInv'
  BY <1>21 DEF HbRead
<1>22. ASSUME NEW p \in Session, HbWrite(p) PROVE NumbersInv'
  BY <1>22 DEF HbWrite
<1>23. ASSUME NEW g \in ghost, GhostWrite(g) PROVE NumbersInv'
  BY <1>23 DEF GhostWrite
<1>24. ASSUME NEW p \in Session, Crash(p) PROVE NumbersInv'
  BY <1>24 DEF Crash
<1>25. ASSUME NEW p \in Session, ReusePid(p) PROVE NumbersInv'
  BY <1>25 DEF ReusePid
<1>26. ASSUME NEW s \in Seqs, Age(s) PROVE NumbersInv'
  BY <1>26 DEF Age
<1>27. ASSUME NEW p \in Session, Wedge(p) PROVE NumbersInv'
  BY <1>27 DEF Wedge
<1>28. CASE Suspend
  BY <1>28 DEF Suspend
<1>29. CASE UNCHANGED vars
  BY <1>29 DEF vars
<1>30. ASSUME NEW p \in Session, LogEnqueued(p) PROVE NumbersInv'
  BY <1>30 DEF LogEnqueued
<1>31. ASSUME NEW p \in Session, EnqueueError(p) PROVE NumbersInv'
  BY <1>31 DEF EnqueueError
<1>32. ASSUME NEW p \in Session, GcSkips(p) PROVE NumbersInv'
  BY <1>32 DEF GcSkips
<1>33. ASSUME NEW p \in Session, SkipTicket(p) PROVE NumbersInv'
  BY <1>33 DEF SkipTicket
<1>34. ASSUME NEW p \in Session, LogError(p) PROVE NumbersInv'
  BY <1>34 DEF LogError, Abandon
<1>35. ASSUME NEW p \in Session, UnlinkError(p) PROVE NumbersInv'
  BY <1>35 DEF UnlinkError
<1>36. ASSUME NEW p \in Session, HbSkip(p) PROVE NumbersInv'
  BY <1>36 DEF HbSkip
<1> QED
  BY <1>1, <1>2, <1>3, <1>4, <1>5, <1>6, <1>7, <1>8, <1>9, <1>10,
     <1>11, <1>12, <1>13, <1>14, <1>15, <1>16, <1>17, <1>18, <1>19, <1>20,
     <1>21, <1>22, <1>23, <1>24, <1>25, <1>26, <1>27, <1>28, <1>29, <1>30,
     <1>31, <1>32, <1>33, <1>34, <1>35, <1>36
     DEF Next, Step, Heartbeat, Fault, FileError
\* No writer but the run itself writes its number, and it has not said "active" yet.
LEMMA AheadStep == TypeInv /\ NumbersInv /\ AheadInv /\ [Next]_vars => AheadInv'
<1> SUFFICES ASSUME TypeInv, NumbersInv, AheadInv, [Next]_vars, NEW q \in Session
             PROVE  AheadOK(q)'
  BY DEF AheadInv
<1> USE DEF TypeInv, TypeOK, LocInv, LocOK, HasNumber, NumbersInv, Fresh, AheadInv, AheadOK,
            Waiting, Seqs, Stamp, Blank, InPoll, InSnap, InStamp, InExit, dir, Goto, Put,
            Remove, Reap, Tickets
<1>1. ASSUME NEW p \in Session, Draw(p) PROVE AheadOK(q)'
  <2>1. CASE q = p
    <3>1. seq'[p] = counter + 1 /\ counter + 1 \in Seqs /\ counter + 1 > counter
      BY <1>1, BoundAssumption DEF Draw
    <3>2. Fresh(counter + 1) /\ hb[p] = "off" /\ pc'[p] = "publish"
      BY <1>1, <3>1 DEF Draw
    <3> QED BY <1>1, <2>1, <3>1, <3>2 DEF Draw
  <2>2. CASE q # p
    BY <1>1, <2>2 DEF Draw
  <2> QED BY <2>1, <2>2
<1>2. ASSUME NEW p \in Session, WriteTicket(p) PROVE AheadOK(q)'
  BY <1>2 DEF WriteTicket
<1>3. ASSUME NEW p \in Session, Scan(p) PROVE AheadOK(q)'
  BY <1>3, ScanLocations DEF Scan
<1>4. ASSUME NEW p \in Session, Head(p) PROVE AheadOK(q)'
  <2>1. /\ \A s \in Seqs : disk'[s] \in {"absent", disk[s]}
        /\ UNCHANGED <<seq, hb, buf, ghost, text, snapshot, ret>>
    BY <1>4 DEF Head
  <2>2. pc[p] = "head" /\ \A r \in Session \ {p} : pc'[r] = pc[r]
    BY <1>4 DEF Head
  <2>3. pc'[p] \in {"try", "wait"}
    BY <1>4 DEF Head
  <2>4. (pc'[q] = "publish" \/ Waiting(q)') => pc[q] = "publish" \/ Waiting(q)
    BY <2>1, <2>2, <2>3
  <2>5. pc'[q] = "touchWrite" => pc[q] = "touchWrite"
    BY <2>2, <2>3
  <2>6. pc[q] = "publish" \/ Waiting(q) => seq[q] \in Seqs
    OBVIOUS
  <2> HIDE DEF Tickets, TypeInv, TypeOK, LocInv, LocOK, NumbersInv, Waiting, Seqs
  <2> QED BY <2>1, <2>4, <2>5, <2>6
<1>5. ASSUME NEW p \in Session, TryLock(p) PROVE AheadOK(q)'
  BY <1>5 DEF TryLock
<1>6. ASSUME NEW p \in Session, Recheck(p) PROVE AheadOK(q)'
  <2>1. /\ \A s \in Seqs : disk'[s] \in {"absent", disk[s]}
        /\ UNCHANGED <<seq, hb, buf, ghost, text, snapshot, ret>>
    BY <1>6 DEF Recheck
  <2>2. pc[p] = "recheck" /\ \A r \in Session \ {p} : pc'[r] = pc[r]
    BY <1>6 DEF Recheck
  <2>3. pc'[p] \in {"stamp", "scan"}
    BY <1>6 DEF Recheck
  <2>4. (pc'[q] = "publish" \/ Waiting(q)') => pc[q] = "publish" \/ Waiting(q)
    BY <2>1, <2>2, <2>3
  <2>5. pc'[q] = "touchWrite" => pc[q] = "touchWrite"
    BY <2>2, <2>3
  <2>6. pc[q] = "publish" \/ Waiting(q) => seq[q] \in Seqs
    OBVIOUS
  <2> HIDE DEF Tickets, TypeInv, TypeOK, LocInv, LocOK, NumbersInv, Waiting, Seqs
  <2> QED BY <2>1, <2>4, <2>5, <2>6
<1>7. ASSUME NEW p \in Session, Expire(p) PROVE AheadOK(q)'
  BY <1>7 DEF Expire
<1>8. ASSUME NEW p \in Session, KeepWaiting(p) PROVE AheadOK(q)'
  BY <1>8 DEF KeepWaiting
<1>9. ASSUME NEW p \in Session, TouchRead(p) PROVE AheadOK(q)'
  BY <1>9 DEF TouchRead
<1>10. ASSUME NEW p \in Session, TouchWrite(p) PROVE AheadOK(q)'
  BY <1>10 DEF TouchWrite
<1>11. ASSUME NEW p \in Session, SnapList(p) PROVE AheadOK(q)'
  <2>1. PICK S \in SUBSET Tickets : text' = [text EXCEPT ![p] = Listing(S)]
    BY <1>11 DEF SnapList
  <2>2. pc[q] = "publish" \/ Waiting(q) => seq[q] \notin Listing(S).active
    BY ListedActive
  <2>3. \A s \in Seqs : disk'[s] \in {"absent", disk[s]}
    BY <1>11 DEF SnapList
  <2>4. /\ UNCHANGED <<seq, hb, buf, ghost, snapshot, ret>>
        /\ \A r \in Session : text'[r] = text[r] \/ text'[r] = Listing(S)
    BY <1>11, <2>1 DEF SnapList
  <2>5. (pc'[q] = "publish" \/ Waiting(q)') => pc[q] = "publish" \/ Waiting(q)
    BY <1>11 DEF SnapList
  <2>6. pc'[q] = "touchWrite" => pc[q] = "touchWrite"
    BY <1>11 DEF SnapList
  <2>7. pc[q] = "publish" \/ Waiting(q) => seq[q] \in Seqs
    OBVIOUS
  <2> HIDE DEF Tickets, TypeInv, TypeOK, LocInv, LocOK, NumbersInv, Waiting, Seqs
  <2> QED BY <2>2, <2>3, <2>4, <2>5, <2>6, <2>7
<1>12. ASSUME NEW p \in Session, SnapWrite(p) PROVE AheadOK(q)'
  <2>1. /\ UNCHANGED <<disk, seq, hb, buf, ghost, ret>> /\ snapshot' \in {snapshot, text[p]}
        /\ \A r \in Session : text'[r] = text[r] \/ text'[r] = Blank
    BY <1>12 DEF SnapWrite
  <2>2. (pc'[q] = "publish" \/ Waiting(q)') => pc[q] = "publish" \/ Waiting(q)
    BY <1>12 DEF SnapWrite
  <2>3. pc'[q] = "touchWrite" => pc[q] = "touchWrite"
    BY <1>12 DEF SnapWrite
  <2>4. pc[q] = "publish" \/ Waiting(q) => seq[q] \in Seqs
    OBVIOUS
  <2>5. \A s : s \notin Blank.active
    OBVIOUS
  <2> HIDE DEF TypeInv, TypeOK, LocInv, LocOK, NumbersInv, Waiting, Seqs, Blank
  <2> QED BY <2>1, <2>2, <2>3, <2>4, <2>5
<1>13. ASSUME NEW p \in Session, SnapError(p) PROVE AheadOK(q)'
  BY <1>13 DEF SnapError, Abandon
<1>14. ASSUME NEW p \in Session, StampRead(p) PROVE AheadOK(q)'
  BY <1>14 DEF StampRead
<1>15. ASSUME NEW p \in Session, StampWrite(p) PROVE AheadOK(q)'
  BY <1>15 DEF StampWrite
<1>16. ASSUME NEW p \in Session, Release(p) PROVE AheadOK(q)'
  BY <1>16 DEF Release
<1>17. ASSUME NEW p \in Session, StopHeartbeat(p) PROVE AheadOK(q)'
  BY <1>17 DEF StopHeartbeat
<1>18. ASSUME NEW p \in Session, JoinTimeout(p) PROVE AheadOK(q)'
  <2>1. /\ UNCHANGED <<disk, seq, buf, snapshot, text, ret>>
        /\ ghost' = ghost \cup {[seq |-> seq[p], state |-> hb[p], pid |-> p]}
        /\ \A r \in Session \ {p} : hb'[r] = hb[r] /\ pc'[r] = pc[r]
        /\ pc[p] = "stop" /\ pc'[p] = "unlink"
    BY <1>18 DEF JoinTimeout
  <2>2. CASE q = p
    BY <2>1, <2>2
  <2>3. CASE q # p
    <3>1. pc[q] = "publish" \/ Waiting(q) => seq[q] # seq[p]
      <4>1. pc[q] = "publish" \/ Waiting(q) => seq[q] # 0
        <5>1. pc[q] = "publish" \/ Waiting(q) => seq[q] \in Seqs
          OBVIOUS
        <5> HIDE DEF Waiting, TypeInv, LocInv, LocOK, NumbersInv, AheadInv
        <5> QED BY <5>1
      <4>2. seq[p] = seq[q] /\ seq[p] # 0 => p = q
        <5> HIDE DEF Waiting, TypeInv, LocInv, LocOK, AheadInv, Fresh
        <5> QED BY DEF NumbersInv
      <4> HIDE DEF NumbersInv, TypeInv, Waiting
      <4> QED BY <2>3, <4>1, <4>2
    <3>2. \A g \in ghost' : g \in ghost \/ g.seq = seq[p]
      BY <2>1
    <3> QED BY <2>1, <2>3, <3>1, <3>2
  <2> QED BY <2>2, <2>3
<1>19. ASSUME NEW p \in Session, Unlink(p) PROVE AheadOK(q)'
  <2>1. /\ \A s \in Seqs : disk'[s] \in {"absent", disk[s]}
        /\ UNCHANGED <<seq, hb, buf, ghost, text, snapshot, ret>>
    BY <1>19 DEF Unlink
  <2>2. (pc'[q] = "publish" \/ Waiting(q)') => pc[q] = "publish" \/ Waiting(q)
    BY <1>19 DEF Unlink
  <2>3. pc'[q] = "touchWrite" => pc[q] = "touchWrite"
    BY <1>19 DEF Unlink
  <2>4. pc[q] = "publish" \/ Waiting(q) => seq[q] \in Seqs
    OBVIOUS
  <2> HIDE DEF Tickets, TypeInv, TypeOK, LocInv, LocOK, NumbersInv, Waiting, Seqs
  <2> QED BY <2>1, <2>2, <2>3, <2>4
<1>20. ASSUME NEW p \in Session, Leave(p) PROVE AheadOK(q)'
  BY <1>20 DEF Leave
<1>21. ASSUME NEW p \in Session, HbRead(p) PROVE AheadOK(q)'
  BY <1>21 DEF HbRead
<1>22. ASSUME NEW p \in Session, HbWrite(p) PROVE AheadOK(q)'
  BY <1>22 DEF HbWrite
<1>23. ASSUME NEW g \in ghost, GhostWrite(g) PROVE AheadOK(q)'
  BY <1>23 DEF GhostWrite
<1>24. ASSUME NEW p \in Session, Crash(p) PROVE AheadOK(q)'
  BY <1>24 DEF Crash
<1>25. ASSUME NEW p \in Session, ReusePid(p) PROVE AheadOK(q)'
  BY <1>25 DEF ReusePid
<1>26. ASSUME NEW s \in Seqs, Age(s) PROVE AheadOK(q)'
  BY <1>26 DEF Age
<1>27. ASSUME NEW p \in Session, Wedge(p) PROVE AheadOK(q)'
  BY <1>27 DEF Wedge
<1>28. CASE Suspend
  BY <1>28 DEF Suspend
<1>29. CASE UNCHANGED vars
  BY <1>29 DEF vars
<1>30. ASSUME NEW p \in Session, LogEnqueued(p) PROVE AheadOK(q)'
  BY <1>30 DEF LogEnqueued
<1>31. ASSUME NEW p \in Session, EnqueueError(p) PROVE AheadOK(q)'
  BY <1>31 DEF EnqueueError
<1>32. ASSUME NEW p \in Session, GcSkips(p) PROVE AheadOK(q)'
  BY <1>32 DEF GcSkips
<1>33. ASSUME NEW p \in Session, SkipTicket(p) PROVE AheadOK(q)'
  BY <1>33 DEF SkipTicket
<1>34. ASSUME NEW p \in Session, LogError(p) PROVE AheadOK(q)'
  BY <1>34 DEF LogError, Abandon
<1>35. ASSUME NEW p \in Session, UnlinkError(p) PROVE AheadOK(q)'
  BY <1>35 DEF UnlinkError
<1>36. ASSUME NEW p \in Session, HbSkip(p) PROVE AheadOK(q)'
  BY <1>36 DEF HbSkip
<1> QED
  BY <1>1, <1>2, <1>3, <1>4, <1>5, <1>6, <1>7, <1>8, <1>9, <1>10,
     <1>11, <1>12, <1>13, <1>14, <1>15, <1>16, <1>17, <1>18, <1>19, <1>20,
     <1>21, <1>22, <1>23, <1>24, <1>25, <1>26, <1>27, <1>28, <1>29, <1>30,
     <1>31, <1>32, <1>33, <1>34, <1>35, <1>36
     DEF Next, Step, Heartbeat, Fault, FileError
\* A run's pid stays on its ticket.
LEMMA PidStep == TypeInv /\ NumbersInv /\ PidInv /\ [Next]_vars => PidInv'
<1> SUFFICES ASSUME TypeInv, NumbersInv, PidInv, [Next]_vars PROVE PidInv'
  OBVIOUS
<1> USE DEF TypeInv, TypeOK, LocInv, LocOK, HasNumber, NumbersInv, PidInv, Seqs, Stamp,
            InPoll, InSnap, InStamp, InExit, dir, Goto
<1>1. ASSUME NEW p \in Session, Draw(p) PROVE PidInv'
  BY <1>1 DEF Draw
<1>2. ASSUME NEW p \in Session, WriteTicket(p) PROVE PidInv'
  BY <1>2 DEF WriteTicket
<1>3. ASSUME NEW p \in Session, Scan(p) PROVE PidInv'
  BY <1>3, ScanLocations DEF Scan
<1>4. ASSUME NEW p \in Session, Head(p) PROVE PidInv'
  BY <1>4 DEF Head, Lists
<1>5. ASSUME NEW p \in Session, TryLock(p) PROVE PidInv'
  BY <1>5 DEF TryLock
<1>6. ASSUME NEW p \in Session, Recheck(p) PROVE PidInv'
  BY <1>6 DEF Recheck, Lists
<1>7. ASSUME NEW p \in Session, Expire(p) PROVE PidInv'
  BY <1>7 DEF Expire
<1>8. ASSUME NEW p \in Session, KeepWaiting(p) PROVE PidInv'
  BY <1>8 DEF KeepWaiting
<1>9. ASSUME NEW p \in Session, TouchRead(p) PROVE PidInv'
  <2>1. /\ UNCHANGED <<seq, pidOf>> /\ pc[p] = "touch"
        /\ \A r \in Session \ {p} : pc'[r] = pc[r]
    BY <1>9 DEF TouchRead
  <2> QED BY <2>1
<1>10. ASSUME NEW p \in Session, TouchWrite(p) PROVE PidInv'
  BY <1>10 DEF TouchWrite
<1>11. ASSUME NEW p \in Session, SnapList(p) PROVE PidInv'
  BY <1>11 DEF SnapList, Lists
<1>12. ASSUME NEW p \in Session, SnapWrite(p) PROVE PidInv'
  BY <1>12 DEF SnapWrite
<1>13. ASSUME NEW p \in Session, SnapError(p) PROVE PidInv'
  BY <1>13 DEF SnapError, Abandon
<1>14. ASSUME NEW p \in Session, StampRead(p) PROVE PidInv'
  <2>1. /\ UNCHANGED <<seq, pidOf>> /\ pc[p] = "stamp"
        /\ \A r \in Session \ {p} : pc'[r] = pc[r]
    BY <1>14 DEF StampRead
  <2> QED BY <2>1
<1>15. ASSUME NEW p \in Session, StampWrite(p) PROVE PidInv'
  BY <1>15 DEF StampWrite
<1>16. ASSUME NEW p \in Session, Release(p) PROVE PidInv'
  BY <1>16 DEF Release
<1>17. ASSUME NEW p \in Session, StopHeartbeat(p) PROVE PidInv'
  BY <1>17 DEF StopHeartbeat
<1>18. ASSUME NEW p \in Session, JoinTimeout(p) PROVE PidInv'
  BY <1>18 DEF JoinTimeout
<1>19. ASSUME NEW p \in Session, Unlink(p) PROVE PidInv'
  BY <1>19 DEF Unlink
<1>20. ASSUME NEW p \in Session, Leave(p) PROVE PidInv'
  BY <1>20 DEF Leave
<1>21. ASSUME NEW p \in Session, HbRead(p) PROVE PidInv'
  BY <1>21 DEF HbRead
<1>22. ASSUME NEW p \in Session, HbWrite(p) PROVE PidInv'
  BY <1>22 DEF HbWrite
<1>23. ASSUME NEW g \in ghost, GhostWrite(g) PROVE PidInv'
  BY <1>23 DEF GhostWrite
<1>24. ASSUME NEW p \in Session, Crash(p) PROVE PidInv'
  BY <1>24 DEF Crash
<1>25. ASSUME NEW p \in Session, ReusePid(p) PROVE PidInv'
  BY <1>25 DEF ReusePid
<1>26. ASSUME NEW s \in Seqs, Age(s) PROVE PidInv'
  BY <1>26 DEF Age
<1>27. ASSUME NEW p \in Session, Wedge(p) PROVE PidInv'
  BY <1>27 DEF Wedge
<1>28. CASE Suspend
  BY <1>28 DEF Suspend
<1>29. CASE UNCHANGED vars
  BY <1>29 DEF vars
<1>30. ASSUME NEW p \in Session, LogEnqueued(p) PROVE PidInv'
  BY <1>30 DEF LogEnqueued
<1>31. ASSUME NEW p \in Session, EnqueueError(p) PROVE PidInv'
  BY <1>31 DEF EnqueueError
<1>32. ASSUME NEW p \in Session, GcSkips(p) PROVE PidInv'
  BY <1>32 DEF GcSkips
<1>33. ASSUME NEW p \in Session, SkipTicket(p) PROVE PidInv'
  BY <1>33 DEF SkipTicket
<1>34. ASSUME NEW p \in Session, LogError(p) PROVE PidInv'
  BY <1>34 DEF LogError, Abandon
<1>35. ASSUME NEW p \in Session, UnlinkError(p) PROVE PidInv'
  BY <1>35 DEF UnlinkError
<1>36. ASSUME NEW p \in Session, HbSkip(p) PROVE PidInv'
  BY <1>36 DEF HbSkip
<1> QED
  BY <1>1, <1>2, <1>3, <1>4, <1>5, <1>6, <1>7, <1>8, <1>9, <1>10,
     <1>11, <1>12, <1>13, <1>14, <1>15, <1>16, <1>17, <1>18, <1>19, <1>20,
     <1>21, <1>22, <1>23, <1>24, <1>25, <1>26, <1>27, <1>28, <1>29, <1>30,
     <1>31, <1>32, <1>33, <1>34, <1>35, <1>36
     DEF Next, Step, Heartbeat, Fault, FileError
\* A step leaves no ticket behind, or one and an error
Kept == Remains' \subseteq Remains
OneLeft == /\ faults'["error"] = faults["error"] + 1
           /\ \E x \in Seqs : Remains' \subseteq Remains \cup {x}

\* What the two mean for the count.
LEMMA LeftCount ==
    ASSUME TypeInv, Cardinality(Remains) <= faults["error"], Kept \/ OneLeft,
           faults'["error"] \in {faults["error"], faults["error"] + 1}
    PROVE  Cardinality(Remains') <= faults'["error"]
<1>1. IsFiniteSet(Remains) /\ Cardinality(Remains) \in Nat /\ faults["error"] \in Nat
  <2>1. IsFiniteSet(Seqs)
    BY FS_Interval, BoundAssumption DEF Seqs
  <2>2. Remains \subseteq Seqs
    BY DEF Remains, Tickets
  <2>3. IsFiniteSet(Remains)
    BY <2>1, <2>2, FS_Subset
  <2>4. Cardinality(Remains) \in Nat
    BY <2>3, FS_CardinalityType
  <2> QED BY <2>3, <2>4 DEF TypeInv, TypeOK, FaultKind
<1>2. CASE Kept
  <2>1. Cardinality(Remains') <= Cardinality(Remains) /\ Cardinality(Remains') \in Nat
    <3>1. Remains' \subseteq Remains
      BY <1>2 DEF Kept
    <3> HIDE DEF Remains
    <3> QED BY <1>1, <3>1, FS_Subset, FS_CardinalityType
  <2> QED BY <1>1, <2>1
<1>3. CASE OneLeft
  <2>1. PICK x \in Seqs : Remains' \subseteq Remains \cup {x}
    BY <1>3 DEF OneLeft
  <2>2. /\ IsFiniteSet(Remains \cup {x})
        /\ Cardinality(Remains \cup {x}) <= Cardinality(Remains) + 1
        /\ Cardinality(Remains \cup {x}) \in Nat
    <3>1. /\ IsFiniteSet(Remains \cup {x})
          /\ Cardinality(Remains \cup {x}) =
               IF x \in Remains THEN Cardinality(Remains) ELSE Cardinality(Remains) + 1
      BY <1>1, FS_AddElement
    <3> QED BY <1>1, <3>1
  <2>3. Cardinality(Remains') <= Cardinality(Remains \cup {x}) /\ Cardinality(Remains') \in Nat
    BY <2>1, <2>2, FS_Subset, FS_CardinalityType
  <2>4. faults'["error"] = faults["error"] + 1
    BY <1>3 DEF OneLeft
  <2> QED BY <1>1, <2>2, <2>3, <2>4
<1> QED BY <1>2, <1>3

\* A run that rewrites its own ticket while it is not on its way out leaves
\* nothing behind.
LEMMA OwnWrite ==
    ASSUME TypeInv, NumbersInv, PidInv, NEW p \in Session, NEW st, Put(seq[p], st),
           pc[p] \notin {"idle", "dead", "publish", "leave"}, ~Past(p)',
           UNCHANGED <<seq, pidOf>>,
           \A r \in Session \ {p} : pc'[r] = pc[r] /\ ret'[r] = ret[r]
    PROVE  Kept
<1>1. seq[p] \in Seqs /\ pidOf[seq[p]] = p
  BY DEF TypeInv, LocInv, LocOK, HasNumber, PidInv
<1>2. \A s \in Seqs \ {seq[p]} : disk'[s] = disk[s]
  BY DEF Put, TypeInv, TypeOK
<1>3. seq[p] \notin Remains'
  BY <1>1 DEF Remains, Attended
<1>4. ASSUME NEW s \in Remains' PROVE s \in Remains
  <2>1. s \in Seqs /\ s # seq[p] /\ s \in Tickets /\ (~Attended(s) \/ Past(pidOf[s])')
    BY <1>2, <1>3, <1>4 DEF Remains, Tickets, Attended
  <2>2. Attended(s) => pidOf[s] \in Session \ {p}
    BY <2>1 DEF Attended
  <2>3. ASSUME NEW r \in Session \ {p} PROVE Past(r)' = Past(r)
    BY DEF Past
  <2>4. Attended(s) => Past(pidOf[s])
    <3> SUFFICES ASSUME Attended(s) PROVE Past(pidOf[s])
      OBVIOUS
    <3>1. PICK r \in Session \ {p} : r = pidOf[s]
      BY <2>2
    <3>2. Past(pidOf[s])' = Past(r)'
      BY <3>1 DEF Past
    <3> QED BY <2>1, <2>3, <3>1, <3>2
  <2> QED BY <2>1, <2>4 DEF Remains
<1> QED BY <1>4 DEF Kept

\* Leaving takes the ticket along.
LEMMA LeftMoves ==
    ASSUME TypeInv, NumbersInv, PidInv, ghost = {}, [Next]_vars,
           faults'["crash"] = 0, faults'["stall"] = 0
    PROVE  (Kept \/ OneLeft) /\ ghost' = {}
<1>0. faults["crash"] = 0 /\ faults["stall"] = 0
  BY FaultsGrow
<1> USE <1>0 DEF TypeInv, TypeOK, LocInv, LocOK, HasNumber, NumbersInv, PidInv, Past,
            Remains, Kept, OneLeft, Attended, FaultKind, Spend, Seqs, Stamp, InPoll, InSnap,
            InStamp, InExit, dir, Goto, Put, Remove, Reap, Tickets
<1> DEFINE Good == Kept \/ OneLeft
<1>1. ASSUME NEW p \in Session, Draw(p) PROVE Good
  <2>1. /\ UNCHANGED <<disk, pidOf, ret>> /\ seq[p] = 0 /\ ~Past(p)'
        /\ \A r \in Session \ {p} : seq'[r] = seq[r] /\ pc'[r] = pc[r]
    BY <1>1 DEF Draw
  <2>2. ASSUME NEW s \in Remains' PROVE s \in Remains
    BY <2>1, <2>2
  <2> HIDE DEF Remains
  <2> QED BY <2>2
<1>2. ASSUME NEW p \in Session, WriteTicket(p) PROVE Good
  BY <1>2 DEF WriteTicket
<1>3. ASSUME NEW p \in Session, Scan(p) PROVE Good
  <2>1. UNCHANGED <<disk, seq, pidOf, ret>> /\ \A r \in Session \ {p} : pc'[r] = pc[r]
    BY <1>3 DEF Scan
  <2>2. Past(p)' => Past(p)
    BY <1>3, ScanLocations DEF Scan
  <2> QED BY <2>1, <2>2
<1>4. ASSUME NEW p \in Session, Head(p) PROVE Good
  <2>1. /\ \A s \in Seqs : disk'[s] \in {"absent", disk[s]}
        /\ UNCHANGED <<seq, pidOf, ret>>
        /\ \A r \in Session \ {p} : pc'[r] = pc[r]
    BY <1>4 DEF Head
  <2>2. Past(p)' => Past(p)
    BY <1>4 DEF Head
  <2> QED BY <2>1, <2>2
<1>5. ASSUME NEW p \in Session, TryLock(p) PROVE Good
  BY <1>5 DEF TryLock
<1>6. ASSUME NEW p \in Session, Recheck(p) PROVE Good
  <2>1. /\ \A s \in Seqs : disk'[s] \in {"absent", disk[s]}
        /\ UNCHANGED <<seq, pidOf, ret>>
        /\ \A r \in Session \ {p} : pc'[r] = pc[r]
    BY <1>6 DEF Recheck
  <2>2. Past(p)' => Past(p)
    BY <1>6 DEF Recheck
  <2> QED BY <2>1, <2>2
<1>7. ASSUME NEW p \in Session, Expire(p) PROVE Good
  BY <1>7 DEF Expire
<1>8. ASSUME NEW p \in Session, KeepWaiting(p) PROVE Good
  BY <1>8 DEF KeepWaiting
<1>9. ASSUME NEW p \in Session, TouchRead(p) PROVE Good
  BY <1>9 DEF TouchRead
<1>10. ASSUME NEW p \in Session, TouchWrite(p) PROVE Good
  <2>1. /\ pc[p] \notin {"idle", "dead", "publish", "leave"} /\ ~Past(p)'
        /\ UNCHANGED <<seq, pidOf>>
        /\ \A r \in Session \ {p} : pc'[r] = pc[r] /\ ret'[r] = ret[r]
    BY <1>10 DEF TouchWrite
  <2>2. \E st : Put(seq[p], st)
    BY <1>10 DEF TouchWrite
  <2> HIDE DEF Put, TypeInv, NumbersInv, PidInv, Past, Kept
  <2> QED BY <2>1, <2>2, OwnWrite
<1>11. ASSUME NEW p \in Session, SnapList(p) PROVE Good
  <2>1. /\ \A s \in Seqs : disk'[s] \in {"absent", disk[s]}
        /\ UNCHANGED <<seq, pidOf, ret>>
        /\ \A r \in Session \ {p} : pc'[r] = pc[r]
    BY <1>11 DEF SnapList
  <2>2. Past(p)' => Past(p)
    BY <1>11 DEF SnapList
  <2> QED BY <2>1, <2>2
<1>12. ASSUME NEW p \in Session, SnapWrite(p) PROVE Good
  BY <1>12 DEF SnapWrite
<1>13. ASSUME NEW p \in Session, SnapError(p) PROVE Good
  <2>1. /\ UNCHANGED <<disk, seq, pidOf>> /\ seq[p] \in Seqs
        /\ faults'["error"] = faults["error"] + 1
        /\ \A r \in Session \ {p} : pc'[r] = pc[r] /\ ret'[r] = ret[r]
    BY <1>13 DEF SnapError, Abandon
  <2>2. Remains' \subseteq Remains \cup {seq[p]}
    BY <2>1
  <2> HIDE DEF Remains
  <2> QED BY <2>1, <2>2
<1>14. ASSUME NEW p \in Session, StampRead(p) PROVE Good
  BY <1>14 DEF StampRead
<1>15. ASSUME NEW p \in Session, StampWrite(p) PROVE Good
  <2>1. /\ pc[p] \notin {"idle", "dead", "publish", "leave"} /\ ~Past(p)'
        /\ UNCHANGED <<seq, pidOf>>
        /\ \A r \in Session \ {p} : pc'[r] = pc[r] /\ ret'[r] = ret[r]
    BY <1>15 DEF StampWrite
  <2>2. \E st : Put(seq[p], st)
    BY <1>15 DEF StampWrite
  <2> HIDE DEF Put, TypeInv, NumbersInv, PidInv, Past, Kept
  <2> QED BY <2>1, <2>2, OwnWrite
<1>16. ASSUME NEW p \in Session, Release(p) PROVE Good
  BY <1>16 DEF Release
<1>17. ASSUME NEW p \in Session, StopHeartbeat(p) PROVE Good
  BY <1>17 DEF StopHeartbeat
<1>18. ASSUME NEW p \in Session, JoinTimeout(p) PROVE Good
  BY <1>18 DEF JoinTimeout
<1>19. ASSUME NEW p \in Session, Unlink(p) PROVE Good
  <2>1. /\ UNCHANGED <<seq, pidOf, ret>> /\ pidOf[seq[p]] = p
        /\ \A r \in Session \ {p} : pc'[r] = pc[r]
        /\ \A s \in Seqs : disk'[s] = IF s = seq[p] THEN "absent" ELSE disk[s]
    BY <1>19 DEF Unlink
  <2> QED BY <2>1
<1>20. ASSUME NEW p \in Session, Leave(p) PROVE Good
  BY <1>20 DEF Leave
<1>21. ASSUME NEW p \in Session, HbRead(p) PROVE Good
  BY <1>21 DEF HbRead
<1>22. ASSUME NEW p \in Session, HbWrite(p) PROVE Good
  <2>1. /\ pc[p] \notin {"idle", "dead", "publish", "leave"} /\ ~Past(p)'
        /\ UNCHANGED <<seq, pidOf>>
        /\ \A r \in Session \ {p} : pc'[r] = pc[r] /\ ret'[r] = ret[r]
    BY <1>22 DEF HbWrite
  <2>2. \E st : Put(seq[p], st)
    BY <1>22 DEF HbWrite
  <2> HIDE DEF Put, TypeInv, NumbersInv, PidInv, Past, Kept
  <2> QED BY <2>1, <2>2, OwnWrite
<1>23. ASSUME NEW g \in ghost, GhostWrite(g) PROVE Good
  BY <1>23 DEF GhostWrite
<1>24. ASSUME NEW p \in Session, Crash(p) PROVE Good
  BY <1>24 DEF Crash
<1>25. ASSUME NEW p \in Session, ReusePid(p) PROVE Good
  BY <1>25 DEF ReusePid
<1>26. ASSUME NEW s \in Seqs, Age(s) PROVE Good
  BY <1>26 DEF Age
<1>27. ASSUME NEW p \in Session, Wedge(p) PROVE Good
  BY <1>27 DEF Wedge
<1>28. CASE Suspend
  BY <1>28 DEF Suspend
<1>29. CASE UNCHANGED vars
  BY <1>29 DEF vars
<1>30. ASSUME NEW p \in Session, LogEnqueued(p) PROVE Good
  BY <1>30 DEF LogEnqueued
<1>31. ASSUME NEW p \in Session, EnqueueError(p) PROVE Good
  <2>1. /\ UNCHANGED <<disk, seq, pidOf>> /\ seq[p] \in Seqs
        /\ faults'["error"] = faults["error"] + 1
        /\ \A r \in Session \ {p} : pc'[r] = pc[r] /\ ret'[r] = ret[r]
    BY <1>31 DEF EnqueueError
  <2>2. Remains' \subseteq Remains \cup {seq[p]}
    BY <2>1
  <2> HIDE DEF Remains
  <2> QED BY <2>1, <2>2
<1>32. ASSUME NEW p \in Session, GcSkips(p) PROVE Good
  BY <1>32 DEF GcSkips
<1>33. ASSUME NEW p \in Session, SkipTicket(p) PROVE Good
  BY <1>33 DEF SkipTicket
<1>34. ASSUME NEW p \in Session, LogError(p) PROVE Good
  <2>1. /\ UNCHANGED <<disk, seq, pidOf>> /\ seq[p] \in Seqs
        /\ faults'["error"] = faults["error"] + 1
        /\ \A r \in Session \ {p} : pc'[r] = pc[r] /\ ret'[r] = ret[r]
    BY <1>34 DEF LogError, Abandon
  <2>2. Remains' \subseteq Remains \cup {seq[p]}
    BY <2>1
  <2> HIDE DEF Remains
  <2> QED BY <2>1, <2>2
<1>35. ASSUME NEW p \in Session, UnlinkError(p) PROVE Good
  <2>1. /\ UNCHANGED <<disk, seq, pidOf>> /\ seq[p] \in Seqs
        /\ faults'["error"] = faults["error"] + 1
        /\ \A r \in Session \ {p} : pc'[r] = pc[r] /\ ret'[r] = ret[r]
    BY <1>35 DEF UnlinkError
  <2>2. Remains' \subseteq Remains \cup {seq[p]}
    BY <2>1
  <2> HIDE DEF Remains
  <2> QED BY <2>1, <2>2
<1>36. ASSUME NEW p \in Session, HbSkip(p) PROVE Good
  BY <1>36 DEF HbSkip
<1>37. Kept \/ OneLeft
  BY <1>1, <1>2, <1>3, <1>4, <1>5, <1>6, <1>7, <1>8, <1>9, <1>10,
     <1>11, <1>12, <1>13, <1>14, <1>15, <1>16, <1>17, <1>18, <1>19, <1>20,
     <1>21, <1>22, <1>23, <1>24, <1>25, <1>26, <1>27, <1>28, <1>29, <1>30,
     <1>31, <1>32, <1>33, <1>34, <1>35, <1>36
     DEF Next, Step, Heartbeat, Fault, FileError
<1>38. ghost' = {}
  <2> HIDE DEF Remains, Kept, OneLeft, Attended, NumbersInv, PidInv, Past, LocInv, Tickets
  <2> QED BY SMTT(30) DEF vars, Next, Step, Heartbeat, Fault, FileError, Draw, WriteTicket,
             Scan, Head, TryLock, Recheck, Expire, KeepWaiting, TouchRead,
             TouchWrite, SnapList, SnapWrite, SnapError, StampRead, StampWrite,
             Release, StopHeartbeat, JoinTimeout, Unlink, Leave, HbRead, HbWrite,
             LogEnqueued, EnqueueError, GcSkips, SkipTicket, LogError, UnlinkError,
             HbSkip, GhostWrite, Crash, ReusePid, Age, Wedge, Suspend
<1> QED BY <1>37, <1>38

\* The tickets left behind are counted by the errors.
LEMMA LeftStep == TypeInv /\ NumbersInv /\ PidInv /\ LeftInv /\ [Next]_vars => LeftInv'
<1> SUFFICES ASSUME TypeInv, NumbersInv, PidInv, LeftInv, [Next]_vars,
                    faults'["crash"] = 0, faults'["stall"] = 0
             PROVE  ghost' = {} /\ Cardinality(Remains') <= faults'["error"]
  BY DEF LeftInv
<1>1. /\ faults["crash"] = 0 /\ faults["stall"] = 0
      /\ faults'["error"] \in {faults["error"], faults["error"] + 1}
  BY FaultsGrow
<1>2. ghost = {} /\ Cardinality(Remains) <= faults["error"]
  BY <1>1 DEF LeftInv
<1>3. (Kept \/ OneLeft) /\ ghost' = {}
  BY <1>2, LeftMoves
<1> QED BY <1>1, <1>2, <1>3, LeftCount

\* A snapshot never shows a run as active that still waits for the slot
\* (research_queue.py:459-541).
THEOREM SnapshotHonest == Spec => []SnapshotNotAhead
<1>1. NumbersInv /\ AheadInv => SnapshotNotAhead
  BY DEF AheadInv, AheadOK, SnapshotNotAhead
<1> QED
  BY <1>1, ListedInit, NumbersStep, AheadStep, TypeInvCorrect, PTL DEF Spec

\* Without a death or a stall the tickets left behind are at most as many as
\* the file errors (research_queue.py:584-720).
THEOREM NothingLeft == Spec => []NoLeftoverTicket
<1>1. TypeInv /\ LeftInv => NoLeftoverTicket
  <2> SUFFICES ASSUME TypeInv, LeftInv, faults["crash"] = 0, faults["stall"] = 0
               PROVE  Cardinality({s \in Tickets : ~Attended(s)}) <= faults["error"]
    BY DEF NoLeftoverTicket
  <2> DEFINE Left == {s \in Tickets : ~Attended(s)}
  <2>1. IsFiniteSet(Remains)
    <3>1. IsFiniteSet(Seqs)
      BY FS_Interval, BoundAssumption DEF Seqs
    <3>2. Remains \subseteq Seqs
      BY DEF Remains, Tickets
    <3> QED BY <3>1, <3>2, FS_Subset
  <2>2. Left \subseteq Remains
    BY DEF Remains
  <2>3. /\ Cardinality(Left) <= Cardinality(Remains)
        /\ Cardinality(Left) \in Nat /\ Cardinality(Remains) \in Nat
    <3> HIDE DEF Left
    <3> QED BY <2>1, <2>2, FS_Subset, FS_CardinalityType
  <2>4. Cardinality(Remains) <= faults["error"] /\ faults["error"] \in Nat
    BY DEF LeftInv, TypeInv, TypeOK, FaultKind
  <2> HIDE DEF Left
  <2>5. Cardinality(Left) <= faults["error"]
    BY <2>3, <2>4
  <2> QED BY <2>5 DEF Left
<1> QED
  BY <1>1, ListedInit, NumbersStep, PidStep, LeftStep, TypeInvCorrect, PTL DEF Spec
==============================================================================
