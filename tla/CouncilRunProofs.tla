--------------------------- MODULE CouncilRunProofs ---------------------------
(***************************************************************************)
(* Theorems about CouncilRun, for any number of sessions, slots and faults *)
(* and every environment.                                                  *)
(***************************************************************************)
EXTENDS CouncilRun, WellFoundedInduction, NaturalsInduction, TLAPS

\* A queued session is the active one from its promotion until it leaves.
PhaseInv ==
    /\ \A s \in Session :
         Queued(s) /\ pc[s] \in Before \cup Inside \cup {"leave"} => phase[s] = "active"
    /\ \A s, t \in Session : phase[s] = "active" /\ phase[t] = "active" => s = t

\* Where nobody can unlink a held lock, every holder has the file that the path
\* names.
LockInv ==
    /\ path >= 1
    /\ \A s \in Session : holds[s] # 0 => pc[s] \in Inside \ {"lock"}
    /\ ~env.posix =>
         /\ \A s \in Session : holds[s] # 0 => holds[s] = path
         /\ \A s, t \in Session : holds[s] # 0 /\ holds[t] # 0 => s = t

\* A session has a Chrome only once it has started one; and with every session
\* in the queue, the slot a session believes it has is its own, and it believes
\* to have none before it takes one and after it has left.
FileInv ==
    /\ \A s \in Session :
         pc[s] \in {"out", "queue", "lock", "start"} \cup Before => browser[s] = "none"
    /\ AllQueued => \A s \in Session :
         /\ pc[s] \notin {"write", "reclaim", "unlink"} \cup Inside => mine[s] = None
         /\ mine[s] # None => slot[mine[s]] = s
         /\ pc[s] \in Inside /\ browser[s] = "own" => s \in dirs

RunInv == TypeOK /\ PhaseInv /\ LockInv /\ FileInv

------------------------------------------------------------------------------

\* The slots in turn: the first free one is one of the free ones.
LEMMA FirstFree ==
    ASSUME NEW free \in SUBSET Slots, free # {}
    PROVE  Min(free) \in free
<1> DEFINE R == {ss \in Nat \X Nat : ss[1] < ss[2]}
<1>1. free \subseteq Nat
  BY SlotAssumption DEF Slots
<1>2. IsWellFoundedOn(R, Nat)
  BY NatLessThanWellFounded, Zenon DEF OpToRel
<1>3. \A a, b \in Nat : a < b => <<a, b>> \in R
  OBVIOUS
<1> HIDE DEF R
<1>4. PICK x \in free : \A y \in free : <<y, x>> \notin R
  BY <1>1, <1>2, WFMin
<1>5. ASSUME NEW y \in free PROVE x <= y
  <2>1. x \in Nat /\ y \in Nat /\ <<y, x>> \notin R
    BY <1>1, <1>4
  <2>2. ~(y < x)
    BY <2>1, <1>3
  <2> QED BY <2>1, <2>2
<1> QED BY <1>5 DEF Min

\* A session is no slot, and None is neither.
LEMMA NoneApart == None \notin Session /\ None \notin Slots
BY NoneAssumption, SlotAssumption DEF Slots

\* The sessions start well typed.
LEMMA RunInit == Init => RunInv
<1> SUFFICES ASSUME Init PROVE RunInv
  OBVIOUS
<1> USE DEF Init, Queue!Init
<1>1. TypeOK
  <2>1. keeper \in BOOLEAN /\ stale \in BOOLEAN /\ cdp \in [Session -> BOOLEAN] /\ path \in Nat
    OBVIOUS
  <2>2. /\ slot \in [Slots -> Session \cup {None}] /\ mine \in [Session -> Slots \cup {None}]
        /\ doomed \in [Session -> SUBSET Slots] /\ holds \in [Session -> Nat]
        /\ blank \subseteq Slots /\ old \subseteq Slots
    OBVIOUS
  <2>3. faults \in 0 .. MaxFault
    BY BoundAssumption
  <2> QED BY <2>1, <2>2, <2>3 DEF TypeOK, Location
<1>2. PhaseInv
  BY DEF PhaseInv, Before, Inside
<1>3. LockInv
  BY DEF LockInv, Holders
<1>4. FileInv
  BY DEF FileInv, Inside
<1> QED BY <1>1, <1>2, <1>3, <1>4 DEF RunInv

\* Every action keeps the types.
LEMMA TypeStep == TypeOK /\ [Next]_vars => TypeOK'
<1> SUFFICES ASSUME TypeOK, [Next]_vars PROVE TypeOK'
  OBVIOUS
<1>1. ASSUME NEW p \in Session, Call(p) PROVE TypeOK'
  BY <1>1 DEF Call, At, Queued, Goto, Steady, shared, lock, chrome, Queue!Enqueue, Queue!Move,
     TypeOK, Location, Inside, Before
<1>2. ASSUME NEW p \in Session, Promoted(p) PROVE TypeOK'
  BY <1>2 DEF Promoted, At, Goto, Steady, shared, lock, chrome, Queue!Promote, Queue!Move,
     TypeOK, Location, Inside, Before
<1>3. ASSUME NEW p \in Session, QueueTimeout(p) PROVE TypeOK'
  BY <1>3 DEF QueueTimeout, At, Goto, Steady, shared, lock, chrome, Queue!GiveUp, Queue!Move,
     TypeOK, Location, Inside, Before
<1>4. ASSUME NEW p \in Session, Leave(p) PROVE TypeOK'
  BY <1>4 DEF Leave, At, Goto, Queued, Steady, shared, lock, chrome, Queue!Finish, Queue!Move,
     TypeOK, Location, Inside, Before
<1>5. ASSUME NEW p \in Session, Sweep(p) PROVE TypeOK'
  BY <1>5 DEF Sweep, At, Goto, Steady, lock, chrome, TypeOK, Location, Inside, Before
<1>6. ASSUME NEW p \in Session, Scan(p) PROVE TypeOK'
  BY <1>6 DEF Scan, At, Goto, Steady, shared, lock, chrome, TypeOK, Location, Inside, Before,
     Judged
<1>7. ASSUME NEW p \in Session, Reap(p) PROVE TypeOK'
  BY <1>7 DEF Reap, At, Goto, Unlink, Steady, lock, chrome, TypeOK, Location, Inside, Before
<1>8. ASSUME NEW p \in Session, Take(p) PROVE TypeOK'
  BY <1>8, FirstFree DEF Take, At, Goto, Steady, lock, chrome, TypeOK, Location, Inside, Before
<1>9. ASSUME NEW p \in Session, Busy(p) PROVE TypeOK'
  BY <1>9 DEF Busy, At, Goto, Steady, shared, lock, chrome, TypeOK, Location, Inside, Before
<1>10. ASSUME NEW p \in Session, TooBusy(p) PROVE TypeOK'
  BY <1>10 DEF TooBusy, At, Goto, Steady, shared, lock, chrome, TypeOK, Location, Inside, Before
<1>11. ASSUME NEW p \in Session, Write(p) PROVE TypeOK'
  BY <1>11 DEF Write, At, Goto, Steady, lock, chrome, TypeOK, Location, Inside, Before
<1>12. ASSUME NEW p \in Session, Reclaim(p) PROVE TypeOK'
  BY <1>12 DEF Reclaim, At, Goto, Steady, shared, lock, chrome, TypeOK, Location, Inside, Before
<1>13. ASSUME NEW p \in Session, Lock(p) PROVE TypeOK'
  BY <1>13 DEF Lock, At, lock, Goto, Steady, shared, chrome, TypeOK, Location, Inside, Before
<1>14. ASSUME NEW p \in Session, LockTimeout(p) PROVE TypeOK'
  BY <1>14 DEF LockTimeout, At, lock, Goto, FreeSlot, Steady, chrome, Unlink, TypeOK, Location,
     Inside, Before
<1>15. ASSUME NEW p \in Session, Attach(p) PROVE TypeOK'
  BY <1>15 DEF Attach, At, Goto, Steady, shared, lock, TypeOK, Location, Inside, Before
<1>16. ASSUME NEW p \in Session, Fresh(p) PROVE TypeOK'
  BY <1>16 DEF Fresh, At, Goto, Unlink, Steady, lock, chrome, TypeOK, Location, Inside, Before
<1>17. ASSUME NEW p \in Session, Launch(p) PROVE TypeOK'
  BY <1>17 DEF Launch, At, Goto, OwnChrome, Steady, lock, TypeOK, Location, Inside, Before
<1>18. ASSUME NEW p \in Session, Valid(p) PROVE TypeOK'
  BY <1>18 DEF Valid, Goto, Steady, shared, lock, chrome, TypeOK, Location, Inside, Before
<1>19. ASSUME NEW p \in Session, Fallback(p) PROVE TypeOK'
  BY <1>19 DEF Fallback, At, Goto, CleanupBrowser, OwnChrome, Steady, lock, TypeOK, Location,
     Inside, Before
<1>20. ASSUME NEW p \in Session, Submit(p) PROVE TypeOK'
  BY <1>20 DEF Submit, At, Goto, Unlock, Steady, shared, TypeOK, Location, Inside, Before
<1>21. ASSUME NEW p \in Session, Collect(p) PROVE TypeOK'
  BY <1>21 DEF Collect, At, Goto, Steady, shared, lock, TypeOK, Location, Inside, Before
<1>22. ASSUME NEW p \in Session, Fails(p) PROVE TypeOK'
  BY <1>22 DEF Fails, Goto, Steady, shared, lock, chrome, TypeOK, Location, Inside, Before
<1>23. ASSUME NEW p \in Session, Finally(p) PROVE TypeOK'
  BY <1>23 DEF Finally, At, Goto, Unlock, FreeSlot, Steady, chrome, Unlink, TypeOK, Location,
     Inside, Before
<1>24. ASSUME NEW p \in Session, Stop(p) PROVE TypeOK'
  BY <1>24 DEF Stop, At, Goto, shared, FreeSlot, Steady, lock, Unlink, TypeOK, Location, Inside,
     Before
<1>25. ASSUME NEW p \in Session, Crash(p) PROVE TypeOK'
  BY <1>25, BoundAssumption DEF Crash, Fault, Goto, Unlock, shared, Queue!GiveUp, Queue!Finish,
     Queue!Move, TypeOK, Location, Inside, Before
<1>26. ASSUME NEW p \in Session, AgeDir(p) PROVE TypeOK'
  BY <1>26, BoundAssumption DEF AgeDir, Fault, lock, chrome, TypeOK, Location, Inside, Before
<1>27. ASSUME NEW k \in Slots, AgeSlot(k) PROVE TypeOK'
  BY <1>27, BoundAssumption DEF AgeSlot, Fault, lock, chrome, TypeOK, Location, Inside, Before
<1>28. ASSUME AgeLock PROVE TypeOK'
  BY <1>28, BoundAssumption DEF AgeLock, Fault, At, lock, shared, chrome, TypeOK, Location,
     Inside, Before
<1>29. ASSUME KeeperGone PROVE TypeOK'
  <2>1. keeper' \in BOOLEAN /\ pages' \subseteq Session
    BY <1>29 DEF KeeperGone
  <2>2. faults' \in 0 .. MaxFault
    BY <1>29, BoundAssumption DEF KeeperGone, Fault, TypeOK
  <2> QED BY <1>29, <2>1, <2>2 DEF KeeperGone, shared, lock, TypeOK
<1>30. ASSUME KeeperBack PROVE TypeOK'
  BY <1>30 DEF KeeperBack, shared, lock, TypeOK, Location, Inside, Before
<1>31. CASE UNCHANGED vars
  BY <1>31 DEF vars, shared, chrome, lock, TypeOK, Location, Inside, Before
<1>32. ASSUME NEW p \in Session, UnlinkLock(p) PROVE TypeOK'
  <2>1. path' \in Nat /\ stale' \in BOOLEAN
    <3>1. path' \in {path, path + 1}
      BY <1>32 DEF UnlinkLock
    <3>2. stale' = FALSE \/ stale' = stale
      BY <1>32 DEF UnlinkLock
    <3>3. path' \in Nat
      BY <3>1 DEF TypeOK
    <3> QED BY <3>2, <3>3 DEF TypeOK
  <2>2. pc' \in [Session -> Location]
    BY <1>32 DEF UnlinkLock, At, Goto, TypeOK, Location, Inside
  <2> QED BY <1>32, <2>1, <2>2 DEF UnlinkLock, Steady, shared, chrome, TypeOK
<1>33. ASSUME NEW p \in Session, Relaunch(p) PROVE TypeOK'
  BY <1>33 DEF Relaunch, At, Goto, OwnChrome, Steady, lock, TypeOK, Location, Inside, Before
<1> QED
  BY <1>1, <1>2, <1>3, <1>4, <1>5, <1>6, <1>7, <1>8, <1>9, <1>10, <1>11, <1>12,
     <1>13, <1>14, <1>15, <1>16, <1>17, <1>18, <1>19, <1>20, <1>21, <1>22,
     <1>23, <1>24, <1>25, <1>26, <1>27, <1>28, <1>29, <1>30, <1>31, <1>32, <1>33
     DEF Next, Work, GiveUp

\* A session enters through the queue, and leaves through it.
LEMMA PhaseStep == TypeOK /\ PhaseInv /\ [Next]_vars => PhaseInv'
<1> SUFFICES ASSUME TypeOK /\ PhaseInv, [Next]_vars PROVE PhaseInv'
  OBVIOUS
<1>1. ASSUME NEW p \in Session, Call(p) PROVE PhaseInv'
  BY <1>1 DEF Call, At, Queued, Goto, Steady, shared, lock, chrome, Queue!Enqueue, Queue!Move,
     TypeOK, PhaseInv, Before, Inside
<1>2. ASSUME NEW p \in Session, Promoted(p) PROVE PhaseInv'
  BY <1>2 DEF Promoted, At, Goto, Steady, shared, lock, chrome, Queue!Promote, Queue!Move,
     TypeOK, PhaseInv, Before, Inside, Queued
<1>3. ASSUME NEW p \in Session, QueueTimeout(p) PROVE PhaseInv'
  BY <1>3 DEF QueueTimeout, At, Goto, Steady, shared, lock, chrome, Queue!GiveUp, Queue!Move,
     TypeOK, PhaseInv, Before, Inside, Queued
<1>4. ASSUME NEW p \in Session, Leave(p) PROVE PhaseInv'
  BY <1>4 DEF Leave, At, Goto, Queued, Steady, shared, lock, chrome, Queue!Finish, Queue!Move,
     TypeOK, PhaseInv, Before, Inside
<1>5. ASSUME NEW p \in Session, Sweep(p) PROVE PhaseInv'
  BY <1>5 DEF Sweep, At, Goto, Steady, lock, chrome, TypeOK, PhaseInv, Before, Inside, Queued
<1>6. ASSUME NEW p \in Session, Scan(p) PROVE PhaseInv'
  BY <1>6 DEF Scan, At, Goto, Steady, shared, lock, chrome, TypeOK, PhaseInv, Before, Inside,
     Queued
<1>7. ASSUME NEW p \in Session, Reap(p) PROVE PhaseInv'
  BY <1>7 DEF Reap, At, Goto, Unlink, Steady, lock, chrome, TypeOK, PhaseInv, Before, Inside,
     Queued
<1>8. ASSUME NEW p \in Session, Take(p) PROVE PhaseInv'
  BY <1>8 DEF Take, At, Goto, Steady, lock, chrome, TypeOK, PhaseInv, Before, Inside, Queued
<1>9. ASSUME NEW p \in Session, Busy(p) PROVE PhaseInv'
  BY <1>9 DEF Busy, At, Goto, Steady, shared, lock, chrome, TypeOK, PhaseInv, Before, Inside,
     Queued
<1>10. ASSUME NEW p \in Session, TooBusy(p) PROVE PhaseInv'
  BY <1>10 DEF TooBusy, At, Goto, Steady, shared, lock, chrome, TypeOK, PhaseInv, Before,
     Inside, Queued
<1>11. ASSUME NEW p \in Session, Write(p) PROVE PhaseInv'
  BY <1>11 DEF Write, At, Goto, Steady, lock, chrome, TypeOK, PhaseInv, Before, Inside, Queued
<1>12. ASSUME NEW p \in Session, Reclaim(p) PROVE PhaseInv'
  BY <1>12 DEF Reclaim, At, Goto, lock, Steady, shared, chrome, TypeOK, PhaseInv, Before,
     Inside, Queued
<1>13. ASSUME NEW p \in Session, Lock(p) PROVE PhaseInv'
  BY <1>13 DEF Lock, At, lock, Goto, Steady, shared, chrome, TypeOK, PhaseInv, Before, Inside,
     Queued
<1>14. ASSUME NEW p \in Session, LockTimeout(p) PROVE PhaseInv'
  BY <1>14 DEF LockTimeout, At, lock, Goto, FreeSlot, Steady, chrome, Unlink, TypeOK, PhaseInv,
     Before, Inside, Queued
<1>15. ASSUME NEW p \in Session, Attach(p) PROVE PhaseInv'
  BY <1>15 DEF Attach, At, Goto, Steady, shared, lock, TypeOK, PhaseInv, Before, Inside, Queued
<1>16. ASSUME NEW p \in Session, Fresh(p) PROVE PhaseInv'
  BY <1>16 DEF Fresh, At, Goto, Unlink, Steady, lock, chrome, TypeOK, PhaseInv, Before, Inside,
     Queued
<1>17. ASSUME NEW p \in Session, Launch(p) PROVE PhaseInv'
  BY <1>17 DEF Launch, At, Goto, OwnChrome, Steady, lock, TypeOK, PhaseInv, Before, Inside,
     Queued
<1>18. ASSUME NEW p \in Session, Valid(p) PROVE PhaseInv'
  BY <1>18 DEF Valid, Goto, Steady, shared, lock, chrome, TypeOK, PhaseInv, Before, Inside,
     Queued
<1>19. ASSUME NEW p \in Session, Fallback(p) PROVE PhaseInv'
  BY <1>19 DEF Fallback, At, Goto, CleanupBrowser, OwnChrome, Steady, lock, TypeOK, PhaseInv,
     Before, Inside, Queued
<1>20. ASSUME NEW p \in Session, Submit(p) PROVE PhaseInv'
  BY <1>20 DEF Submit, At, Goto, Unlock, Steady, shared, TypeOK, PhaseInv, Before, Inside,
     Queued
<1>21. ASSUME NEW p \in Session, Collect(p) PROVE PhaseInv'
  BY <1>21 DEF Collect, At, Goto, Steady, shared, lock, TypeOK, PhaseInv, Before, Inside, Queued
<1>22. ASSUME NEW p \in Session, Fails(p) PROVE PhaseInv'
  BY <1>22 DEF Fails, Goto, Steady, shared, lock, chrome, TypeOK, PhaseInv, Before, Inside,
     Queued
<1>23. ASSUME NEW p \in Session, Finally(p) PROVE PhaseInv'
  BY <1>23 DEF Finally, At, Goto, Unlock, FreeSlot, Steady, chrome, Unlink, TypeOK, PhaseInv,
     Before, Inside, Queued
<1>24. ASSUME NEW p \in Session, Stop(p) PROVE PhaseInv'
  BY <1>24 DEF Stop, At, Goto, shared, FreeSlot, Steady, lock, Unlink, TypeOK, PhaseInv, Before,
     Inside, Queued
<1>25. ASSUME NEW p \in Session, Crash(p) PROVE PhaseInv'
  BY <1>25 DEF Crash, Fault, Goto, Unlock, shared, Queue!GiveUp, Queue!Finish, Queue!Move,
     TypeOK, PhaseInv, Before, Inside, Queued
<1>26. ASSUME NEW p \in Session, AgeDir(p) PROVE PhaseInv'
  <2>1. UNCHANGED <<env, phase, pc>>
    BY <1>26 DEF AgeDir, lock, chrome
  <2> QED BY <2>1 DEF TypeOK, PhaseInv, Before, Inside, Queued
<1>27. ASSUME NEW k \in Slots, AgeSlot(k) PROVE PhaseInv'
  <2>1. UNCHANGED <<env, phase, pc>>
    BY <1>27 DEF AgeSlot, lock, chrome
  <2> QED BY <2>1 DEF TypeOK, PhaseInv, Before, Inside, Queued
<1>28. ASSUME 
             \/ AgeLock \/ KeeperGone \/ KeeperBack
      PROVE  PhaseInv'
  <2>1. UNCHANGED <<env, phase, pc>>
    BY <1>28 DEF AgeLock, lock, shared, chrome, KeeperGone, KeeperBack
  <2> QED BY <2>1 DEF TypeOK, PhaseInv, Before, Inside, Queued
<1>29. CASE UNCHANGED vars
  BY <1>29 DEF vars, shared, chrome, lock, TypeOK, PhaseInv, Before, Inside, Queued
<1>30. ASSUME NEW p \in Session, UnlinkLock(p) PROVE PhaseInv'
  BY <1>30 DEF UnlinkLock, At, Goto, Steady, shared, chrome, TypeOK, PhaseInv, Before, Inside, Queued
<1>31. ASSUME NEW p \in Session, Relaunch(p) PROVE PhaseInv'
  BY <1>31 DEF Relaunch, At, Goto, OwnChrome, Steady, lock, TypeOK, PhaseInv, Before, Inside, Queued
<1> QED
  BY <1>1, <1>2, <1>3, <1>4, <1>5, <1>6, <1>7, <1>8, <1>9, <1>10, <1>11, <1>12,
     <1>13, <1>14, <1>15, <1>16, <1>17, <1>18, <1>19, <1>20, <1>21, <1>22,
     <1>23, <1>24, <1>25, <1>26, <1>27, <1>28, <1>29, <1>30, <1>31
     DEF Next, Work, GiveUp

\* The lock is taken when no holder is left, and is unlinked only under none.
LEMMA LockStep == TypeOK /\ LockInv /\ [Next]_vars => LockInv'
<1> SUFFICES ASSUME TypeOK /\ LockInv, [Next]_vars PROVE LockInv'
  OBVIOUS
<1>1. ASSUME NEW p \in Session, Call(p) PROVE LockInv'
  BY <1>1 DEF Call, At, Queued, Goto, Steady, shared, lock, chrome, Queue!Enqueue, Queue!Move,
     TypeOK, LockInv, Holders, Inside
<1>2. ASSUME NEW p \in Session, Promoted(p) PROVE LockInv'
  BY <1>2 DEF Promoted, At, Goto, Steady, shared, lock, chrome, Queue!Promote, Queue!Move,
     TypeOK, LockInv, Holders, Inside
<1>3. ASSUME NEW p \in Session, QueueTimeout(p) PROVE LockInv'
  BY <1>3 DEF QueueTimeout, At, Goto, Steady, shared, lock, chrome, Queue!GiveUp, Queue!Move,
     TypeOK, LockInv, Holders, Inside
<1>4. ASSUME NEW p \in Session, Leave(p) PROVE LockInv'
  BY <1>4 DEF Leave, At, Goto, Queued, Steady, shared, lock, chrome, Queue!Finish, Queue!Move,
     TypeOK, LockInv, Holders, Inside
<1>5. ASSUME NEW p \in Session, Sweep(p) PROVE LockInv'
  BY <1>5 DEF Sweep, At, Goto, Steady, lock, chrome, TypeOK, LockInv, Holders, Inside
<1>6. ASSUME NEW p \in Session, Scan(p) PROVE LockInv'
  BY <1>6 DEF Scan, At, Goto, Steady, shared, lock, chrome, TypeOK, LockInv, Holders, Inside
<1>7. ASSUME NEW p \in Session, Reap(p) PROVE LockInv'
  BY <1>7 DEF Reap, At, Goto, Unlink, Steady, lock, chrome, TypeOK, LockInv, Holders, Inside
<1>8. ASSUME NEW p \in Session, Take(p) PROVE LockInv'
  BY <1>8 DEF Take, At, Goto, Steady, lock, chrome, TypeOK, LockInv, Holders, Inside
<1>9. ASSUME NEW p \in Session, Busy(p) PROVE LockInv'
  BY <1>9 DEF Busy, At, Goto, Steady, shared, lock, chrome, TypeOK, LockInv, Holders, Inside
<1>10. ASSUME NEW p \in Session, TooBusy(p) PROVE LockInv'
  BY <1>10 DEF TooBusy, At, Goto, Steady, shared, lock, chrome, TypeOK, LockInv, Holders, Inside
<1>11. ASSUME NEW p \in Session, Write(p) PROVE LockInv'
  BY <1>11 DEF Write, At, Goto, Steady, lock, chrome, TypeOK, LockInv, Holders, Inside
<1>12. ASSUME NEW p \in Session, Reclaim(p) PROVE LockInv'
  BY <1>12 DEF Reclaim, At, Goto, lock, Steady, shared, chrome, TypeOK, LockInv, Holders, Inside
<1>13. ASSUME NEW p \in Session, Lock(p) PROVE LockInv'
  BY <1>13 DEF Lock, At, lock, Goto, Steady, shared, chrome, TypeOK, LockInv, Holders, Inside,
     Free
<1>14. ASSUME NEW p \in Session, LockTimeout(p) PROVE LockInv'
  BY <1>14 DEF LockTimeout, At, lock, Goto, FreeSlot, Steady, chrome, Unlink, TypeOK, LockInv,
     Holders, Inside
<1>15. ASSUME NEW p \in Session, Attach(p) PROVE LockInv'
  BY <1>15 DEF Attach, At, Goto, Steady, shared, lock, TypeOK, LockInv, Holders, Inside
<1>16. ASSUME NEW p \in Session, Fresh(p) PROVE LockInv'
  BY <1>16 DEF Fresh, At, Goto, Unlink, Steady, lock, chrome, TypeOK, LockInv, Holders, Inside
<1>17. ASSUME NEW p \in Session, Launch(p) PROVE LockInv'
  BY <1>17 DEF Launch, At, Goto, OwnChrome, Steady, lock, TypeOK, LockInv, Holders, Inside
<1>18. ASSUME NEW p \in Session, Valid(p) PROVE LockInv'
  BY <1>18 DEF Valid, Goto, Steady, shared, lock, chrome, TypeOK, LockInv, Holders, Inside
<1>19. ASSUME NEW p \in Session, Fallback(p) PROVE LockInv'
  BY <1>19 DEF Fallback, At, Goto, CleanupBrowser, OwnChrome, Steady, lock, TypeOK, LockInv,
     Holders, Inside
<1>20. ASSUME NEW p \in Session, Submit(p) PROVE LockInv'
  BY <1>20 DEF Submit, At, Goto, Unlock, Steady, shared, TypeOK, LockInv, Holders, Inside
<1>21. ASSUME NEW p \in Session, Collect(p) PROVE LockInv'
  BY <1>21 DEF Collect, At, Goto, Steady, shared, lock, TypeOK, LockInv, Holders, Inside
<1>22. ASSUME NEW p \in Session, Fails(p) PROVE LockInv'
  BY <1>22 DEF Fails, Goto, Steady, shared, lock, chrome, TypeOK, LockInv, Holders, Inside
<1>23. ASSUME NEW p \in Session, Finally(p) PROVE LockInv'
  BY <1>23 DEF Finally, At, Goto, Unlock, FreeSlot, Steady, chrome, Unlink, TypeOK, LockInv,
     Holders, Inside
<1>24. ASSUME NEW p \in Session, Stop(p) PROVE LockInv'
  BY <1>24 DEF Stop, At, Goto, shared, FreeSlot, Steady, lock, Unlink, TypeOK, LockInv, Holders,
     Inside
<1>25. ASSUME NEW p \in Session, Crash(p) PROVE LockInv'
  BY <1>25 DEF Crash, Fault, Goto, Unlock, shared, Queue!GiveUp, Queue!Finish, Queue!Move,
     TypeOK, LockInv, Holders, Inside
<1>26. ASSUME NEW p \in Session, AgeDir(p) PROVE LockInv'
  BY <1>26 DEF AgeDir, Fault, lock, chrome, TypeOK, LockInv, Holders, Inside
<1>27. ASSUME NEW k \in Slots, AgeSlot(k) PROVE LockInv'
  BY <1>27 DEF AgeSlot, Fault, lock, chrome, TypeOK, LockInv, Holders, Inside
<1>28. ASSUME AgeLock PROVE LockInv'
  BY <1>28 DEF AgeLock, Fault, At, lock, shared, chrome, TypeOK, LockInv, Holders, Inside
<1>29. ASSUME KeeperGone PROVE LockInv'
  BY <1>29 DEF KeeperGone, Fault, shared, lock, TypeOK, LockInv, Holders, Inside
<1>30. ASSUME KeeperBack PROVE LockInv'
  BY <1>30 DEF KeeperBack, shared, lock, TypeOK, LockInv, Holders, Inside
<1>31. CASE UNCHANGED vars
  BY <1>31 DEF vars, shared, chrome, lock, TypeOK, LockInv, Holders, Inside
<1>32. ASSUME NEW p \in Session, UnlinkLock(p) PROVE LockInv'
  BY <1>32 DEF UnlinkLock, At, Goto, Steady, shared, chrome, TypeOK, LockInv, Holders, Inside
<1>33. ASSUME NEW p \in Session, Relaunch(p) PROVE LockInv'
  BY <1>33 DEF Relaunch, At, Goto, OwnChrome, Steady, lock, TypeOK, LockInv, Holders, Inside
<1> QED
  BY <1>1, <1>2, <1>3, <1>4, <1>5, <1>6, <1>7, <1>8, <1>9, <1>10, <1>11, <1>12,
     <1>13, <1>14, <1>15, <1>16, <1>17, <1>18, <1>19, <1>20, <1>21, <1>22,
     <1>23, <1>24, <1>25, <1>26, <1>27, <1>28, <1>29, <1>30, <1>31, <1>32, <1>33
     DEF Next, Work, GiveUp

\* Nobody else is near the slots and profiles while a queued session runs.
LEMMA FileStep == TypeOK /\ PhaseInv /\ FileInv /\ [Next]_vars => FileInv'
<1> SUFFICES ASSUME TypeOK /\ PhaseInv /\ FileInv, [Next]_vars PROVE FileInv'
  OBVIOUS
<1>1. ASSUME NEW p \in Session, Call(p) PROVE FileInv'
  BY <1>1, NoneApart DEF Call, At, Queued, Goto, Steady, shared, lock, chrome, Queue!Enqueue,
     Queue!Move, TypeOK, PhaseInv, FileInv, Inside, Before, AllQueued
<1>2. ASSUME NEW p \in Session, Promoted(p) PROVE FileInv'
  BY <1>2, NoneApart DEF Promoted, At, Goto, Steady, shared, lock, chrome, Queue!Promote,
     Queue!Move, TypeOK, PhaseInv, FileInv, Inside, Before, AllQueued, Queued
<1>3. ASSUME NEW p \in Session, QueueTimeout(p) PROVE FileInv'
  BY <1>3, NoneApart DEF QueueTimeout, At, Goto, Steady, shared, lock, chrome, Queue!GiveUp,
     Queue!Move, TypeOK, PhaseInv, FileInv, Inside, Before, AllQueued, Queued
<1>4. ASSUME NEW p \in Session, Leave(p) PROVE FileInv'
  BY <1>4, NoneApart DEF Leave, At, Goto, Queued, Steady, shared, lock, chrome, Queue!Finish,
     Queue!Move, TypeOK, PhaseInv, FileInv, Inside, Before, AllQueued
<1>5. ASSUME NEW p \in Session, Sweep(p) PROVE FileInv'
  BY <1>5, NoneApart DEF Sweep, At, Goto, Steady, lock, chrome, TypeOK, PhaseInv, FileInv,
     Inside, Before, AllQueued, Queued
<1>6. ASSUME NEW p \in Session, Scan(p) PROVE FileInv'
  BY <1>6, NoneApart DEF Scan, At, Goto, Steady, shared, lock, chrome, TypeOK, PhaseInv,
     FileInv, Inside, Before, AllQueued, Queued
<1>7. ASSUME NEW p \in Session, Reap(p) PROVE FileInv'
  BY <1>7, NoneApart DEF Reap, At, Goto, Unlink, Steady, lock, chrome, TypeOK, PhaseInv,
     FileInv, Inside, Before, AllQueued, Queued
<1>8. ASSUME NEW p \in Session, Take(p) PROVE FileInv'
  BY <1>8, NoneApart, FirstFree DEF Take, At, Goto, Steady, lock, chrome, TypeOK, PhaseInv,
     FileInv, Inside, Before, AllQueued, Queued
<1>9. ASSUME NEW p \in Session, Busy(p) PROVE FileInv'
  BY <1>9, NoneApart DEF Busy, At, Goto, Steady, shared, lock, chrome, TypeOK, PhaseInv,
     FileInv, Inside, Before, AllQueued, Queued
<1>10. ASSUME NEW p \in Session, TooBusy(p) PROVE FileInv'
  BY <1>10, NoneApart DEF TooBusy, At, Goto, Steady, shared, lock, chrome, TypeOK, PhaseInv,
     FileInv, Inside, Before, AllQueued, Queued
<1>11. ASSUME NEW p \in Session, Write(p) PROVE FileInv'
  BY <1>11, NoneApart DEF Write, At, Goto, Steady, lock, chrome, TypeOK, PhaseInv, FileInv,
     Inside, Before, AllQueued, Queued
<1>12. ASSUME NEW p \in Session, Reclaim(p) PROVE FileInv'
  BY <1>12, NoneApart DEF Reclaim, At, Goto, lock, Steady, shared, chrome, TypeOK, PhaseInv,
     FileInv, Inside, Before, AllQueued, Queued
<1>13. ASSUME NEW p \in Session, Lock(p) PROVE FileInv'
  BY <1>13, NoneApart DEF Lock, At, lock, Goto, Steady, shared, chrome, TypeOK, PhaseInv,
     FileInv, Inside, Before, AllQueued, Queued
<1>14. ASSUME NEW p \in Session, LockTimeout(p) PROVE FileInv'
  BY <1>14, NoneApart DEF LockTimeout, At, lock, Goto, FreeSlot, Steady, chrome, Unlink, TypeOK,
     PhaseInv, FileInv, Inside, Before, AllQueued, Queued
<1>15. ASSUME NEW p \in Session, Attach(p) PROVE FileInv'
  BY <1>15, NoneApart DEF Attach, At, Goto, Steady, shared, lock, TypeOK, PhaseInv, FileInv,
     Inside, Before, AllQueued, Queued
<1>16. ASSUME NEW p \in Session, Fresh(p) PROVE FileInv'
  BY <1>16, NoneApart DEF Fresh, At, Goto, Unlink, Steady, lock, chrome, TypeOK, PhaseInv,
     FileInv, Inside, Before, AllQueued, Queued
<1>17. ASSUME NEW p \in Session, Launch(p) PROVE FileInv'
  BY <1>17, NoneApart DEF Launch, At, Goto, OwnChrome, Steady, lock, TypeOK, PhaseInv, FileInv,
     Inside, Before, AllQueued, Queued
<1>18. ASSUME NEW p \in Session, Valid(p) PROVE FileInv'
  BY <1>18, NoneApart DEF Valid, Goto, Steady, shared, lock, chrome, TypeOK, PhaseInv, FileInv,
     Inside, Before, AllQueued, Queued
<1>19. ASSUME NEW p \in Session, Fallback(p) PROVE FileInv'
  BY <1>19, NoneApart DEF Fallback, At, Goto, CleanupBrowser, OwnChrome, Steady, lock, TypeOK,
     PhaseInv, FileInv, Inside, Before, AllQueued, Queued
<1>20. ASSUME NEW p \in Session, Submit(p) PROVE FileInv'
  BY <1>20, NoneApart DEF Submit, At, Goto, Unlock, Steady, shared, TypeOK, PhaseInv, FileInv,
     Inside, Before, AllQueued, Queued
<1>21. ASSUME NEW p \in Session, Collect(p) PROVE FileInv'
  BY <1>21, NoneApart DEF Collect, At, Goto, Steady, shared, lock, TypeOK, PhaseInv, FileInv,
     Inside, Before, AllQueued, Queued
<1>22. ASSUME NEW p \in Session, Fails(p) PROVE FileInv'
  BY <1>22, NoneApart DEF Fails, Goto, Steady, shared, lock, chrome, TypeOK, PhaseInv, FileInv,
     Inside, Before, AllQueued, Queued
<1>23. ASSUME NEW p \in Session, Finally(p) PROVE FileInv'
  BY <1>23, NoneApart DEF Finally, At, Goto, Unlock, FreeSlot, Steady, chrome, Unlink, TypeOK,
     PhaseInv, FileInv, Inside, Before, AllQueued, Queued
<1>24. ASSUME NEW p \in Session, Stop(p) PROVE FileInv'
  BY <1>24, NoneApart DEF Stop, At, Goto, shared, FreeSlot, Steady, lock, Unlink, TypeOK,
     PhaseInv, FileInv, Inside, Before, AllQueued, Queued
<1>25. ASSUME NEW p \in Session, Crash(p) PROVE FileInv'
  BY <1>25, NoneApart DEF Crash, Fault, Goto, Unlock, shared, Queue!GiveUp, Queue!Finish,
     Queue!Move, TypeOK, PhaseInv, FileInv, Inside, Before, AllQueued, Queued
<1>26. ASSUME NEW p \in Session, AgeDir(p) PROVE FileInv'
  BY <1>26, NoneApart DEF AgeDir, Fault, lock, chrome, TypeOK, PhaseInv, FileInv, Inside,
     Before, AllQueued, Queued
<1>27. ASSUME NEW k \in Slots, AgeSlot(k) PROVE FileInv'
  BY <1>27 DEF AgeSlot, Fault, lock, chrome, TypeOK, PhaseInv, FileInv, Inside, Before,
     AllQueued, Queued
<1>28. ASSUME AgeLock PROVE FileInv'
  BY <1>28 DEF AgeLock, Fault, At, lock, shared, chrome, TypeOK, PhaseInv, FileInv, Inside,
     Before, AllQueued, Queued
<1>29. ASSUME KeeperGone PROVE FileInv'
  BY <1>29 DEF KeeperGone, Fault, shared, lock, TypeOK, PhaseInv, FileInv, Inside, Before,
     AllQueued, Queued
<1>30. ASSUME KeeperBack PROVE FileInv'
  BY <1>30 DEF KeeperBack, shared, lock, TypeOK, PhaseInv, FileInv, Inside, Before, AllQueued,
     Queued
<1>31. CASE UNCHANGED vars
  BY <1>31 DEF vars, shared, chrome, lock, TypeOK, PhaseInv, FileInv, Inside, Before, AllQueued,
     Queued
<1>32. ASSUME NEW p \in Session, UnlinkLock(p) PROVE FileInv'
  BY <1>32, NoneApart DEF UnlinkLock, At, Goto, Steady, shared, chrome, TypeOK, PhaseInv, FileInv,
     Inside, Before, AllQueued, Queued
<1>33. ASSUME NEW p \in Session, Relaunch(p) PROVE FileInv'
  BY <1>33, NoneApart DEF Relaunch, At, Goto, OwnChrome, Steady, lock, TypeOK, PhaseInv, FileInv,
     Inside, Before, AllQueued, Queued
<1> QED
  BY <1>1, <1>2, <1>3, <1>4, <1>5, <1>6, <1>7, <1>8, <1>9, <1>10, <1>11, <1>12,
     <1>13, <1>14, <1>15, <1>16, <1>17, <1>18, <1>19, <1>20, <1>21, <1>22,
     <1>23, <1>24, <1>25, <1>26, <1>27, <1>28, <1>29, <1>30, <1>31, <1>32, <1>33
     DEF Next, Work, GiveUp

\* The invariant holds in every reachable state.
LEMMA RunInvCorrect == Spec => []RunInv
<1>1. RunInv /\ [Next]_vars => RunInv'
  BY TypeStep, PhaseStep, LockStep, FileStep DEF RunInv
<1> QED BY <1>1, RunInit, PTL DEF Spec

\* Types; among them that only a session's own directory is ever too old.
THEOREM TypeCorrect == Spec => []TypeOK
<1>1. RunInv => TypeOK
  BY DEF RunInv
<1> QED BY <1>1, RunInvCorrect, PTL

\* One session at a time starts Chrome and types: on Windows the submit lock's file
\* stays while it is held, whatever another session has found out about its age; on
\* POSIX, where it goes, the queue keeps the others away (get_submit_lock).
THEOREM Submitting == Spec => []SubmitAlone
<1>1. RunInv => SubmitAlone
  <2> SUFFICES ASSUME RunInv, ~env.posix \/ AllQueued,
                      NEW s \in Session, NEW t \in Session, holds[s] # 0, holds[t] # 0
               PROVE  s = t
    BY DEF SubmitAlone
  <2>1. CASE AllQueued
    BY <2>1 DEF RunInv, LockInv, PhaseInv, AllQueued, Queued
  <2>2. CASE ~env.posix
    BY <2>2 DEF RunInv, LockInv
  <2> QED BY <2>1, <2>2
<1> QED BY <1>1, RunInvCorrect, PTL

\* With every session in the queue no clean-up removes the slot file or the
\* profile of a live run (_cleanup_stale, _cleanup_orphaned_temp_dirs).
THEOREM Files == Spec => []FilesKept
<1>1. RunInv => FilesKept
  BY DEF RunInv, FileInv, FilesKept
<1> QED BY <1>1, RunInvCorrect, PTL

\* The page a queued run waits for is nobody else's to close.
PageStep(s) ==
    AllQueued /\ At(s, "collect") /\ s \in pages /\ s \notin pages'
        => ~At(s, "collect")' \/ ~keeper'

\* An attaching or falling back session is the active one, so no other is collecting.
LEMMA PageKeptStep == TypeOK /\ PhaseInv /\ [Next]_vars => \A s \in Session : PageStep(s)
<1> SUFFICES ASSUME TypeOK /\ PhaseInv, [Next]_vars, NEW s \in Session PROVE PageStep(s)
  OBVIOUS
<1>1. ASSUME NEW p \in Session, Attach(p) PROVE PageStep(s)
  BY <1>1 DEF Attach, At, Goto, Steady, shared, lock, PageStep, TypeOK, PhaseInv, Inside,
     Before, AllQueued, Queued
<1>2. ASSUME NEW p \in Session, Fallback(p) PROVE PageStep(s)
  BY <1>2 DEF Fallback, At, Goto, CleanupBrowser, OwnChrome, Steady, lock, PageStep, TypeOK,
     PhaseInv, Inside, Before, AllQueued, Queued
<1>3. ASSUME NEW p \in Session, Submit(p) PROVE PageStep(s)
  BY <1>3 DEF Submit, At, Goto, Unlock, Steady, shared, PageStep, TypeOK, PhaseInv, Inside,
     Before, AllQueued, Queued
<1>4. ASSUME NEW p \in Session, Collect(p) PROVE PageStep(s)
  BY <1>4 DEF Collect, At, Goto, Steady, shared, lock, PageStep, TypeOK, PhaseInv, Inside,
     Before, AllQueued, Queued
<1>5. ASSUME KeeperGone PROVE PageStep(s)
  BY <1>5 DEF KeeperGone, Fault, shared, lock, PageStep, At, TypeOK, PhaseInv, Inside, Before,
     AllQueued, Queued
<1>6. ASSUME NEW p \in Session, 
             \/ Call(p) \/ Promoted(p) \/ QueueTimeout(p) \/ Leave(p) \/ Sweep(p)
             \/ Scan(p) \/ Reap(p) \/ Take(p) \/ Busy(p) \/ TooBusy(p) \/ Write(p)
             \/ Reclaim(p) \/ UnlinkLock(p) \/ Relaunch(p) \/ Lock(p) \/ LockTimeout(p) \/ Fresh(p) \/ Launch(p)
             \/ Valid(p) \/ Fails(p) \/ Finally(p) \/ Stop(p) \/ Crash(p) \/ AgeDir(p)
      PROVE  PageStep(s)
  <2>1. UNCHANGED <<pages>>
    BY <1>6 DEF Call, Goto, Steady, shared, lock, chrome, Promoted, QueueTimeout, Leave, Sweep,
       Scan, Reap, Unlink, Take, Busy, TooBusy, Write, Reclaim, Lock, LockTimeout, FreeSlot,
       Fresh, Launch, Relaunch, UnlinkLock, OwnChrome, Valid, Fails, Finally, Unlock, Stop, Crash, AgeDir
  <2> QED BY <2>1 DEF PageStep, At, TypeOK, PhaseInv, Inside, Before, AllQueued, Queued
<1>7. ASSUME NEW k \in Slots, AgeSlot(k) PROVE PageStep(s)
  <2>1. UNCHANGED <<pages>>
    BY <1>7 DEF AgeSlot, lock, chrome
  <2> QED BY <2>1 DEF PageStep, At, TypeOK, PhaseInv, Inside, Before, AllQueued, Queued
<1>8. ASSUME 
             \/ AgeLock \/ KeeperBack
      PROVE  PageStep(s)
  <2>1. UNCHANGED <<pages>>
    BY <1>8 DEF AgeLock, lock, shared, chrome, KeeperBack
  <2> QED BY <2>1 DEF PageStep, At, TypeOK, PhaseInv, Inside, Before, AllQueued, Queued
<1>9. CASE UNCHANGED vars
  BY <1>9 DEF vars, shared, chrome, lock, PageStep, At, TypeOK, PhaseInv, Inside, Before,
     AllQueued, Queued
<1> QED
  BY <1>1, <1>2, <1>3, <1>4, <1>5, <1>6, <1>7, <1>8, <1>9
     DEF Next, Work, GiveUp

\* With every session in the queue the page on which a run waits for its answer
\* goes only when the run closes it or the keeper's Chrome is lost, although
\* every attaching session closes all pages of its kind (_start_via_cdp).
THEOREM Pages == Spec => PageKept
<1>1. RunInv /\ [Next]_vars =>
        [\A s \in Session : AllQueued /\ At(s, "collect") /\ s \in pages /\ s \notin pages'
             => ~At(s, "collect")' \/ ~keeper']_vars
  BY PageKeptStep DEF RunInv, PageStep
<1> QED BY <1>1, RunInvCorrect, PTL DEF Spec, PageKept
==============================================================================
