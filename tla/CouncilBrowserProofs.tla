-------------------------- MODULE CouncilBrowserProofs --------------------------
(***************************************************************************)
(* Theorems about the two modules of council_browser.py's waits.           *)
(* CompletionWait, the wait for the answer: for any thresholds and lengths *)
(* that satisfy its assumptions, any behaviour of the page within its      *)
(* bounds, and any number of faults, but for vision mode, which believes   *)
(* two screenshots in a row.  SessionKeeper, the session it is asked with: *)
(* for any number of keepers, council runs, attempts and mishaps, but for  *)
(* attached runs, which need one keeper and runs that refresh one at a     *)
(* time.                                                                   *)
(***************************************************************************)
EXTENDS CompletionWait, SessionKeeper, TLAPS

(* CompletionWait *)

\* A detector belongs to its mode; the one that counts screenshots stops at two.
TypeInv ==
    /\ TypeOK
    /\ pc = "vision" => mode = "vision" /\ streak <= 1

\* While the answer is being generated, every poll since absent found the button
\* hidden or failed, and a failed one lets the page hide the button anew.
FastInv ==
    pc = "fast" /\ absent # Never =>
        /\ since # Never /\ now - since >= FastStable /\ last >= Short
        /\ gen => now - absent + 1 <= faults * (Flicker + 1) + hidden

Slow == {"fallback", "confirm", "nap", "css"}

\* The slow detectors have not seen more than there is, and what they see
\* unchanged has rested as long on the page.
SlowInv ==
    pc \in Slow /\ gen =>
        /\ last <= len
        /\ last = len => now - since <= quiet

\* The growth checks look at an answer that has rested since they began.
ConfirmInv ==
    pc = "confirm" /\ gen => len > 0 /\ now + Confirm - absent <= quiet

\* While the answer is being generated only a misread screenshot counts.
VisionInv == pc = "vision" /\ gen => streak <= faults

CutInv ==
    /\ NotCutOff /\ (pc = "mount" => ~gen)
    /\ FastInv /\ SlowInv /\ ConfirmInv /\ VisionInv

\* Two misread screenshots in a row, or one after a synthesis was seen and
\* another, end the vision detector's wait: it is built for one.
OneMisreading == "vision" \in Modes => MaxFault <= 1

------------------------------------------------------------------------------

\* The lesser of two numbers
LEMMA MinOfTwo == \A a, b \in Int : Min({a, b}) = IF a <= b THEN a ELSE b
<1> SUFFICES ASSUME NEW a \in Int, NEW b \in Int PROVE Min({a, b}) = IF a <= b THEN a ELSE b
  OBVIOUS
<1> DEFINE m == IF a <= b THEN a ELSE b
<1>1. m \in {a, b} /\ \A y \in {a, b} : m <= y
  OBVIOUS
<1>2. \A x \in {a, b} : (\A y \in {a, b} : x <= y) => x = m
  OBVIOUS
<1> HIDE DEF m
<1>3. (CHOOSE x \in {a, b} : \A y \in {a, b} : x <= y) = m
  BY <1>1, <1>2
<1> QED BY <1>3 DEF Min, m

\* The greater of two numbers
LEMMA MaxOfTwo == \A a, b \in Int : Max({a, b}) = IF a >= b THEN a ELSE b
<1> SUFFICES ASSUME NEW a \in Int, NEW b \in Int PROVE Max({a, b}) = IF a >= b THEN a ELSE b
  OBVIOUS
<1> DEFINE m == IF a >= b THEN a ELSE b
<1>1. m \in {a, b} /\ \A y \in {a, b} : m >= y
  OBVIOUS
<1>2. \A x \in {a, b} : (\A y \in {a, b} : x >= y) => x = m
  OBVIOUS
<1> HIDE DEF m
<1>3. (CHOOSE x \in {a, b} : \A y \in {a, b} : x >= y) = m
  BY <1>1, <1>2
<1> QED BY <1>3 DEF Max, m

\* The constants are numbers, in the order the thresholds have.
LEMMA Numbers ==
    /\ FastStable \in Nat /\ Debounce \in Nat /\ NoGrowth \in Nat /\ FastMax \in Nat
    /\ Appear \in Nat /\ MountWait \in Nat /\ MinElapsed \in Nat /\ SlowStable \in Nat
    /\ Confirm \in Nat /\ PhaseA \in Nat /\ CssStable \in Nat /\ Timeout \in Nat
    /\ Pauses \subseteq Nat /\ Flicker \in Nat /\ MaxFault \in Nat
    /\ Lengths \subseteq Nat /\ Asks \subseteq Nat /\ 0 \in Lengths
    /\ Short \in Nat /\ Prose \in Nat /\ LeastPeak \in Nat /\ Mounted \in Nat
    /\ Substantial \in Nat /\ DomText \in Nat
    /\ 0 < Short /\ 0 < DomText
BY TickAssumption, LengthAssumption

\* The types of the clock and the page, which a sleep changes
PageType ==
    /\ now \in 0 .. Horizon
    /\ pause \in Pauses /\ asked \in Asks \cup {0}
    /\ gen \in BOOLEAN /\ len \in Lengths /\ trail \in BOOLEAN /\ button \in BOOLEAN
    /\ quiet \in 0 .. pause /\ hidden \in 0 .. Flicker /\ ended \in Never .. Horizon
    /\ whole \in Nat /\ late \in BOOLEAN

\* What is read of an answer is a length.
LEMMA ReadingType == ASSUME asked \in Asks \cup {0}, NEW n \in Nat PROVE Reading(n) \in Nat
BY Numbers DEF Reading

\* No step changes the site: how long it pauses and what it shows of the question.
LEMMA SiteNext == ASSUME [Next]_vars PROVE pause' = pause /\ asked' = asked
BY DEF Next, Detector, vars, site, FastPoll, FastGivesUp, Mount, StopCycle, Fallback,
       LooksFinished, GrowthCheck, Nap, Cards, Css, VisionPoll, VisionError, TimesOut, Extract,
       Collapse, RestOfResult

\* The clock goes on by one tick, or stands at the horizon.
LEMMA TickNext ==
    ASSUME now \in 0 .. Horizon, Ticks
    PROVE  now' \in 0 .. Horizon /\ now <= now' /\ now' <= now + 1
<1>1. now + 1 \in Int /\ Horizon \in Int
  BY Numbers DEF Horizon
<1>2. now' = IF now + 1 <= Horizon THEN now + 1 ELSE Horizon
  BY <1>1, MinOfTwo DEF Ticks
<1> QED BY <1>1, <1>2

\* A sleep keeps the types, and a generation does not begin again; while it
\* goes on the answer either grows, or rests for one more tick, and the button
\* is either shown or hidden for one more.
LEMMA SleepNext ==
    ASSUME PageType, Sleep, pause' = pause, asked' = asked
    PROVE  /\ PageType'
           /\ now <= now' /\ now' <= now + 1
           /\ ~gen => ~gen'
           /\ gen' => /\ \/ len' > len
                         \/ len' = len /\ quiet' = quiet + 1
                      /\ \/ button'
                         \/ ~button' /\ hidden' = hidden + 1
<1>1. now' \in 0 .. Horizon /\ now <= now' /\ now' <= now + 1
  BY TickNext DEF PageType, Sleep
<1>5. pause' \in Pauses /\ asked' \in Asks \cup {0} /\ pause \in Nat
  BY Numbers DEF PageType
<1>2. CASE Streams
  <2>1. trail' \in BOOLEAN /\ whole' \in Nat
    BY <1>2 DEF Streams, PageType
  <2>6. late' \in BOOLEAN
    BY <1>2 DEF Streams, PageType
  <2>2. len' \in Lengths /\ quiet' \in 0 .. pause' /\ hidden' \in 0 .. Flicker
    BY <1>2, <1>5, Numbers DEF Streams, PageType
  <2>3. gen' \in BOOLEAN /\ button' \in BOOLEAN /\ ended' \in Never .. Horizon
    BY <1>2 DEF Streams, PageType
  <2>4. \/ len' > len
        \/ len' = len /\ quiet' = quiet + 1
    BY <1>2, Numbers DEF Streams, PageType
  <2>5. button' \/ (~button' /\ hidden' = hidden + 1)
    BY <1>2 DEF Streams
  <2>7. PageType'
    BY <1>1, <1>5, <2>1, <2>2, <2>3, <2>6 DEF PageType
  <2> QED BY <1>1, <1>2, <2>4, <2>5, <2>7 DEF Streams
<1>3. CASE Ends
  <2>1. ended' = now' /\ Horizon \in Int
    BY <1>3, Numbers DEF Ends, Horizon
  <2>2. ended' \in Never .. Horizon
    BY <1>1, <2>1 DEF Never
  <2>3. quiet' = 0 /\ hidden' = 0 /\ gen' = FALSE /\ button' = FALSE
        /\ len' = len /\ trail' = trail /\ late' = late /\ whole' = Reading(len) /\ gen
    BY <1>3 DEF Ends
  <2>4. quiet' \in 0 .. pause' /\ hidden' \in 0 .. Flicker /\ whole' \in Nat
    BY <1>5, <2>3, ReadingType, Numbers DEF PageType
  <2>5. /\ len' \in Lengths /\ trail' \in BOOLEAN /\ gen' \in BOOLEAN /\ button' \in BOOLEAN
        /\ late' \in BOOLEAN
    BY <2>3 DEF PageType
  <2>6. PageType'
    BY <1>1, <1>5, <2>2, <2>4, <2>5 DEF PageType
  <2> QED BY <1>1, <2>3, <2>6
<1>4. CASE Rests
  BY <1>1, <1>4 DEF Rests, PageType, page
<1> QED BY <1>2, <1>3, <1>4 DEF Sleep

\* The types of the detectors, the result and the bound
WaitType ==
    /\ mode \in Modes /\ pc \in Location
    /\ last \in Nat /\ since \in Int /\ absent \in Int /\ peak \in Nat
    /\ seen \in BOOLEAN /\ streak \in 0 .. 2
    /\ by \in {"none", "fast", "text", "dom", "css", "vision"} /\ chars \in Nat
    /\ verdict \in {"ok", "suspect_truncated"}
    /\ exit \in {"none", "completed", "empty_synthesis"}
    /\ faults \in 0 .. MaxFault
    /\ pc = "vision" => mode = "vision" /\ streak <= 1

\* The type invariant in its two parts
LEMMA TypeParts == TypeInv <=> PageType /\ WaitType
BY DEF TypeInv, TypeOK, PageType, WaitType

\* A fault stays within its bound.
LEMMA FaultNext ==
    ASSUME faults \in 0 .. MaxFault, Works \/ Fault
    PROVE  faults' \in 0 .. MaxFault /\ (faults' = faults \/ faults' = faults + 1)
BY Numbers DEF Works, Fault


\* Every step keeps the types.
LEMMA TypeNext == TypeInv /\ [Next]_vars => TypeInv'
<1> SUFFICES ASSUME PageType, WaitType, [Next]_vars PROVE PageType' /\ WaitType'
  BY TypeParts, PTL
<1> DEFINE Results == {"none", "fast", "text", "dom", "css", "vision"}
<1>20. pause' = pause /\ asked' = asked
  BY SiteNext
<1>1. ASSUME Sleep PROVE PageType' /\ now' \in Int /\ len' \in Nat /\ gen' \in BOOLEAN
  <2>1. PageType'
    BY <1>1, <1>20, SleepNext
  <2>2. len' \in Lengths /\ now' \in 0 .. Horizon' /\ gen' \in BOOLEAN
    BY <2>1 DEF PageType
  <2> QED BY <2>1, <2>2, Numbers
<1>2. ASSUME UNCHANGED <<now, page>> PROVE PageType'
  BY <1>2, <1>20 DEF PageType, page
<1>3. now \in Int /\ len \in Nat /\ Reading(len) \in Nat
  BY ReadingType, Numbers DEF PageType
<1>4. CASE FastPoll
  <2>1. PageType' /\ now' \in Int /\ len' \in Nat
    BY <1>1, <1>4 DEF FastPoll
  <2>2. UNCHANGED <<mode, seen, streak, by, chars, verdict, exit>>
    BY <1>4 DEF FastPoll, Stays, RestOfResult, vision
  <2>7. Reading(len') \in Nat
    BY <2>1, ReadingType, <1>20, Numbers DEF PageType, Reading
  <2>3. PICK cur \in {Reading(len'), 0}, probe \in {button', FALSE} :
           /\ Works \/ Fault
           /\ peak' = Max({peak, cur})
           /\ pc' \in {"fast", "appear", "mount"}
           /\ last' \in {last, cur}
           /\ since' \in {since, Never, now', now' + MountWait}
           /\ absent' \in {absent, Never, now'}
    <3>1. pc = "fast"
      BY <1>4 DEF FastPoll
    <3> QED BY <1>4, <3>1 DEF FastPoll, Debounced, timers
  <2>4. cur \in Nat /\ faults' \in 0 .. MaxFault
    BY <2>3, <2>7, FaultNext, Numbers DEF WaitType
  <2>5. peak' \in Nat
    BY <2>3, <2>4, MaxOfTwo DEF WaitType
  <2>6. since' \in Int /\ absent' \in Int /\ last' \in Nat
    BY <2>1, <2>3, <2>4, Numbers DEF WaitType, Never
  <2> QED BY <2>1, <2>2, <2>3, <2>4, <2>5, <2>6 DEF WaitType, Location
<1>5. CASE FastGivesUp
  BY <1>2, <1>5 DEF FastGivesUp, WaitType, Location, timers, vision, result
<1>6. CASE Mount
  <2>1. PageType' /\ pc' \in {"mount", "extract"} /\ by' \in Results
    BY <1>1, <1>2, <1>6 DEF Mount, Return, WaitType
  <2>2. UNCHANGED <<mode, last, since, absent, peak, seen, streak, chars, verdict, exit, faults>>
    BY <1>6 DEF Mount, RestOfResult, Works, timers, vision
  <2> QED BY <2>1, <2>2 DEF WaitType, Location
<1>7. CASE StopCycle
  BY <1>2, <1>3, <1>7, Numbers DEF StopCycle, WaitType, Location, vision, result
<1>8. CASE Fallback
  <2>1. PICK cur \in {len, 0} : (Works \/ Fault) /\ Round(cur)
    BY <1>8 DEF Fallback
  <2>2. PageType' /\ pc' \in {"fallback", "extract"} /\ by' \in Results
    BY <1>1, <1>2, <1>8, <2>1 DEF Fallback, Round, Return, WaitType
  <2>3. last' \in Nat /\ since' \in Int /\ faults' \in 0 .. MaxFault
    BY <1>3, <2>1, FaultNext, Numbers DEF Round, WaitType
  <2>4. UNCHANGED <<mode, absent, peak, seen, streak, chars, verdict, exit>>
    BY <1>8 DEF Fallback, RestOfResult, vision
  <2> QED BY <2>2, <2>3, <2>4 DEF WaitType, Location
<1>9. CASE LooksFinished
  BY <1>2, <1>3, <1>9, Numbers DEF LooksFinished, WaitType, Location, vision, result
<1>10. CASE GrowthCheck
  <2>1. PageType' /\ now' \in Int /\ len' \in Nat
    BY <1>1, <1>10 DEF GrowthCheck
  <2>2. PICK cur \in {len', 0} :
           /\ Works \/ Fault
           /\ pc' \in {"nap", "confirm", "extract"} /\ by' \in Results
           /\ since' \in {since, now'} /\ last' \in {last, cur}
    BY <1>10 DEF GrowthCheck, Return, Stays, WaitType
  <2>3. last' \in Nat /\ since' \in Int /\ faults' \in 0 .. MaxFault
    BY <2>1, <2>2, FaultNext, Numbers DEF WaitType
  <2>4. UNCHANGED <<mode, absent, peak, seen, streak, chars, verdict, exit>>
    BY <1>10 DEF GrowthCheck, RestOfResult, vision
  <2> QED BY <2>1, <2>2, <2>3, <2>4 DEF WaitType, Location
<1>11. CASE Nap
  BY <1>1, <1>11 DEF Nap, Stays, RestOfResult, Works, WaitType, Location, timers, vision
<1>12. CASE Cards
  <2>1. PageType' /\ pc' \in {"cards", "css"} /\ last' \in {last, 0} /\ since' \in {since, now}
    BY <1>1, <1>2, <1>12 DEF Cards
  <2>2. UNCHANGED <<mode, absent, peak, seen, streak, by, chars, verdict, exit, faults>>
    BY <1>12 DEF Cards, Stays, RestOfResult, Works, vision
  <2> QED BY <1>3, <2>1, <2>2, Numbers DEF WaitType, Location
<1>13. CASE Css
  <2>1. PageType' /\ pc' \in {"css", "extract"} /\ by' \in Results
        /\ last' \in {last, len} /\ since' \in {since, now} /\ (Works \/ Fault)
    BY <1>1, <1>2, <1>13 DEF Css, Return, WaitType
  <2>2. UNCHANGED <<mode, absent, peak, seen, streak, chars, verdict, exit>>
    BY <1>13 DEF Css, RestOfResult, vision
  <2> QED BY <1>3, <2>1, <2>2, FaultNext, Numbers DEF WaitType, Location
<1>14. CASE VisionPoll
  <2>1. UNCHANGED <<mode, last, since, absent, peak, chars, verdict, exit>>
    BY <1>14 DEF VisionPoll, RestOfResult, timers
  <2>2. pc = "vision" /\ mode = "vision" /\ streak \in 0 .. 1
    BY <1>14 DEF VisionPoll, WaitType
  <2>3. ASSUME NEW s, Look(s)
        PROVE  /\ PageType' /\ seen' \in BOOLEAN /\ by' \in Results
               /\ pc' \in {"vision", "extract"} /\ streak' \in 0 .. 2
               /\ pc' = "vision" => streak' <= 1
    <3>1. PageType' /\ by' \in Results
      BY <1>1, <1>2, <2>3 DEF Look, Return, WaitType
    <3>2. seen' \in BOOLEAN
      BY <2>3 DEF Look
    <3>3. streak' = 0 \/ (streak' = streak + 1 /\ s = "complete" /\ seen) \/ streak' = streak
      BY <2>3 DEF Look
    <3>4. streak' \in 0 .. 2
      BY <2>2, <3>3
    <3>5. pc' \in {"vision", "extract"} /\ (pc' = "vision" => streak' <= 1)
      BY <2>2, <2>3, <3>3, <3>4 DEF Look, Return, Enough
    <3> QED BY <3>1, <3>2, <3>4, <3>5
  <2>4. ASSUME Sleep, UNCHANGED <<pc, vision, by>>
        PROVE  /\ PageType' /\ seen' \in BOOLEAN /\ by' \in Results
               /\ pc' \in {"vision", "extract"} /\ streak' \in 0 .. 2
               /\ pc' = "vision" => streak' <= 1
    BY <1>1, <2>2, <2>4 DEF vision, WaitType
  <2>5. /\ PageType' /\ seen' \in BOOLEAN /\ by' \in Results
        /\ pc' \in {"vision", "extract"} /\ streak' \in 0 .. 2
        /\ pc' = "vision" => streak' <= 1
    BY <1>14, <2>3, <2>4 DEF VisionPoll
  <2>6. faults' \in 0 .. MaxFault
    BY <1>14, FaultNext DEF VisionPoll, WaitType
  <2> QED BY <2>1, <2>2, <2>5, <2>6 DEF WaitType, Location
<1>15. CASE VisionError
  <2>1. faults' \in 0 .. MaxFault
    BY <1>15, FaultNext DEF VisionError, WaitType
  <2> QED BY <1>2, <1>15, <2>1 DEF VisionError, Return, RestOfResult, WaitType, Location,
         timers, vision
<1>16. CASE TimesOut
  BY <1>2, <1>16 DEF TimesOut, Return, RestOfResult, WaitType, Location, timers, vision
<1>17. CASE Extract
  <2>1. PICK text \in {Reading(len), 0}, cut \in BOOLEAN :
           /\ Works \/ Fault
           /\ chars' = IF TrailOnly(text) THEN 0 ELSE text
           /\ verdict' = IF chars' > 0 /\ (Regressed(chars') \/ cut)
                           THEN "suspect_truncated" ELSE "ok"
           /\ exit' = IF chars' = 0 THEN "empty_synthesis" ELSE "completed"
    BY <1>17 DEF Extract
  <2>2. chars' \in Nat /\ faults' \in 0 .. MaxFault
    <3>1. chars' = 0 \/ chars' = text
      BY <2>1
    <3> QED BY <1>3, <2>1, <3>1, FaultNext, Numbers DEF WaitType
  <2>3. /\ pc' = "done"
        /\ UNCHANGED <<mode, now, page, last, since, absent, peak, seen, streak, by>>
    BY <1>17 DEF Extract, timers, vision
  <2>4. verdict' \in {"ok", "suspect_truncated"} /\ exit' \in {"none", "completed", "empty_synthesis"}
    BY <2>1
  <2>5. WaitType'
    BY <2>2, <2>3, <2>4 DEF WaitType, Location
  <2> QED BY <1>2, <2>3, <2>5
<1>18. CASE Collapse
  <2>1. len' \in Lengths
    BY <1>18 DEF Collapse
  <2>2. faults' \in 0 .. MaxFault
    BY <1>18, FaultNext DEF Collapse, WaitType
  <2> QED BY <1>18, <1>20, <2>1, <2>2 DEF Collapse, PageType, WaitType, timers, vision, result
<1>19. CASE UNCHANGED vars
  BY <1>19, <1>20 DEF vars, PageType, WaitType, page, timers, vision, result
<1> QED
  BY <1>4, <1>5, <1>6, <1>7, <1>8, <1>9, <1>10, <1>11, <1>12, <1>13, <1>14, <1>15,
     <1>16, <1>17, <1>18, <1>19 DEF Next, Detector

\* The first state has its types.
LEMMA TypeInit == Init => TypeInv
<1> SUFFICES ASSUME Init PROVE PageType /\ WaitType
  BY TypeParts
<1>1. PageType
  <2>1. /\ now = 0 /\ pause \in Pauses /\ gen = TRUE /\ len = 0 /\ trail \in BOOLEAN
        /\ button \in BOOLEAN /\ quiet = 0 /\ hidden = 0 /\ ended = Never /\ whole = 0
        /\ late = FALSE /\ asked \in Asks \cup {0}
    BY DEF Init
  <2>2. Horizon \in Nat /\ pause \in Nat
    BY <2>1, Numbers DEF Horizon
  <2>3. now \in 0 .. Horizon /\ quiet \in 0 .. pause /\ hidden \in 0 .. Flicker
    BY <2>1, <2>2, Numbers
  <2>4. ended \in Never .. Horizon
    BY <2>1, <2>2 DEF Never
  <2> QED BY <2>1, <2>3, <2>4, Numbers DEF PageType
<1>2. mode \in {"research", "css", "vision"}
  BY ModeAssumption DEF Init
<1>3. pc \in Location /\ (pc = "vision" => mode = "vision")
  BY <1>2 DEF Init, Location
<1>4. /\ mode \in Modes /\ last = 0 /\ since = Never /\ absent = Never /\ peak = 0
      /\ seen = FALSE /\ streak = 0 /\ by = "none" /\ chars = 0
      /\ verdict = "ok" /\ exit = "none" /\ faults = 0
  BY DEF Init
<1>5. WaitType
  <2>1. last \in Nat /\ peak \in Nat /\ chars \in Nat /\ faults \in 0 .. MaxFault
    BY <1>4, Numbers
  <2>2. since \in Int /\ absent \in Int /\ streak \in 0 .. 2 /\ streak <= 1
    BY <1>4 DEF Never
  <2>3. seen \in BOOLEAN /\ by \in {"none", "fast", "text", "dom", "css", "vision"}
    BY <1>4
  <2> QED BY <1>3, <1>4, <2>1, <2>2, <2>3 DEF WaitType
<1> QED BY <1>1, <1>5

\* Every variable of the completion detection keeps its type, for any
\* thresholds; the screenshot detector counts to two at most.
THEOREM TypeCorrect == Spec => []TypeInv
<1> QED BY TypeInit, TypeNext, PTL DEF Spec


\* Multiplication by a number grows with the other factor, step by step.
LEMMA Products ==
    ASSUME NEW k \in Nat, NEW f \in Nat
    PROVE  /\ f * k \in Nat
           /\ (f + 1) * k = f * k + k
           /\ f * (k + 1) = f * k + f
           /\ \A m \in Nat : f <= m => f * k <= m * k
OBVIOUS

\* What the fast path asks of the page: within the bounds on faults and
\* flickers the button is not hidden for Debounce ticks while it streams.
LEMMA NotHiddenForLong ==
    \A f \in 0 .. MaxFault, h \in 0 .. Flicker : f * (Flicker + 1) + h <= Debounce
<1> SUFFICES ASSUME NEW f \in 0 .. MaxFault, NEW h \in 0 .. Flicker
             PROVE  f * (Flicker + 1) + h <= Debounce
  OBVIOUS
<1>1. f \in Nat /\ f <= MaxFault /\ h \in Nat /\ h <= Flicker
  BY Numbers
<1>2. f * (Flicker + 1) = f * Flicker + f
  BY <1>1, Products, Numbers
<1>3. f * Flicker <= MaxFault * Flicker
  BY <1>1, Products, Numbers
<1>4. (MaxFault + 1) * Flicker = MaxFault * Flicker + Flicker
  BY Products, Numbers
<1>5. MaxFault * Flicker \in Nat /\ f * Flicker \in Nat
  BY <1>1, Products, Numbers
<1> QED BY <1>1, <1>2, <1>3, <1>4, <1>5, FlickerAssumption, Numbers

\* A poll that does not see the button costs a fault or a tick of hiding it.
LEMMA NotSeen ==
    \A f, g \in 0 .. MaxFault, h, i \in 0 .. Flicker :
        \/ g = f + 1
        \/ g \in {f, f + 1} /\ i = h + 1
        => /\ f * (Flicker + 1) + h + 1 <= g * (Flicker + 1) + i
           /\ 1 <= g * (Flicker + 1) + i
<1> SUFFICES ASSUME NEW f \in 0 .. MaxFault, NEW g \in 0 .. MaxFault,
                    NEW h \in 0 .. Flicker, NEW i \in 0 .. Flicker,
                    g = f + 1 \/ (g = f /\ i = h + 1)
             PROVE  /\ f * (Flicker + 1) + h + 1 <= g * (Flicker + 1) + i
                    /\ 1 <= g * (Flicker + 1) + i
  OBVIOUS
<1>1. f \in Nat /\ h \in Nat /\ i \in Nat /\ h <= Flicker /\ Flicker + 1 \in Nat
  BY Numbers
<1>2. f * (Flicker + 1) \in Nat /\ (f + 1) * (Flicker + 1) = f * (Flicker + 1) + Flicker + 1
  BY <1>1, Products, Numbers
<1> DEFINE p == f * (Flicker + 1)
           q == (f + 1) * (Flicker + 1)
<1>3. p \in Nat /\ q = p + Flicker + 1
  BY <1>2
<1>4. CASE g = f + 1
  <2>1. g * (Flicker + 1) = q
    BY <1>4
  <2> HIDE DEF p, q
  <2>2. p + h + 1 <= q + i /\ 1 <= q + i
    BY <1>1, <1>3, Numbers
  <2> QED BY <2>1, <2>2 DEF p
<1>5. CASE g = f /\ i = h + 1
  <2>1. g * (Flicker + 1) = p
    BY <1>5
  <2> HIDE DEF p, q
  <2>2. p + h + 1 <= p + i /\ 1 <= p + i
    BY <1>1, <1>3, <1>5, Numbers
  <2> QED BY <2>1, <2>2 DEF p
<1> QED BY <1>4, <1>5

\* What a slow detector saw at rest and still does has rested for the sleep too.
LEMMA SlowSleep ==
    ASSUME PageType, Sleep, pause' = pause, asked' = asked, gen', NEW cur \in Nat, NEW from \in Int,
           cur <= len, cur = len => now - from <= quiet
    PROVE  cur <= len' /\ (cur = len' => now' - from <= quiet')
<1>1. /\ now \in Int /\ now' \in Int /\ now' <= now + 1
      /\ len \in Nat /\ quiet \in Nat
      /\ len' > len \/ (len' = len /\ quiet' = quiet + 1)
  BY SleepNext, Numbers DEF PageType
<1>2. len' \in Nat
  BY SleepNext, Numbers DEF PageType
<1> QED BY <1>1, <1>2

\* Outside of the waits there is nothing but the answer returned.
LEMMA OutOfWait ==
    ASSUME pc' \in {"appear", "cards", "extract", "done"}, NotCutOff'
    PROVE  CutInv'
BY DEF CutInv, FastInv, SlowInv, ConfirmInv, VisionInv, Slow

\* In a slow detector there is nothing but SlowInv and ConfirmInv.
LEMMA InSlow ==
    ASSUME pc' \in Slow, NotCutOff',
           gen' => last' <= len' /\ (last' = len' => now' - since' <= quiet'),
           pc' # "confirm"
    PROVE  CutInv'
BY DEF CutInv, FastInv, SlowInv, ConfirmInv, VisionInv, Slow


\* Every step keeps CutInv, and with it that no streaming answer is complete.
LEMMA CutNext ==
    ASSUME OneMisreading, TypeInv, TypeInv', CutInv, [Next]_vars
    PROVE  CutInv'
<1>1. PageType /\ WaitType /\ PageType' /\ WaitType'
  BY TypeParts, PTL
<1>2. /\ now \in Int /\ now' \in Int /\ len \in Nat /\ len' \in Nat
      /\ quiet \in Nat /\ quiet <= pause /\ quiet' \in Nat /\ quiet' <= pause'
      /\ since \in Int /\ absent \in Int /\ last \in Nat /\ streak \in Nat
  BY <1>1, Numbers DEF PageType, WaitType
<1>20. /\ hidden \in 0 .. Flicker /\ hidden' \in 0 .. Flicker
       /\ faults \in 0 .. MaxFault /\ faults' \in 0 .. MaxFault
       /\ hidden \in Nat /\ hidden' \in Nat /\ faults \in Nat /\ faults' \in Nat
       /\ faults' <= MaxFault
  BY <1>1, Numbers DEF PageType, WaitType
<1>21. {now, now', since, absent, quiet, quiet', hidden, hidden'} \subseteq Int
  BY <1>2, <1>20
<1>22. /\ pause \in Nat /\ Confirm \in Nat /\ SlowStable \in Nat /\ CssStable \in Nat
       /\ pause' = pause /\ asked' = asked
  BY <1>1, SiteNext, Numbers DEF PageType
<1>3. ASSUME by' = by \/ by' = "none", ~gen => ~gen' PROVE NotCutOff'
  BY <1>3, <1>22 DEF CutInv, NotCutOff
<1>23. ASSUME ~gen' PROVE NotCutOff'
  BY <1>23 DEF NotCutOff
<1>4. ASSUME Sleep
      PROVE  /\ now <= now' /\ now' <= now + 1 /\ (~gen => ~gen')
             /\ gen' => /\ len' > len \/ (len' = len /\ quiet' = quiet + 1)
                        /\ button' \/ (~button' /\ hidden' = hidden + 1)
  BY <1>1, <1>4, <1>22, SleepNext
<1>5. pc \in Slow /\ gen => last <= len /\ (last = len => now - since <= quiet)
  BY DEF CutInv, SlowInv
<1>6. CASE FastPoll
  <2>1. pc = "fast" /\ Sleep /\ by' = by
    BY <1>6 DEF FastPoll, Stays
  <2>2. ~gen => ~gen'
    BY <1>4, <2>1
  <2>3. PICK cur, probe :
           /\ cur \in {Reading(len'), 0} /\ probe \in {button', FALSE}
           /\ IF cur = Reading(len') /\ probe = button' THEN Works ELSE Fault
           /\ \/ pc' = "appear"
              \/ absent' = Never /\ pc' = pc
              \/ /\ cur = last /\ (cur < Short \/ (since # Never /\ now' - since < FastStable))
                 /\ UNCHANGED <<pc, since, absent>>
              \/ since = Never /\ UNCHANGED <<pc, absent>>
              \/ /\ cur = last /\ last' = last /\ cur >= Short
                 /\ since # Never /\ now' - since >= FastStable
                 /\ Debounced(probe)
    BY <1>6 DEF FastPoll, timers
  <2>4. pc = "fast" /\ absent # Never =>
           /\ since # Never /\ now - since >= FastStable /\ last >= Short
           /\ gen => now - absent + 1 <= faults * (Flicker + 1) + hidden
    BY DEF CutInv, FastInv
  <2>5. CASE pc' = "appear"
    BY <1>3, <2>1, <2>2, <2>5, OutOfWait
  <2>6. ASSUME pc' = "fast", absent' = Never PROVE CutInv'
    BY <1>3, <2>1, <2>2, <2>6 DEF CutInv, FastInv, SlowInv, ConfirmInv, VisionInv, Slow
  <2>7. absent = Never \/ ~(since = Never \/ last < Short \/ now' - since < FastStable)
    <3>1. now <= now' /\ Short \in Nat /\ FastStable \in Nat
      BY <1>4, <2>1, Numbers
    <3>2. absent # Never => since # Never /\ now - since >= FastStable /\ last >= Short
      BY <2>1, <2>4
    <3>3. absent # Never => since # Never
      BY <3>2
    <3>4. absent # Never => ~(last < Short)
      BY <1>2, <3>1, <3>2
    <3>5. absent # Never => ~(now' - since < FastStable)
      BY <1>21, <3>1, <3>2
    <3> QED BY <3>3, <3>4, <3>5
  <2>8. CASE /\ Debounced(probe) /\ last' = last /\ last >= Short
             /\ since # Never /\ now' - since >= FastStable
    <3> DEFINE p == faults * (Flicker + 1)
               q == faults' * (Flicker + 1)
    <3>1. ASSUME ~probe, gen'
          PROVE  p + hidden + 1 <= q + hidden' /\ 1 <= q + hidden'
      <4>1. faults' = faults \/ faults' = faults + 1
        BY <2>3 DEF Works, Fault
      <4>2. faults' = faults + 1 \/ ~button'
        BY <2>3, <3>1 DEF Fault
      <4>3. faults' = faults + 1 \/ (faults' \in {faults, faults + 1} /\ hidden' = hidden + 1)
        BY <1>4, <2>1, <3>1, <4>1, <4>2
      <4> QED BY <1>20, <4>3, NotSeen
    <3>2. p \in Nat /\ q \in Nat
      <4>1. Flicker + 1 \in Nat
        BY Numbers
      <4> QED BY <1>20, <4>1, Products
    <3>3. q + hidden' <= Debounce
      BY <1>20, NotHiddenForLong
    <3>4. gen /\ absent # Never => now - absent + 1 <= p + hidden
      BY <2>1, <2>4
    <3> HIDE DEF p, q
    <3>5. CASE ~StopGone(probe) /\ absent' = Never /\ UNCHANGED <<pc, since>>
      BY <2>1, <2>6, <3>5
    <3>6. CASE StopGone(probe) /\ absent = Never /\ absent' = now' /\ UNCHANGED <<pc, since>>
      <4>1. gen' => now' - absent' + 1 <= q + hidden'
        <5>1. gen' => 1 <= q + hidden'
          BY <3>1, <3>6 DEF StopGone
        <5>2. now' - absent' + 1 = 1
          BY <1>21, <3>6
        <5> QED BY <5>1, <5>2
      <4>2. FastInv'
        BY <1>2, <2>8, <3>6, <4>1 DEF FastInv, q
      <4> QED BY <1>3, <2>1, <2>2, <3>6, <4>2 DEF CutInv, SlowInv, ConfirmInv, VisionInv, Slow
    <3>7. CASE StopGone(probe) /\ absent # Never /\ UNCHANGED <<pc, since, absent>>
      <4>1. gen' => now' - absent + 1 <= q + hidden'
        <5>1. absent' = absent /\ now' <= now + 1
          BY <1>4, <2>1, <3>7
        <5>2. gen' => p + hidden + 1 <= q + hidden'
          BY <3>1, <3>7 DEF StopGone
        <5>3. gen' => now - absent + 1 <= p + hidden
          BY <1>4, <2>1, <3>4, <3>7
        <5> QED BY <1>21, <3>2, <5>1, <5>2, <5>3
      <4>2. FastInv'
        BY <1>2, <2>8, <3>7, <4>1 DEF FastInv, q
      <4> QED BY <1>3, <2>1, <2>2, <3>7, <4>2 DEF CutInv, SlowInv, ConfirmInv, VisionInv, Slow
    <3>8. CASE /\ StopGone(probe) /\ absent # Never /\ now' - absent >= Debounce
               /\ pc' = "mount"
      <4>1. gen' => now' - absent + 1 <= q + hidden'
        <5>1. now' <= now + 1
          BY <1>4, <2>1
        <5>2. gen' => p + hidden + 1 <= q + hidden'
          BY <3>1, <3>8 DEF StopGone
        <5>3. gen' => now - absent + 1 <= p + hidden
          BY <1>4, <2>1, <3>4, <3>8
        <5> QED BY <1>21, <3>2, <5>1, <5>2, <5>3
      <4>2. ~gen'
        <5>1. Debounce \in Nat /\ now' - absent >= Debounce
          BY <3>8, Numbers
        <5> QED BY <1>21, <3>2, <3>3, <4>1, <5>1
      <4> QED BY <1>23, <3>8, <4>2 DEF CutInv, FastInv, SlowInv, ConfirmInv, VisionInv, Slow
    <3> QED BY <2>8, <3>5, <3>6, <3>7, <3>8 DEF Debounced
  <2> QED
    BY <2>1, <2>3, <2>5, <2>6, <2>7, <2>8
<1>7. CASE FastGivesUp \/ TimesOut \/ VisionError
  <2>1. gen' = gen /\ pc' \in {"appear", "extract"} /\ by' \in {by, "none"}
    BY <1>7 DEF FastGivesUp, TimesOut, VisionError, Return, page, result
  <2>2. NotCutOff'
    BY <1>3, <2>1
  <2> QED BY <2>1, <2>2, OutOfWait
<1>8. CASE Mount
  <2>1. ~gen
    BY <1>8 DEF Mount, CutInv
  <2>2. ~gen' /\ pc' \in {"mount", "extract"}
    BY <1>4, <1>8, <2>1 DEF Mount, Return, page
  <2> QED BY <1>23, <2>2 DEF CutInv, FastInv, SlowInv, ConfirmInv, VisionInv, Slow
<1>9. CASE StopCycle
  <2>1. /\ pc' = "fallback" /\ last' = 0 /\ since' = now /\ now' = now /\ len' = len
        /\ gen' = gen /\ quiet' = quiet /\ by' = by
    BY <1>9 DEF StopCycle, page, result
  <2> QED BY <1>2, <1>3, <2>1, InSlow DEF Slow
<1>10. CASE Fallback
  <2>1. pc = "fallback"
    BY <1>10 DEF Fallback
  <2>2. PICK cur \in {len, 0} : Round(cur)
    BY <1>10 DEF Fallback
  <2> DEFINE from == IF cur # last THEN now ELSE since
  <2>3. /\ last' = cur /\ since' = from
        /\ \/ Settled(cur, from) /\ pc' = "extract" /\ by' = "text" /\ UNCHANGED <<now, page>>
           \/ ~Settled(cur, from) /\ Sleep /\ UNCHANGED <<pc, by>>
    BY <2>2 DEF Round, Return
  <2>4. from \in Int /\ cur \in Nat
    BY <1>2
  <2>5. gen => cur <= len /\ (cur = len => now - from <= quiet)
    BY <1>2, <1>5, <2>1 DEF Slow
  <2> HIDE DEF from
  <2>6. CASE Settled(cur, from) /\ pc' = "extract" /\ by' = "text" /\ UNCHANGED <<now, page>>
    <3>1. cur >= DomText /\ now - from >= SlowStable
      BY <2>6 DEF Settled
    <3>2. cur = len
      <4>1. DomText > 0 /\ DomText \in Nat
        BY Numbers
      <4> QED BY <3>1, <4>1, <2>2, <1>2
    <3>3. gen => SlowStable <= pause
      BY <1>2, <1>22, <2>4, <2>5, <3>1, <3>2
    <3>4. NotCutOff'
      BY <1>22, <2>6, <3>3 DEF NotCutOff, page
    <3> QED BY <2>6, <3>4, OutOfWait
  <2>7. CASE Sleep /\ UNCHANGED <<pc, by>>
    <3>1. gen' => last' <= len' /\ (last' = len' => now' - since' <= quiet')
      BY <1>1, <1>4, <1>22, <2>3, <2>4, <2>5, <2>7, SlowSleep
    <3> QED BY <1>3, <1>4, <2>1, <2>7, <3>1, InSlow DEF Slow
  <2> QED BY <2>3, <2>6, <2>7
<1>11. CASE LooksFinished
  <2>1. /\ pc = "fallback" /\ pc' = "confirm" /\ absent' = now + Confirm /\ len >= DomText
        /\ UNCHANGED <<now, len, gen, quiet, last, since, by>>
    BY <1>11 DEF LooksFinished, page, result
  <2>2. SlowInv'
    BY <1>5, <2>1 DEF SlowInv, Slow
  <2>3. ConfirmInv'
    BY <1>2, <2>1, Numbers DEF ConfirmInv
  <2> QED BY <1>3, <2>1, <2>2, <2>3 DEF CutInv, FastInv, VisionInv
<1>12. CASE GrowthCheck
  <2>1. pc = "confirm" /\ Sleep /\ absent' = absent
    BY <1>12 DEF GrowthCheck
  <2>2. gen => len > 0 /\ now + Confirm - absent <= quiet
    BY <2>1 DEF CutInv, ConfirmInv
  <2>3. gen' => last <= len' /\ (last = len' => now' - since <= quiet')
    BY <1>1, <1>2, <1>4, <1>5, <1>22, <2>1, SlowSleep DEF Slow
  <2>4. PICK cur :
           /\ cur \in {len', 0}
           /\ \/ Grew(cur) /\ pc' = "nap" /\ since' = now' /\ last' = cur /\ by' = by
              \/ ~Grew(cur) /\ now' < absent /\ UNCHANGED <<pc, since, last, by>>
              \/ ~Grew(cur) /\ now' >= absent /\ pc' = "extract" /\ by' = "dom"
    BY <1>12 DEF GrowthCheck, Return, Stays
  <2>5. CASE pc' = "nap" /\ since' = now' /\ last' = cur /\ by' = by
    <3>1. cur <= len'
      BY <1>2, <2>4
    <3>2. now' - now' <= quiet'
      <4>1. quiet' >= 0
        BY <1>2
      <4> QED BY <1>21, <4>1
    <3> QED BY <1>3, <1>4, <2>1, <2>5, <3>1, <3>2, InSlow DEF Slow
  <2>6. ASSUME ~Grew(cur), gen'
        PROVE  len' > 0 /\ now' + Confirm - absent <= quiet'
    <3>1. cur = len /\ gen /\ len > 0
      BY <1>4, <2>1, <2>2, <2>6 DEF Grew
    <3>2. len' = len
      BY <2>4, <3>1, <1>2
    <3>3. quiet' = quiet + 1 /\ now' <= now + 1
      BY <1>2, <1>4, <2>1, <2>6, <3>2
    <3>4. len' > 0
      BY <1>2, <2>2, <3>1, <3>2
    <3>5. now + Confirm - absent <= quiet
      BY <2>2, <3>1
    <3>6. now' + Confirm - absent <= quiet'
      BY <1>21, <1>22, <3>3, <3>5
    <3> QED BY <3>4, <3>6
  <2>7. CASE ~Grew(cur) /\ UNCHANGED <<pc, since, last, by>>
    <3>1. SlowInv'
      BY <2>1, <2>3, <2>7 DEF SlowInv
    <3>2. ConfirmInv'
      BY <2>1, <2>6, <2>7 DEF ConfirmInv
    <3> QED BY <1>3, <1>4, <2>1, <2>7, <3>1, <3>2 DEF CutInv, FastInv, VisionInv
  <2>8. CASE ~Grew(cur) /\ now' >= absent /\ pc' = "extract" /\ by' = "dom"
    <3>1. gen' => Confirm <= pause'
      <4>1. quiet' <= pause'
        BY <1>2
      <4> QED BY <1>21, <1>22, <2>6, <2>8, <4>1
    <3>2. NotCutOff'
      BY <2>8, <3>1 DEF NotCutOff
    <3> QED BY <2>8, <3>2, OutOfWait
  <2> QED BY <2>4, <2>5, <2>7, <2>8
<1>13. CASE Nap
  <2>1. pc = "nap" /\ Sleep /\ pc' = "fallback" /\ UNCHANGED <<last, since, by>>
    BY <1>13 DEF Nap, timers, Stays
  <2>2. gen' => last' <= len' /\ (last' = len' => now' - since' <= quiet')
    BY <1>1, <1>2, <1>4, <1>5, <1>22, <2>1, SlowSleep DEF Slow
  <2> QED BY <1>3, <1>4, <2>1, <2>2, InSlow DEF Slow
<1>14. CASE Cards
  <2>1. by' = by
    BY <1>14 DEF Cards, Stays
  <2>2. CASE Sleep /\ pc' = "cards"
    BY <1>3, <1>4, <2>1, <2>2, OutOfWait
  <2>3. CASE pc' = "css" /\ last' = 0 /\ since' = now /\ UNCHANGED <<now, page>>
    <3>1. last' <= len' /\ now' - since' <= quiet' /\ gen' = gen
      BY <1>2, <2>3 DEF page
    <3> QED BY <1>3, <2>1, <2>3, <3>1, InSlow DEF Slow
  <2> QED BY <1>14, <2>2, <2>3 DEF Cards
<1>15. CASE Css
  <2>1. pc = "css"
    BY <1>15 DEF Css
  <2>2. CASE /\ len = last /\ now - since >= CssStable
             /\ pc' = "extract" /\ by' = "css" /\ UNCHANGED <<now, page>>
    <3>1. gen => CssStable <= pause
      BY <1>2, <1>5, <1>22, <2>1, <2>2 DEF Slow
    <3>2. NotCutOff'
      BY <1>22, <2>2, <3>1 DEF NotCutOff, page
    <3> QED BY <2>2, <3>2, OutOfWait
  <2>3. CASE /\ Sleep /\ UNCHANGED <<pc, by>>
             /\ \/ last' = len /\ since' = now
                \/ UNCHANGED <<last, since>>
    <3>1. gen => last' <= len /\ (last' = len => now - since' <= quiet)
      BY <1>2, <1>5, <2>1, <2>3 DEF Slow
    <3>2. last' \in Nat /\ since' \in Int
      BY <1>2, <2>3
    <3>3. gen' => last' <= len' /\ (last' = len' => now' - since' <= quiet')
      BY <1>1, <1>4, <1>22, <2>3, <3>1, <3>2, SlowSleep
    <3> QED BY <1>3, <1>4, <2>1, <2>3, <3>3, InSlow DEF Slow
  <2> QED BY <1>15, <2>2, <2>3 DEF Css, Return
<1>16. CASE VisionPoll
  <2>1. pc = "vision" /\ (gen => streak <= faults)
    BY <1>16 DEF VisionPoll, CutInv, VisionInv
  <2>2. MaxFault <= 1
    <3>1. "vision" \in Modes
      BY <1>1, <2>1 DEF WaitType
    <3> QED BY <3>1 DEF OneMisreading
  <2>3. faults' \in {faults, faults + 1}
    BY <1>16 DEF VisionPoll, Works, Fault
  <2>4. ASSUME NEW s, Look(s), s = "complete" => ~gen \/ faults' = faults + 1
        PROVE  CutInv'
    <3>1. gen => streak' <= faults'
      <4>1. streak' \in {0, streak} \/ (s = "complete" /\ streak' = streak + 1)
        BY <2>4 DEF Look
      <4>2. streak' <= streak \/ (s = "complete" /\ streak' = streak + 1)
        BY <1>2, <2>4, <4>1 DEF Look
      <4> QED BY <1>2, <1>20, <2>1, <2>3, <2>4, <4>2 DEF Look
    <3>2. CASE /\ s = "complete" /\ Enough
               /\ pc' = "extract" /\ UNCHANGED <<now, page>>
      <4>1. streak' >= 2
        BY <3>2 DEF Enough
      <4>2. ~gen
        <5>1. streak' \in Nat /\ MaxFault \in Nat
          BY <1>1, Numbers DEF WaitType
        <5> QED BY <1>20, <2>2, <3>1, <4>1, <5>1
      <4> QED BY <1>23, <3>2, <4>2, OutOfWait DEF page
    <3>3. CASE Sleep /\ UNCHANGED <<pc, by>>
      BY <1>3, <1>4, <2>1, <3>1, <3>3 DEF CutInv, FastInv, SlowInv, ConfirmInv, VisionInv, Slow
    <3> QED BY <2>4, <3>2, <3>3 DEF Look, Return
  <2>5. CASE Works /\ Look(PageState)
    <3>1. PageState = "complete" => ~gen
      BY DEF PageState
    <3> QED BY <2>4, <2>5, <3>1
  <2>6. CASE Fault /\ gen /\ Look("complete")
    BY <2>4, <2>6 DEF Fault
  <2>7. CASE Fault /\ Sleep /\ UNCHANGED <<pc, vision, by>>
    <3>1. gen' => streak' <= faults'
      BY <1>2, <1>20, <1>4, <2>1, <2>3, <2>7 DEF vision
    <3> QED BY <1>3, <1>4, <2>1, <2>7, <3>1
           DEF CutInv, FastInv, SlowInv, ConfirmInv, VisionInv, Slow
  <2> QED BY <1>16, <2>5, <2>6, <2>7 DEF VisionPoll
<1>17. CASE Extract
  <2>1. gen' = gen /\ pc' = "done" /\ by' = by
    BY <1>17 DEF Extract, page
  <2> QED BY <1>3, <2>1, OutOfWait
<1>18. CASE Collapse
  <2>1. ~gen /\ ~gen' /\ UNCHANGED <<pc, now, last, since, absent>>
    BY <1>18 DEF Collapse, timers
  <2> QED BY <1>23, <2>1 DEF CutInv, FastInv, SlowInv, ConfirmInv, VisionInv
<1>19. CASE UNCHANGED vars
  BY <1>3, <1>19 DEF vars, page, timers, vision, result, CutInv, FastInv, SlowInv, ConfirmInv, VisionInv
<1> QED
  BY <1>6, <1>7, <1>8, <1>9, <1>10, <1>11, <1>12, <1>13, <1>14, <1>15, <1>16, <1>17,
     <1>18, <1>19 DEF Next, Detector

\* Only an answer whose stream has paused for longer than the window of the
\* detector at work is called complete while it is still being streamed, for any
\* thresholds, pauses and lengths, however many polls fail; in vision mode one
\* screenshot may be misread (NotCutOff).
THEOREM CompleteIsFinished == ASSUME OneMisreading PROVE Spec => []NotCutOff
<1>1. Init => CutInv
  <2> SUFFICES ASSUME Init PROVE CutInv
    OBVIOUS
  <2>1. absent = Never /\ streak = 0 /\ faults = 0 /\ by = "none"
    BY DEF Init
  <2>2. pc \in {"fast", "cards", "vision"}
    BY ModeAssumption DEF Init
  <2> QED BY <2>1, <2>2 DEF CutInv, NotCutOff, FastInv, SlowInv, ConfirmInv, VisionInv, Slow
<1>2. TypeInv /\ TypeInv' /\ CutInv /\ [Next]_vars => CutInv'
  BY CutNext
<1>3. CutInv => NotCutOff
  BY DEF CutInv
<1> QED BY <1>1, <1>2, <1>3, TypeCorrect, PTL DEF Spec

------------------------------------------------------------------------------

\* With one fault at most, the fast path has seen the answer at the length it ended
\* with, unless the poll of that very tick failed; then the text cannot collapse.
PeakInv ==
    /\ pc = "fast" /\ ~gen /\ peak < whole => faults >= 1 /\ Reading(len) = whole
    /\ pc = "mount" \/ by = "fast" => peak >= whole
    /\ pc \notin {"extract", "done"} => by = "none"
    /\ LossIsFlagged

\* Every step keeps PeakInv.
LEMMA PeakNext ==
    ASSUME MaxFault <= 1, TypeInv, TypeInv', CutInv, CutInv', PeakInv, [Next]_vars
    PROVE  PeakInv'
<1>1. PageType /\ WaitType /\ PageType' /\ WaitType'
  BY TypeParts, PTL
<1>2. /\ {peak, whole, chars, len, peak', whole', chars', len', last, last'} \subseteq Nat
      /\ {faults, faults'} \subseteq 0 .. MaxFault /\ MaxFault \in Nat
  BY <1>1, Numbers DEF PageType, WaitType
<1>3. pause' = pause /\ asked' = asked
  BY SiteNext
<1>4. /\ \A n \in Nat : Reading(n) \in Nat
      /\ Reading(len)' = IF len' > Prose \/ asked = 0 THEN len' ELSE asked + len'
      /\ Reading(len)' = Reading(len')
  BY <1>1, <1>3, ReadingType DEF PageType, Reading
<1>5. CASE FastPoll
  <2>1. pc = "fast" /\ Sleep /\ by' = by /\ by = "none"
    BY <1>5 DEF FastPoll, Stays, PeakInv
  <2>2. PICK cur \in {Reading(len'), 0}, probe \in {button', FALSE} :
           /\ IF cur = Reading(len') /\ probe = button' THEN Works ELSE Fault
           /\ peak' = Max({peak, cur})
           /\ \/ pc' = "appear"
              \/ pc' = "fast"
              \/ cur = last /\ cur >= Short /\ pc' = "mount"
    BY <1>5 DEF FastPoll, Debounced
  <2>3. peak' >= peak /\ peak' >= cur
    BY <1>2, <1>4, <2>2, MaxOfTwo, SMTT(30)
  <2>4. \/ gen /\ gen' /\ UNCHANGED whole
        \/ gen /\ ~gen' /\ whole' = Reading(len) /\ len' = len
        \/ ~gen /\ ~gen' /\ UNCHANGED <<whole, len>>
    <3>1. CASE Streams
      BY <3>1 DEF Streams
    <3>2. CASE Ends
      BY <3>2 DEF Ends
    <3>3. CASE Rests
      BY <3>3 DEF Rests, page
    <3> QED BY <2>1, <3>1, <3>2, <3>3 DEF Sleep
  <2>5. ~gen' /\ peak' < whole' => faults' >= 1 /\ Reading(len') = whole'
    <3>1. CASE gen /\ ~gen'
      <4>1. whole' = Reading(len')
        BY <2>4, <3>1
      <4>2. cur = Reading(len') \/ faults' = faults + 1
        BY <2>2 DEF Fault
      <4> QED BY <1>2, <1>4, <2>3, <4>1, <4>2
    <3>2. CASE ~gen
      <4>1. faults' >= faults
        BY <1>2, <2>2 DEF Works, Fault
      <4> QED BY <1>2, <2>1, <2>3, <2>4, <3>2, <4>1 DEF PeakInv
    <3> QED BY <2>4, <3>1, <3>2
  <2>6. pc' = "mount" => peak' >= whole'
    <3> SUFFICES ASSUME pc' = "mount" PROVE peak' >= whole'
      OBVIOUS
    <3>1. ~gen' /\ cur >= Short
      BY <2>2 DEF CutInv
    <3>2. cur = Reading(len')
      BY <2>2, <3>1, Numbers
    <3> QED BY <1>2, <1>4, <2>3, <2>5, <3>1, <3>2
  <2>7. LossIsFlagged'
    BY <2>1, <2>2 DEF LossIsFlagged
  <2> QED BY <1>4, <2>1, <2>2, <2>5, <2>6, <2>7 DEF PeakInv
<1>6. CASE Mount
  <2>1. pc = "mount" /\ ~gen /\ peak' = peak /\ by = "none"
    BY <1>6 DEF Mount, PeakInv, CutInv
  <2>2. whole' = whole
    BY <1>6, <2>1 DEF Mount, Sleep, Streams, Ends, Rests, page
  <2>3. pc' = "extract" \/ (pc' = "mount" /\ by' = by)
    BY <1>6, <2>1 DEF Mount, Return
  <2> QED BY <2>1, <2>2, <2>3 DEF PeakInv, LossIsFlagged
<1>7. CASE Extract
  <2>1. /\ pc' = "done" /\ UNCHANGED <<peak, by, whole>>
        /\ chars' > 0 /\ Regressed(chars') => verdict' = "suspect_truncated"
        /\ chars' = 0 => exit' = "empty_synthesis"
    BY <1>7 DEF Extract, page
  <2>2. ASSUME by = "fast", whole >= LeastPeak, chars' < Substantial, MuchShorter(chars', whole)
        PROVE  Regressed(chars')
    <3>1. peak >= whole
      BY <2>2 DEF PeakInv
    <3>2. LeastPeak \in Nat /\ Substantial \in Nat
      BY Numbers
    <3>3. 85 * whole > 100 * chars' /\ 85 * peak >= 85 * whole
      BY <1>2, <2>2, <3>1 DEF MuchShorter
    <3>4. 100 * (peak - chars') > 15 * peak
      BY <1>2, <3>3
    <3> QED BY <1>2, <2>2, <3>1, <3>2, <3>4 DEF Regressed, MuchShorter
  <2>3. LossIsFlagged'
    <3>1. MuchShorter(chars, whole)' = MuchShorter(chars', whole)
      BY <2>1 DEF MuchShorter
    <3>2. chars' > 0 \/ chars' = 0
      BY <1>2
    <3> QED BY <2>1, <2>2, <3>1, <3>2 DEF LossIsFlagged
  <2> QED BY <2>1, <2>3 DEF PeakInv
<1>8. CASE Collapse
  <2>1. /\ pc # "done" /\ ~gen /\ faults < MaxFault
        /\ UNCHANGED <<pc, gen, whole, peak, by, chars, verdict, exit>>
    BY <1>8 DEF Collapse, Fault, result
  <2>2. faults = 0
    BY <1>2, <2>1
  <2>3. pc = "fast" => peak >= whole
    BY <1>2, <2>1, <2>2 DEF PeakInv
  <2> QED BY <1>2, <2>1, <2>3 DEF PeakInv, LossIsFlagged
<1>9. CASE UNCHANGED vars
  BY <1>4, <1>9 DEF vars, page, site, result, PeakInv, LossIsFlagged, MuchShorter
<1>10. CASE Fallback \/ LooksFinished \/ GrowthCheck \/ Nap \/ Cards \/ Css \/ VisionPoll
            \/ VisionError \/ TimesOut \/ FastGivesUp \/ StopCycle
  <2>1. pc' \notin {"fast", "mount", "done"} /\ peak' = peak
    BY <1>10 DEF Fallback, Round, LooksFinished, GrowthCheck, Nap, Cards, Css, VisionPoll,
                 VisionError, TimesOut, FastGivesUp, StopCycle, Return, Look
  <2>2. by = "none" /\ by' # "fast" /\ (pc' # "extract" => by' = by)
    BY <1>10 DEF Fallback, Round, LooksFinished, GrowthCheck, Nap, Cards, Css, VisionPoll,
                 VisionError, TimesOut, FastGivesUp, StopCycle, Return, Look, Stays, result,
                 PeakInv
  <2> QED BY <2>1, <2>2 DEF PeakInv, LossIsFlagged
<1> QED BY <1>5, <1>6, <1>7, <1>8, <1>9, <1>10 DEF Next, Detector

\* What is gone of an answer that the fast path found finished is flagged, for any
\* thresholds and lengths and one failed poll or loss (LossIsFlagged): by then its
\* peak is the whole answer.
THEOREM LossFlagged == ASSUME MaxFault <= 1 PROVE Spec => []LossIsFlagged
<1>1. Init => CutInv /\ PeakInv
  <2> SUFFICES ASSUME Init PROVE CutInv /\ PeakInv
    OBVIOUS
  <2>1. absent = Never /\ streak = 0 /\ faults = 0 /\ by = "none" /\ gen
    BY DEF Init
  <2>2. pc \in {"fast", "cards", "vision"}
    BY ModeAssumption DEF Init
  <2> QED BY <2>1, <2>2 DEF CutInv, NotCutOff, FastInv, SlowInv, ConfirmInv, VisionInv, Slow,
                            PeakInv, LossIsFlagged
<1>2. TypeInv /\ TypeInv' /\ CutInv /\ [Next]_vars => CutInv'
  BY CutNext DEF OneMisreading
<1>3. TypeInv /\ TypeInv' /\ CutInv /\ CutInv' /\ PeakInv /\ [Next]_vars => PeakInv'
  BY PeakNext
<1>4. PeakInv => LossIsFlagged
  BY DEF PeakInv
<1> QED BY <1>1, <1>2, <1>3, <1>4, TypeCorrect, PTL DEF Spec

------------------------------------------------------------------------------
(* SessionKeeper *)

\* What the operators on cookies do to their age.
LEMMA AgeTypes ==
    ASSUME NEW c \in Cookies
    PROVE  /\ Aged(c) \in Cookies /\ Kept(c) \in {Fresh, Low, Absent}
           /\ Issued(c) \subseteq Cookies /\ \A d \in Issued(c) : Valid(d)
           /\ \A d \in Cookies : Inject(d) \in Cookies \cup {live}
BY DEF Cookies, Aged, Kept, Issued, Inject, Valid, Fresh, Low, Imminent, Expired, Absent

\* The ages are numbers, Torn is none of them.
LEMMA CookieSet ==
    /\ Cookies = {Fresh, Low, Imminent, Expired, Absent} /\ Torn \notin Cookies
    /\ ~Valid(Torn) /\ Kept(Torn) = Absent /\ Issued(Torn) = {Fresh}
BY DEF Cookies, Kept, Valid, Issued, Fresh, Low, Imminent, Expired, Absent, Torn

\* A keeper has not called main_loop before it has written its pid
TriesInv == \A k \in Keeper : kpc[k] \in {"idle", "check", "pid"} => tries[k] = 0

KeeperTypeInv == KeeperTypeOK /\ TriesInv

\* Every step keeps the types.
LEMMA KeeperTypeStep ==
    ASSUME KeeperTypeInv, [KeeperNext]_keeperVars
    PROVE  KeeperTypeInv'
<1> USE TaskAssumption, BoundAssumption DEF KeeperTypeInv, KeeperTypeOK, TriesInv, Steady,
        Mishap, Goto, CGoto, files, browser, keepers, councils, stopper, Busy, Steps, Refresh
<1>a. \A c \in Cookies : Aged(c) \in Cookies /\ Kept(c) \in Cookies /\ Issued(c) \subseteq Cookies
      BY AgeTypes, CookieSet
<1>b. Issued(Torn) \subseteq Cookies /\ Kept(Torn) \in Cookies
      BY CookieSet
<1>i. \A c \in Cookies : Inject(c) \in Cookies
      BY AgeTypes
<1>c. /\ Absent \in Cookies /\ Torn \notin Cookies
      BY CookieSet
<1>1. ASSUME NEW k \in Keeper, Start(k) \/ Check(k) \/ Probe(k) \/ Verify(k) \/ Publish(k)
      PROVE  KeeperTypeInv'
  <2>1. CASE Start(k) \/ Publish(k)
        BY <2>1, ZenonT(30) DEF Start, Publish
  <2>3. CASE Probe(k) \/ Verify(k)
    <3>1. PICK l \in {"again", "launch", "connect", "leave"} : kpc' = [kpc EXCEPT ![k] = l]
          BY <2>3 DEF Probe, Verify
    <3> QED BY <2>3, <3>1 DEF Probe, Verify
  <2>2. CASE Check(k)
        BY <2>2 DEF Check
  <2> QED BY <1>1, <2>1, <2>2, <2>3
<1>2. ASSUME NEW k \in Keeper, WritePid(k) \/ Retry(k)
      PROVE  KeeperTypeInv'
      BY <1>2, <1>a, <1>c DEF WritePid, Retry
<1>3. ASSUME NEW k \in Keeper, Leave(k) \/ Killed(k)
      PROVE  KeeperTypeInv'
      BY <1>3, <1>a, <1>c DEF Leave, Gone, Killed, Vacated
<1>4. ASSUME NEW k \in Keeper, ReadSession(k) \/ Capture(k)
      PROVE  KeeperTypeInv'
      BY <1>4, <1>a, <1>c DEF ReadSession, Capture
<1>5. ASSUME NEW k \in Keeper, Launch(k) \/ Await(k)
      PROVE  KeeperTypeInv'
      BY <1>5, <1>a, <1>c DEF Launch, Replaced, Await
<1>6. ASSUME NEW k \in Keeper, Connect(k)
      PROVE  KeeperTypeInv'
      BY <1>6, <1>i DEF Connect
<1>7. ASSUME NEW k \in Keeper, Warm(k)
      PROVE  KeeperTypeInv'
      BY <1>7, <1>a, <1>c DEF Warm
<1>8. ASSUME NEW k \in Keeper, TruncateFile(k) \/ WriteFile(k)
      PROVE  KeeperTypeInv'
      BY <1>8, <1>a, <1>c DEF TruncateFile, Truncate, WriteFile, Write, Writing
<1>9. ASSUME StopReads \/ StopKills \/ StopClears
      PROVE  KeeperTypeInv'
      BY <1>9, <1>a, <1>c DEF StopReads, StopKills, Gone, Vacated, StopClears
<1>10. ASSUME StopSweeps \/ StopUnlinks
      PROVE  KeeperTypeInv'
      BY <1>10, <1>a, <1>c, ZenonT(30) DEF StopSweeps, Replaced, StopUnlinks
<1>11. ASSUME NEW c \in Council, Attach(c)
      PROVE  KeeperTypeInv'
  <2>1. /\ kpc' \in [Keeper -> Busy \cup {"idle"}] /\ UNCHANGED tries
        /\ \A k \in Keeper : kpc'[k] = kpc[k] \/ (kpc[k] = "idle" /\ kpc'[k] = "check")
        BY <1>11 DEF Attach, Trigger, Via
  <2>2. TriesInv'
        BY <2>1
  <2>3. /\ cpc' \in [Council -> Steps] /\ way' \in [Council -> {"attached", "launched",
          "cut"}]
        /\ bumped' \subseteq {d \in Council : cpc'[d] = "wait"} /\ cdp' \in BOOLEAN
        BY <1>11, ZenonT(30) DEF Attach, Via
  <2> QED BY <1>11, <2>1, <2>2, <2>3 DEF Attach
<1>12. ASSUME NEW c \in Council, Begin(c) \/ Summon(c) \/ Load(c) \/ Finish(c)
      PROVE  KeeperTypeInv'
      BY <1>12, <1>a, <1>c DEF Begin, Summon, Via, Load, Finish
<1>13. ASSUME NEW c \in Council, Guard(c) \/ WaitForBump(c)
      PROVE  KeeperTypeInv'
      BY <1>13, <1>a, <1>c DEF Guard, Trigger, Proceed, WaitForBump
<1>14. ASSUME NEW c \in Council, ReadCookies(c) \/ RefreshTimeout(c)
      PROVE  KeeperTypeInv'
      BY <1>14, <1>a, <1>c DEF ReadCookies, Proceed, RefreshTimeout
<1>15. ASSUME NEW c \in Council, Login(c)
      PROVE  KeeperTypeInv'
  <2>1. \A d \in Issued(got[c]) : Kept(d) \in Cookies
        BY <1>a, <1>b
  <2> QED BY <1>15, <2>1 DEF Login, Proceed
<1>16. ASSUME NEW c \in Council, TruncateCookies(c) \/ WriteCookies(c)
      PROVE  KeeperTypeInv'
      BY <1>16, <1>a, <1>c DEF TruncateCookies, Truncate, Proceed, WriteCookies, Write,
         Writing
<1>17. ASSUME Tick
      PROVE  KeeperTypeInv'
  <2>1. /\ file' \in Cookies \cup {Torn} /\ live' \in Cookies /\ held' \in [Keeper -> Cookies]
        BY <1>17, <1>a DEF Tick
  <2>2. \A c \in Council : Aged(got[c]) \in Cookies \cup {Torn}
        BY <1>a DEF Aged, Torn, Expired
  <2>3. got' \in [Council -> Cookies \cup {Torn}]
        BY <1>17, <2>2 DEF Tick
  <2> QED BY <1>17, <2>1, <2>3 DEF Tick
<1>18. ASSUME Serves \/ ChromeGone \/ LoginLost \/ LoginBack \/ TakenEnds
      PROVE  KeeperTypeInv'
  <2>1. CASE Serves \/ ChromeGone
        BY <2>1 DEF Serves, ChromeGone, Replaced
  <2>2. CASE LoginLost \/ LoginBack
    <3>1. login' \in BOOLEAN
          BY <2>2, Zenon DEF LoginLost, LoginBack
    <3>2. UNCHANGED <<files, pidFile, cdp, chrome, live, keepers, councils, stopper>>
          /\ mishaps' \in 0 .. MaxMishap
          BY <2>2 DEF LoginLost, LoginBack
    <3> QED BY <3>1, <3>2
  <2>3. CASE TakenEnds
        BY <2>3 DEF TakenEnds
  <2> QED BY <1>18, <2>1, <2>2, <2>3
<1>19. CASE UNCHANGED keeperVars
      BY <1>19 DEF keeperVars
<1> QED BY <1>1, <1>2, <1>3, <1>4, <1>5, <1>6, <1>7, <1>8, <1>9, <1>10, <1>11, <1>12, <1>13,
           <1>14, <1>15, <1>16, <1>17, <1>18, <1>19
    DEF KeeperNext, KeeperStep, CouncilStep, StopStep

\* The initial states have them.
LEMMA KeeperTypeInit == KeeperInit => KeeperTypeInv
<1> USE DEF KeeperTypeInv, KeeperTypeOK, TriesInv, Busy, Steps, Refresh
<1>1. {Fresh, Expired, Absent} \subseteq Cookies
      BY CookieSet
<1>2. 0 \in 0 .. MaxAttempts /\ 0 \in 0 .. MaxMishap
      BY BoundAssumption
<1>3. ASSUME KeeperInit
      PROVE  KeeperTypeOK /\ TriesInv
  <2>1. file \in Cookies \cup {Torn} /\ live \in Cookies /\ held \in [Keeper -> Cookies]
        /\ got \in [Council -> Cookies \cup {Torn}] /\ tries \in [Keeper -> 0 .. MaxAttempts]
        BY <1>1, <1>2, <1>3 DEF KeeperInit
  <2> QED BY <1>2, <1>3, <2>1 DEF KeeperInit
<1> QED BY <1>3

\* Every variable of SessionKeeper keeps its type, and no keeper is called more
\* than MaxAttempts times: one that has not entered main_loop has not counted.
THEOREM KeeperTypeCorrect == KeeperSpec => []KeeperTypeInv
<1>1. KeeperInit => KeeperTypeInv
      BY KeeperTypeInit
<1>2. KeeperTypeInv /\ [KeeperNext]_keeperVars => KeeperTypeInv'
      BY KeeperTypeStep
<1> QED BY <1>1, <1>2, PTL DEF KeeperSpec

Saved == {Fresh, Low, Absent}

\* What a writer is about to write has no dead cookies
WriterInv ==
    /\ \A k \in Keeper : kpc[k] \in {"truncate", "write"} => held[k] \in Saved
    /\ \A c \in Council : cpc[c] \in {"truncate", "write"} => got[c] \in Saved

\* Between the moment that the file moves and that at which the council loads
\* it, nothing ages
AfterBump(c) == c \in bumped \/ (cpc[c] = "load" /\ concluded[c] = "refreshed")
MovedInv == \A c \in Council : AfterBump(c) => file \in Saved \cup {Torn}

Using(c) == cpc[c] = "use" /\ concluded[c] = "refreshed"
LaunchedIsValid == \A c \in Council : Using(c) /\ way[c] = "launched" => got[c] # Expired

LoadInv == WriterInv /\ MovedInv /\ LaunchedIsValid

\* Every step keeps what a launched run relies on.
LEMMA LoadStep ==
    ASSUME KeeperTypeInv, LoadInv, [KeeperNext]_keeperVars
    PROVE  LoadInv'
<1> USE DEF LoadInv, WriterInv, MovedInv, LaunchedIsValid, AfterBump, Using, Goto, CGoto,
        Proceed,
        files, browser, keepers, councils, stopper
<1>t. /\ kpc \in [Keeper -> Busy \cup {"idle"}] /\ cpc \in [Council -> Steps]
      /\ held \in [Keeper -> Cookies] /\ got \in [Council -> Cookies \cup {Torn}]
      /\ way \in [Council -> {"attached", "launched", "cut"}]
      /\ concluded \in [Council -> {"none", "healthy", "refreshed", "stale"}]
      /\ live \in Cookies /\ bumped \subseteq {c \in Council : cpc[c] = "wait"}
      BY DEF KeeperTypeInv, KeeperTypeOK
<1>s. /\ \A c \in Cookies \cup {Torn} : Kept(c) \in Saved
      /\ \A c \in Cookies : \A d \in Issued(c) : Kept(d) \in Saved
      /\ \A d \in Issued(Torn) : Kept(d) \in Saved
      /\ Expired \notin Saved \cup {Torn}
      BY AgeTypes, CookieSet DEF Saved, Expired, Fresh, Low, Absent, Torn
<1>1. ASSUME NEW k \in Keeper, Start(k) \/ Check(k) \/ WritePid(k) \/ Retry(k) \/ Leave(k)
             \/ Killed(k)
      PROVE  LoadInv'
      BY <1>1, <1>t, <1>s DEF Start, Check, WritePid, Retry, Leave, Gone, Killed, Vacated
<1>2. ASSUME NEW k \in Keeper, ReadSession(k) \/ Probe(k) \/ Verify(k) \/ Publish(k) \/ Launch(k)
      PROVE  LoadInv'
      BY <1>2, <1>t, <1>s DEF ReadSession, Probe, Verify, Publish, Launch, Replaced
<1>3. ASSUME NEW k \in Keeper, Await(k) \/ Connect(k) \/ Warm(k) \/ Capture(k)
      PROVE  LoadInv'
      BY <1>3, <1>t, <1>s DEF Await, Connect, Warm, Capture
<1>4. ASSUME NEW k \in Keeper, TruncateFile(k) \/ WriteFile(k)
      PROVE  LoadInv'
      BY <1>4, <1>t, <1>s DEF TruncateFile, Truncate, WriteFile, Write, Writing
<1>5. ASSUME StopReads \/ StopKills \/ StopClears \/ StopSweeps \/ StopUnlinks
      PROVE  LoadInv'
      BY <1>5, <1>t, <1>s DEF StopReads, StopKills, Gone, Vacated, StopClears, StopSweeps, Replaced,
         StopUnlinks
<1>6. ASSUME NEW c \in Council, Begin(c) \/ Attach(c) \/ Summon(c) \/ Guard(c)
      PROVE  LoadInv'
      BY <1>6, <1>t, <1>s DEF Begin, Attach, Trigger, Via, Summon, Guard
<1>7. ASSUME NEW c \in Council, WaitForBump(c) \/ Load(c) \/ Finish(c)
      PROVE  LoadInv'
      BY <1>7, <1>t, <1>s DEF WaitForBump, Load, Finish
<1>8. ASSUME NEW c \in Council, ReadCookies(c) \/ Login(c) \/ RefreshTimeout(c)
      PROVE  LoadInv'
      BY <1>8, <1>t, <1>s DEF ReadCookies, Refresh, Login, RefreshTimeout
<1>9. ASSUME NEW c \in Council, TruncateCookies(c) \/ WriteCookies(c)
      PROVE  LoadInv'
      BY <1>9, <1>t, <1>s DEF TruncateCookies, Truncate, WriteCookies, Write, Writing
<1>10. ASSUME Tick \/ Serves \/ ChromeGone \/ LoginLost \/ LoginBack \/ TakenEnds
      PROVE  LoadInv'
      BY <1>10, <1>t, <1>s DEF Tick, Serves, ChromeGone, Replaced, LoginLost, LoginBack, TakenEnds
<1>11. CASE UNCHANGED keeperVars
      BY <1>11 DEF keeperVars
<1> QED BY <1>1, <1>2, <1>3, <1>4, <1>5, <1>6, <1>7, <1>8, <1>9, <1>10, <1>11
    DEF KeeperNext, KeeperStep, CouncilStep, StopStep

\* Initially nobody writes, waits or uses anything.
LEMMA LoadInit == KeeperInit => LoadInv
<1> USE DEF LoadInv, WriterInv, MovedInv, LaunchedIsValid, AfterBump, Using
<1> QED BY DEF KeeperInit

\* The invariant of the launched runs.
LEMMA LoadCorrect == KeeperSpec => []LoadInv
<1>1. KeeperTypeInv /\ LoadInv /\ [KeeperNext]_keeperVars => LoadInv'
      BY LoadStep
<1> QED BY <1>1, LoadInit, KeeperTypeCorrect, PTL DEF KeeperSpec

\* A run that has launched a Chrome of its own after its guard saw the session
\* file move does not load dead cookies from it (_ensure_fresh_session), however
\* many keepers and runs there are, and whoever of them wrote the file: none of
\* the writers saves a dead cookie.
THEOREM Loaded == KeeperSpec => []LaunchedIsValid
<1>1. LoadInv => LaunchedIsValid
      BY DEF LoadInv
<1> QED BY <1>1, LoadCorrect, PTL

\* No run's refresh_session.py writes the file while another run waits for it
\* to be written
Apart == \A c, d \in Council : c # d /\ cpc[c] = "wait" => cpc[d] \notin {"truncate", "write"}

\* A run is attached to a Chrome that is there
ChromeInv ==
    /\ \A c \in Council : way[c] = "attached" => chrome = "up"
    /\ \A c \in Council : cpc[c] \in {"refresh"} \cup Refresh => way[c] # "attached"

Relies(c) == c \in bumped \/ (cpc[c] = "load" /\ concluded[c] = "refreshed" /\ way[c] = "attached")

\* What the one keeper saves is what its Chrome has, and it injects nothing
\* dead before the runs it has woken have looked at it
KeeperInv ==
    /\ \A k \in Keeper : kpc[k] \in {"capture", "truncate", "write"} => Valid(live)
    /\ \A c \in Council : Relies(c) =>
          /\ Valid(live)
          /\ \A k \in Keeper : kpc[k] \in {"probe", "launch", "await",
             "again", "connect"} => held[k] \in Saved
    /\ \A c \in Council : Using(c) /\ way[c] # "launched" => Valid(got[c])

AttachInv == ChromeInv /\ KeeperInv

\* Every step keeps what an attached run relies on.
LEMMA AttachStep ==
    ASSUME Keeper = {Task}, KeeperTypeInv, LoadInv, AttachInv, Apart, [KeeperNext]_keeperVars
    PROVE  AttachInv'
<1> USE DEF AttachInv, ChromeInv, KeeperInv, Relies, Using, Goto, CGoto, Proceed,
        files, browser, keepers, councils, stopper
<1>t. /\ kpc \in [Keeper -> Busy \cup {"idle"}] /\ cpc \in [Council -> Steps]
      /\ held \in [Keeper -> Cookies] /\ got \in [Council -> Cookies \cup {Torn}]
      /\ way \in [Council -> {"attached", "launched", "cut"}]
      /\ concluded \in [Council -> {"none", "healthy", "refreshed", "stale"}]
      /\ live \in Cookies /\ bumped \subseteq {c \in Council : cpc[c] = "wait"}
      BY DEF KeeperTypeInv, KeeperTypeOK
<1>s. /\ \A c \in Cookies : \A d \in Issued(c) : Valid(d)
      /\ \A c \in Saved : Inject(c) = live \/ Valid(Inject(c))
      BY AgeTypes DEF Saved, Inject, Valid, Fresh, Low, Expired, Absent
<1>f. \A c \in Council : AfterBump(c) => file \in Saved \cup {Torn}
      BY DEF LoadInv, MovedInv
<1>r. \A c \in Council : Relies(c) => AfterBump(c)
      BY DEF AfterBump
<1>1. ASSUME NEW k \in Keeper, Start(k) \/ Check(k) \/ WritePid(k) \/ Retry(k) \/ Leave(k)
             \/ Killed(k)
      PROVE  AttachInv'
      BY <1>1, <1>t, <1>s, <1>f, <1>r DEF Start, Check, WritePid, Retry, Leave, Gone, Killed, Vacated
<1>2. ASSUME NEW k \in Keeper, ReadSession(k) \/ Probe(k) \/ Verify(k) \/ Publish(k)
      PROVE  AttachInv'
      BY <1>2, <1>t, <1>s, <1>f, <1>r DEF ReadSession, Probe, Verify, Publish
<1>3. ASSUME NEW k \in Keeper, Launch(k) \/ Await(k)
      PROVE  AttachInv'
      BY <1>3, <1>t, <1>s, <1>f, <1>r DEF Launch, Replaced, Await
<1>4. ASSUME NEW k \in Keeper, Connect(k) \/ Warm(k) \/ Capture(k)
      PROVE  AttachInv'
      BY <1>4, <1>t, <1>s, <1>f, <1>r DEF Connect, Warm, Capture
<1>5. ASSUME NEW k \in Keeper, TruncateFile(k) \/ WriteFile(k)
      PROVE  AttachInv'
      BY <1>5, <1>t, <1>s, <1>f, <1>r DEF TruncateFile, Truncate, WriteFile, Write, Writing
<1>6. ASSUME StopReads \/ StopKills \/ StopClears \/ StopSweeps \/ StopUnlinks
      PROVE  AttachInv'
      BY <1>6, <1>t, <1>s, <1>f, <1>r DEF StopReads, StopKills, Gone, Vacated, StopClears,
         StopSweeps, Replaced, StopUnlinks
<1>7. ASSUME NEW c \in Council, Begin(c) \/ Attach(c) \/ Summon(c)
      PROVE  AttachInv'
      BY <1>7, <1>t, <1>s, <1>f, <1>r DEF Begin, Refresh, Attach, Trigger, Via, Summon
<1>8. ASSUME NEW c \in Council, Guard(c) \/ WaitForBump(c)
      PROVE  AttachInv'
      BY <1>8, <1>t, <1>s, <1>f, <1>r DEF Guard, Trigger, Refresh, WaitForBump
<1>9. ASSUME NEW c \in Council, Load(c) \/ Finish(c)
      PROVE  AttachInv'
      BY <1>9, <1>t, <1>s, <1>f, <1>r DEF Load, Refresh, Finish
<1>10. ASSUME NEW c \in Council, ReadCookies(c) \/ Login(c) \/ RefreshTimeout(c)
      PROVE  AttachInv'
      BY <1>10, <1>t, <1>s, <1>f, <1>r DEF ReadCookies, Refresh, Login, RefreshTimeout
<1>11. ASSUME NEW c \in Council, TruncateCookies(c) \/ WriteCookies(c)
      PROVE  AttachInv'
      BY <1>11, <1>t, <1>s, <1>f, <1>r DEF TruncateCookies, Truncate, Refresh, Apart,
         WriteCookies, Write, Writing
<1>12. ASSUME Tick \/ Serves \/ ChromeGone \/ LoginLost \/ LoginBack \/ TakenEnds
      PROVE  AttachInv'
      BY <1>12, <1>t, <1>s, <1>f, <1>r DEF Tick, Serves, ChromeGone, Replaced, LoginLost, LoginBack, TakenEnds
<1>13. CASE UNCHANGED keeperVars
      BY <1>13 DEF keeperVars
<1> QED BY <1>1, <1>2, <1>3, <1>4, <1>5, <1>6, <1>7, <1>8, <1>9, <1>10, <1>11, <1>12, <1>13
    DEF KeeperNext, KeeperStep, CouncilStep, StopStep

\* Initially no run is attached, and no keeper runs.
LEMMA AttachInit == KeeperInit => AttachInv
BY DEF KeeperInit, AttachInv, ChromeInv, KeeperInv, Relies, Using, Refresh

\* With one keeper, and runs of which none writes the session file while another
\* waits for it, a run that goes on because the file moved has no dead cookies,
\* attached to the keeper's Chrome or not.  Without either it may have: README,
\* section 4.
THEOREM Refreshed ==
    ASSUME Keeper = {Task}
    PROVE  KeeperSpec /\ []Apart => []RefreshedIsValid
<1>1. KeeperTypeInv /\ LoadInv /\ AttachInv /\ Apart /\ [KeeperNext]_keeperVars => AttachInv'
      BY AttachStep
<1>2. KeeperTypeInv /\ LoadInv /\ AttachInv => RefreshedIsValid
      BY DEF KeeperTypeInv, KeeperTypeOK, LoadInv, LaunchedIsValid, AttachInv, KeeperInv,
         Using, RefreshedIsValid,
             Valid, Expired
<1> QED BY <1>1, <1>2, AttachInit, KeeperTypeCorrect, LoadCorrect, PTL DEF KeeperSpec

==============================================================================
