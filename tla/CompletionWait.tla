--------------------------- MODULE CompletionWait ---------------------------
(***************************************************************************)
(* How council_browser.py decides that Perplexity has finished an answer,  *)
(* and what it records of it: wait_for_completion with the detectors of    *)
(* its modes, extract_results, and the record _run_impl emits.             *)
(*                                                                         *)
(* The page is external: it streams an answer with pauses, shows a stop    *)
(* button that flickers while it streams, and is read by polls that may    *)
(* fail.  A tick of the clock is one sleep of a polling loop; a detector's *)
(* step is a poll and the sleep before or after it, during which the page  *)
(* goes on.                                                                *)
(***************************************************************************)
EXTENDS Integers, FiniteSetsExt

CONSTANTS
    Modes,        \* those of research, css (council) and vision (council) to run
    Lengths,      \* bound: the lengths an answer may have
    Asks,         \* what else <main> shows, the question; 0 if nothing
    Short,        \* min_chars of the fast path: 10 characters
    Prose,        \* 50 characters: up to here <main> is read
    LeastPeak,    \* 100 characters, the least peak _validate_result uses
    Mounted,      \* 200 characters
    Substantial,  \* 2500 characters
    DomText,      \* dom_min_text: 3000 characters
    FastStable, Debounce, NoGrowth, FastMax,   \* the fast path: 3, 3, 30, 60 s
    Appear,       \* 30 s from the start for the stop button to appear
    MountWait,    \* 20 s
    MinElapsed, SlowStable, Confirm,           \* the fallback: 120, 120, 30 s
    PhaseA, CssStable,                         \* council mode: 90 s, 8 s
    Timeout,      \* the caller's limit
    Pauses,       \* the page: how long a stream may pause, 60 to 120 s
    Flicker,      \* the page: ticks without the stop button in it, at most
    MaxFault      \* bound: polls that fail or are misread, texts that collapse

ASSUME ModeAssumption == Modes \subseteq {"research", "css", "vision"}
ASSUME TickAssumption ==
    {FastStable, Debounce, NoGrowth, FastMax, Appear, MountWait, MinElapsed, SlowStable,
     Confirm, PhaseA, CssStable, Timeout, Flicker, MaxFault} \cup Pauses \subseteq Nat
ASSUME LengthAssumption ==
    /\ Lengths \cup Asks \cup {Short, Prose, LeastPeak, Mounted, Substantial, DomText}
           \subseteq Nat
    /\ 0 \in Lengths /\ 0 < Short /\ 0 < DomText
\* The three clocks all start with wait_for_completion
ASSUME ClockAssumption == Appear <= NoGrowth /\ NoGrowth < FastMax
\* What the debounce was chosen for.  There is none like it for the pauses: they
\* outlast some of the windows.
ASSUME FlickerAssumption == (MaxFault + 1) * Flicker + MaxFault <= Debounce

Never == -1

VARIABLES
    mode,
    pc,         \* the detector at work
    now,        \* ticks since wait_for_completion was called
    \* the page
    pause,      \* how long its stream pauses at most
    asked,      \* what else <main> shows
    gen,        \* the answer is being generated
    len,        \* its length
    trail,      \* nothing but the reasoning trail is shown
    button,     \* the stop button is shown
    quiet,      \* ticks without growth
    hidden,     \* ticks without the stop button
    ended,      \* when the generation ended
    whole,      \* what there was to read then
    late,       \* there was still no answer after NoGrowth
    \* the detectors
    last,       \* last_len, last_content, prev_len
    since,      \* stable_since
    absent,     \* stop_absent_since
    peak,       \* _peak_prose_chars
    seen,       \* seen_synthesizing
    streak,     \* consecutive_complete
    \* the result
    by,         \* what made wait_for_completion return True
    chars,      \* the length of the extracted text
    verdict,    \* result_validation
    exit,       \* exit_reason
    faults      \* how much of the bound is used

site == <<pause, asked>>
page == <<gen, len, trail, button, quiet, hidden, ended, whole, late>>
timers == <<last, since, absent>>
vision == <<seen, streak>>
result == <<by, chars, verdict, exit>>
vars == <<mode, pc, now, site, page, timers, peak, vision, result, faults>>

Init ==
    /\ mode \in Modes
    /\ pc = [research |-> "fast", css |-> "cards", vision |-> "vision"][mode]
    /\ now = 0
    /\ pause \in Pauses
    /\ asked \in IF mode = "research" THEN Asks ELSE {0}
    /\ gen = TRUE /\ len = 0 /\ trail \in BOOLEAN
    /\ button \in BOOLEAN /\ quiet = 0 /\ hidden = 0
    /\ ended = Never /\ whole = 0 /\ late = FALSE
    /\ last = 0 /\ since = Never /\ absent = Never /\ peak = 0
    /\ seen = FALSE /\ streak = 0
    /\ by = "none" /\ chars = 0 /\ verdict = "ok" /\ exit = "none"
    /\ faults = 0

------------------------------------------------------------------------------
(* The page during a sleep *)

\* What the fast path and the extraction read of an answer of n characters: the
\* longest .prose element, or, up to Prose, all of <main>.  _get_text_length and
\* council mode's selectors read the element of the answer alone.
Reading(n) == IF n > Prose \/ asked = 0 THEN n ELSE asked + n

\* Every wait has ended by the horizon: the growth checks may outlast the
\* time-out.  The clock stops there.
Horizon == Timeout + Confirm

Ticks == now' = Min({now + 1, Horizon})

Streams ==
    /\ gen /\ UNCHANGED <<gen, ended, whole>>
    /\ len' \in Lengths /\ len' >= len
    /\ trail' \in (IF len' > len THEN {trail, FALSE} ELSE {trail})
    /\ quiet' = (IF len' > len THEN 0 ELSE quiet + 1) /\ quiet' <= pause
    /\ button' \in BOOLEAN
    /\ hidden' = (IF button' THEN 0 ELSE hidden + 1) /\ hidden' <= Flicker
    /\ late' = (late \/ (now' > NoGrowth /\ len' = 0))

Ends ==
    /\ gen /\ gen' = FALSE /\ ended' = now' /\ whole' = Reading(len)
    /\ button' = FALSE /\ hidden' = 0 /\ quiet' = 0
    /\ UNCHANGED <<len, trail, late>>

Rests == ~gen /\ UNCHANGED page

Sleep == Ticks /\ (Streams \/ Ends \/ Rests)

\* page.evaluate raises: the poll sees nothing
Fault == faults < MaxFault /\ faults' = faults + 1
Works == UNCHANGED faults

\* A finished answer loses some of its text, with the collapsed trail or a
\* re-rendered page
Collapse ==
    /\ pc # "done" /\ ~gen /\ Fault
    /\ len' \in Lengths \ {0} /\ len' < len
    /\ UNCHANGED <<mode, pc, now, site, gen, trail, button, quiet, hidden, ended, whole, late>>
    /\ UNCHANGED <<timers, peak, vision, result>>

Return(detector) == pc' = "extract" /\ by' = detector
Stays == UNCHANGED by
RestOfResult == UNCHANGED <<mode, site, chars, verdict, exit>>

------------------------------------------------------------------------------
(* research and labs: _wait_research_smart *)

\* Mutant of StopGone: no look at the button, only the content's rest
AlwaysGone(probe) == TRUE

\* _stop_button_present, which takes a failed probe for an absent button
StopGone(probe) == ~probe

\* The text is at rest: the stop button has to be absent for Debounce too
Debounced(probe) ==
    \/ /\ ~StopGone(probe)
       /\ absent' = Never /\ UNCHANGED <<pc, since>>
    \/ /\ StopGone(probe) /\ absent = Never
       /\ absent' = now' /\ UNCHANGED <<pc, since>>
    \/ /\ StopGone(probe) /\ absent # Never /\ now' - absent < Debounce
       /\ UNCHANGED <<pc, since, absent>>
    \/ /\ StopGone(probe) /\ absent # Never /\ now' - absent >= Debounce
       /\ pc' = "mount" /\ since' = now' + MountWait /\ UNCHANGED absent

\* _wait_content_stability: one poll, after its sleep.  cur is what the poll
\* read, probe whether it saw the stop button.
FastPoll ==
    /\ pc = "fast" /\ now < FastMax
    /\ Sleep
    /\ \E cur \in {Reading(len'), 0}, probe \in {button', FALSE} :
        /\ IF cur = Reading(len') /\ probe = button' THEN Works ELSE Fault
        /\ peak' = Max({peak, cur})
        /\ \/ \* NO_GROWTH
              /\ cur = 0 /\ now' > NoGrowth
              /\ pc' = "appear" /\ UNCHANGED timers
           \/ /\ ~(cur = 0 /\ now' > NoGrowth) /\ cur # last
              /\ last' = cur /\ since' = Never /\ absent' = Never
              /\ UNCHANGED pc
           \/ /\ ~(cur = 0 /\ now' > NoGrowth) /\ cur = last
              /\ UNCHANGED last
              /\ \/ /\ cur < Short \/ (since # Never /\ now' - since < FastStable)
                    /\ UNCHANGED <<pc, since, absent>>
                 \/ /\ cur >= Short /\ since = Never
                    /\ since' = now' /\ UNCHANGED <<pc, absent>>
                 \/ /\ cur >= Short /\ since # Never /\ now' - since >= FastStable
                    /\ Debounced(probe)
    /\ Stays /\ RestOfResult /\ UNCHANGED vision

\* GROWING: still changing at the end of the fast path
FastGivesUp ==
    /\ pc = "fast" /\ now >= FastMax
    /\ pc' = "appear"
    /\ UNCHANGED <<mode, now, site, page, timers, peak, vision, result, faults>>

\* STABLE: wait for the synthesis to mount, and go on without it.  The first
\* .prose element is looked at, which may be another than the longest.
Mount ==
    /\ pc = "mount"
    /\ \/ /\ len > Mounted \/ now >= since
          /\ Return("fast") /\ UNCHANGED <<now, page>>
       \/ now < since /\ Sleep /\ UNCHANGED <<pc, by>>
    /\ RestOfResult /\ Works /\ UNCHANGED <<timers, peak, vision>>

\* _wait_for_stop_button_cycle: its 30 s for the button to appear began with
\* the fast path and are over (ClockAssumption), so that it never looks and
\* returns False at once; what would follow a True is not reached
StopCycle ==
    /\ pc = "appear" /\ now >= Appear
    /\ pc' = "fallback" /\ last' = 0 /\ since' = now
    /\ UNCHANGED <<mode, now, site, page, absent, peak, vision, result, faults>>

------------------------------------------------------------------------------
(* _wait_research_fallback *)

\* Mutant of Settled: the two guards one after the other
SettledLate(cur, from) == cur >= DomText /\ now - from >= MinElapsed + SlowStable

\* Layers 2 and 3 of a round, cur being what _get_text_length returned, 0 if
\* it failed
Settled(cur, from) == now >= MinElapsed /\ cur >= DomText /\ now - from >= SlowStable

Round(cur) ==
    LET from == IF cur # last THEN now ELSE since IN
    /\ last' = cur /\ since' = from
    /\ IF Settled(cur, from)
          THEN Return("text") /\ UNCHANGED <<now, page>>
          ELSE Sleep /\ UNCHANGED <<pc, by>>

Fallback ==
    /\ pc = "fallback" /\ now < Timeout
    /\ \E cur \in {len, 0} : (IF cur = len THEN Works ELSE Fault) /\ Round(cur)
    /\ RestOfResult /\ UNCHANGED <<absent, peak, vision>>

\* Layer 1: the page looks finished.  Whether it shows sources and action
\* buttons is up to the page, even while it streams; the streaming marks and
\* the stop button may not be shown.  absent: the end of the growth checks
LooksFinished ==
    /\ pc = "fallback" /\ MinElapsed <= now /\ now < Timeout
    /\ len >= DomText /\ ~button
    /\ pc' = "confirm" /\ absent' = now + Confirm
    /\ UNCHANGED <<mode, now, site, page, last, since, peak, vision, result, faults>>

Grew(cur) == cur # len

\* The growth checks, one per tick.  Without growth the answer is complete.
GrowthCheck ==
    /\ pc = "confirm"
    /\ Sleep
    /\ \E cur \in {len', 0} :
        /\ IF cur = len' THEN Works ELSE Fault
        /\ \/ Grew(cur) /\ pc' = "nap" /\ since' = now' /\ last' = cur /\ Stays
           \/ ~Grew(cur) /\ now' < absent /\ UNCHANGED <<pc, since, last>> /\ Stays
           \/ ~Grew(cur) /\ now' >= absent /\ Return("dom") /\ UNCHANGED <<since, last>>
    /\ RestOfResult /\ UNCHANGED <<absent, peak, vision>>

\* The sleep at the end of a round
Nap ==
    /\ pc = "nap" /\ Sleep /\ pc' = "fallback"
    /\ Stays /\ RestOfResult /\ Works /\ UNCHANGED <<timers, peak, vision>>

------------------------------------------------------------------------------
(* Council mode *)

\* _wait_css_fallback, Phase A: three finished model cards, or PhaseA
Cards ==
    /\ pc = "cards"
    /\ \/ now < PhaseA /\ Sleep /\ UNCHANGED <<pc, last, since>>
       \/ pc' = "css" /\ last' = 0 /\ since' = now /\ UNCHANGED <<now, page>>
    /\ Stays /\ RestOfResult /\ Works /\ UNCHANGED <<absent, peak, vision>>

\* Phase B: the synthesis has not changed for CssStable.  A failed poll changes
\* nothing.
Css ==
    /\ pc = "css" /\ now < Timeout
    /\ \/ /\ len > 0 /\ len = last /\ Works /\ UNCHANGED <<last, since>>
          /\ IF now - since >= CssStable
                THEN Return("css") /\ UNCHANGED <<now, page>>
                ELSE Sleep /\ UNCHANGED <<pc, by>>
       \/ /\ len = 0 \/ len # last
          /\ last' = len /\ since' = now
          /\ Works /\ Sleep /\ UNCHANGED <<pc, by>>
       \/ Fault /\ Sleep /\ UNCHANGED <<pc, last, since, by>>
    /\ RestOfResult /\ UNCHANGED <<absent, peak, vision>>

PageState == IF ~gen THEN "complete" ELSE IF len > 0 THEN "synthesizing" ELSE "generating"

\* consecutive_complete
Enough == streak' >= 2

\* What _wait_vision makes of a screenshot's page_state
Look(state) ==
    /\ seen' = (seen \/ state \in {"synthesizing", "complete"})
    /\ streak' = IF state = "complete" THEN (IF seen THEN streak + 1 ELSE streak) ELSE 0
    /\ IF state = "complete" /\ seen /\ Enough
          THEN Return("vision") /\ UNCHANGED <<now, page>>
          ELSE Sleep /\ UNCHANGED <<pc, by>>

\* The screenshot is read right, or misread as complete, or not at all
VisionPoll ==
    /\ pc = "vision" /\ now < Timeout
    /\ \/ Works /\ Look(PageState)
       \/ Fault /\ gen /\ Look("complete")
       \/ Fault /\ Sleep /\ UNCHANGED <<pc, vision, by>>
    /\ RestOfResult /\ UNCHANGED <<timers, peak>>

\* page_state error ends the wait
VisionError ==
    /\ pc = "vision" /\ now < Timeout /\ Fault
    /\ Return("none")
    /\ RestOfResult /\ UNCHANGED <<now, page, timers, peak, vision>>

Over == now >= Timeout

TimesOut ==
    /\ pc \in {"fallback", "css", "vision"} /\ Over
    /\ Return("none")
    /\ RestOfResult /\ UNCHANGED <<now, page, timers, peak, vision, faults>>

------------------------------------------------------------------------------
(* extract_results, and the record *)

\* _is_reasoning_trail_only
TrailOnly(text) == text = 0 \/ (trail /\ len > 0 /\ text < Substantial)

\* n is more than 15 % shorter than m
MuchShorter(n, m) == 100 * (m - n) > 15 * m

\* Mutant of Regressed: the peak is compared on long answers only
RegressedLong(n) == n >= Substantial /\ peak >= LeastPeak /\ MuchShorter(n, peak)

\* _validate_result (d)
Regressed(n) == n < Substantial /\ peak >= LeastPeak /\ MuchShorter(n, peak)

\* A read that fails leaves the synthesis empty.  cut: the text ends in an open
\* fence or a dangling token, as one taken from a stream may.  What the wait
\* returned is not looked at.
Extract ==
    /\ pc = "extract" /\ pc' = "done"
    /\ \E text \in {Reading(len), 0}, cut \in BOOLEAN :
        /\ IF text = Reading(len) THEN Works ELSE Fault
        /\ cut => gen
        /\ chars' = IF TrailOnly(text) THEN 0 ELSE text
        /\ verdict' = IF chars' > 0 /\ (Regressed(chars') \/ cut)
                         THEN "suspect_truncated" ELSE "ok"
        /\ exit' = IF chars' = 0 THEN "empty_synthesis" ELSE "completed"
    /\ UNCHANGED <<mode, now, site, page, timers, peak, vision, by>>

------------------------------------------------------------------------------

Detector ==
    \/ FastPoll \/ FastGivesUp \/ Mount \/ StopCycle
    \/ Fallback \/ LooksFinished \/ GrowthCheck \/ Nap
    \/ Cards \/ Css \/ VisionPoll \/ VisionError \/ TimesOut \/ Extract

Next == Detector \/ Collapse

Spec == Init /\ [][Next]_vars
\* The event loop always comes back to the one coroutine that waits
FairSpec == Spec /\ WF_vars(Detector)

------------------------------------------------------------------------------

Location == {"fast", "mount", "appear", "fallback", "confirm", "nap", "cards",
             "css", "vision", "extract", "done"}

TypeOK ==
    /\ mode \in Modes /\ pc \in Location /\ now \in 0 .. Horizon
    /\ pause \in Pauses /\ asked \in Asks \cup {0}
    /\ gen \in BOOLEAN /\ len \in Lengths /\ trail \in BOOLEAN /\ button \in BOOLEAN
    /\ quiet \in 0 .. pause /\ hidden \in 0 .. Flicker /\ ended \in Never .. Horizon
    /\ whole \in Nat /\ late \in BOOLEAN
    /\ last \in Nat /\ since \in Int /\ absent \in Int /\ peak \in Nat
    /\ seen \in BOOLEAN /\ streak \in 0 .. 2
    /\ by \in {"none", "fast", "text", "dom", "css", "vision"} /\ chars \in Nat
    /\ verdict \in {"ok", "suspect_truncated"}
    /\ exit \in {"none", "completed", "empty_synthesis"}
    /\ faults \in 0 .. MaxFault

\* An answer that is called complete while it is still being streamed has paused
\* for longer than the window of the detector that said so: the 30 s of the
\* growth checks, the 120 s of the text's stability, the 8 s of council mode.
\* The fast path never does it, whatever the pauses, as long as the button does
\* not hide for longer than the debounce, whichever polls fail within MaxFault;
\* nor does vision mode, with one screenshot misread: it believes two in a row.
NotCutOff ==
    by # "none" /\ gen =>
        \/ by = "dom" /\ Confirm <= pause
        \/ by = "text" /\ SlowStable <= pause
        \/ by = "css" /\ CssStable <= pause

\* Every wait ends.  An answer that has stopped in time to be seen at rest is then
\* recognised as complete: by the fast path, if there was something to read before
\* NoGrowth, by the slow detector only from DomText characters on, and by council
\* mode's.  The guards against cutting off do not make a finished run time out.
SeenAtRest ==
    /\ faults = 0 /\ ended # Never
    /\ \/ /\ mode = "research" /\ Reading(len) >= Short /\ (asked > 0 \/ ~late)
          /\ ended + FastStable + Debounce + 3 <= FastMax
       \/ /\ mode = "research" /\ len >= DomText
          /\ Max({ended, FastMax, MinElapsed}) + SlowStable + 3 <= Timeout
       \/ mode = "css" /\ len > 0 /\ Max({ended, PhaseA}) + CssStable + 2 <= Timeout
       \/ mode = "vision" /\ ended + 3 <= Timeout
AnswerRecognised == <>(pc = "done" /\ (SeenAtRest => by # "none"))

\* Of an answer that the fast path found finished, more than 15 % are gone when it
\* is extracted, 20 s of waiting for the mount later: the record says so, unless
\* what is left is substantial.  It takes that the fast path saw the answer at its
\* full length before it let it pass, with a poll failed or the text collapsed.
LossIsFlagged ==
    pc = "done" /\ by = "fast" /\ whole >= LeastPeak
    /\ chars < Substantial /\ MuchShorter(chars, whole)
        => verdict = "suspect_truncated" \/ exit = "empty_synthesis"

------------------------------------------------------------------------------
(* Statements of the code's comments that do not hold: README, section 4 *)

\* "must exceed longest inter-section pause", "LONGER than the longest Perplexity
\* "thinking" pause to avoid declaring completion during an inter-section pause".
NoHalfAnswer == by # "none" => ~gen

\* "catches ultra-short research-mode queries whose answer is rendered before the
\* stop button becomes visible": but not after NoGrowth.
ShortAnswerRecognised ==
    <>(pc = "done" /\ (/\ mode = "research" /\ faults = 0 /\ ended # Never /\ len >= Short
                       /\ ended + FastStable + Debounce + 3 <= FastMax
                       => by # "none"))

\* "so a plausible-but-incomplete answer is never silently stored as valid".
NotSilent == pc = "done" /\ exit = "completed" /\ verdict = "ok" => ~gen

\* "a false 'suspect' on a valid answer is worse than missing a rare truncation".
NoFalseAlarm == pc = "done" /\ ~gen /\ faults = 0 => verdict = "ok"

\* "Returns False if the stop button never appeared within 30s": a research run
\* goes to the fallback only without a stop button on the page.
StopButtonTried == [][pc = "appear" /\ pc' = "fallback" => ~button]_vars
==============================================================================
