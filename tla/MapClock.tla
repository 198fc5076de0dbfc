------------------------------ MODULE MapClock ------------------------------
(***************************************************************************)
(* How a map's tick turns the time that has passed into fixed steps: at    *)
(* each tick the time since the last one, cut to MAX_FRAME_MS, goes into   *)
(* an accumulator, and a step is made for every DT_MS in it.  The time is  *)
(* the system's clock, which may be set back.                              *)
(***************************************************************************)
EXTENDS Integers

CONSTANT Times      \* what TimeMgr.GetMS may return at a tick

ASSUME TimesAssumption == Times \subseteq Nat

VARIABLES
    lastTickTimeMS,
    durationAccumulator,
    steps               \* fixed steps made so far

clock == <<lastTickTimeMS, durationAccumulator, steps>>

DT_MS == 50
MAX_FRAME_MS == 250

ClockTypeOK ==
    /\ lastTickTimeMS \in Times \cup {0}
    /\ durationAccumulator \in Int
    /\ steps \in Nat

ClockInit ==
    /\ lastTickTimeMS = 0
    /\ durationAccumulator = 0
    /\ steps = 0

\* The accumulator when the tick has added what has passed until timeMS.
Filled(timeMS) ==
    LET frameTime == timeMS - lastTickTimeMS IN
    durationAccumulator
      + IF frameTime > MAX_FRAME_MS THEN MAX_FRAME_MS ELSE frameTime

StepsDue(filled) == IF filled >= DT_MS THEN filled \div DT_MS ELSE 0

\* (faulty variant: a tick too short for a step does not note its time)
ClockTickKeeps(timeMS) ==
    LET due == StepsDue(Filled(timeMS)) IN
    /\ lastTickTimeMS' = IF due = 0 THEN lastTickTimeMS ELSE timeMS
    /\ durationAccumulator' = Filled(timeMS) - due * DT_MS
    /\ steps' = steps + due

ClockTick(timeMS) ==
    LET due == StepsDue(Filled(timeMS)) IN
    /\ lastTickTimeMS' = timeMS
    /\ durationAccumulator' = Filled(timeMS) - due * DT_MS
    /\ steps' = steps + due

ClockSpec == ClockInit /\ [][\E timeMS \in Times : ClockTick(timeMS)]_clock

\* The map is never ahead of the clock, not even after the clock was set back
\* and has caught up, and after a tick no step is due: the simulated time and
\* the remainder are at most what the clock showed at the last tick.
NeverAhead ==
    /\ durationAccumulator < DT_MS
    /\ steps * DT_MS + durationAccumulator <= lastTickTimeMS
=============================================================================
