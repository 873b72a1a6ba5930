------------------------------ MODULE CpuClock ------------------------------
(***************************************************************************)
(* src/CpuClock/source/CpuClock.cpp: slows the thread that executes the    *)
(* instructions down to the speed of the emulated cpu, by sleeping and     *)
(* spinning whenever a resolution's worth of ticks has accumulated.        *)
(*                                                                         *)
(* now is the host's steady clock, in nanoseconds of some scale.  The host *)
(* delays the thread by any amount of Delay at every point where it may.   *)
(***************************************************************************)
EXTENDS Integers

CONSTANTS
  TimePeriod,    \* timePeriod_, nanoseconds of one tick
  MaxResolution, \* maxResolution_ of the host's clock
  Sleepable,     \* one millisecond, the shortest time worth a sleep
  Delay          \* how late the host may be

ASSUME CpuClockAssumption ==
  /\ TimePeriod \in Nat \ {0} /\ MaxResolution \in Nat /\ Sleepable \in Nat \ {0}
  /\ Delay \subseteq Nat /\ Delay # {}

VARIABLES
  now,        \* the host's steady clock
  epoch,      \* epoch_
  lastTime,   \* lastTime_
  totalTicks, \* totalTicks_, -1 when the clock does not synchronise
  tickCount,  \* tickCount_
  error,      \* error_
  time,       \* time_, what Tick returns
  \* What nothing but the properties read, all of it since the last Reset:
  lost,       \* time the host took between two readings of its clock
  measured,   \* has time_ been set
  heldTicks,  \* the value that tickCount_ had
  heldError   \* the value that error_ had

history == <<lost, measured, heldTicks, heldError>>
clock == <<now, epoch, lastTime, totalTicks, tickCount, error, time, history>>

ClockInit ==
  /\ now = 0 /\ epoch = 0 /\ lastTime = 0
  /\ totalTicks = -1 /\ tickCount = 0 /\ error = 0 /\ time = 0
  /\ lost = 0 /\ measured = FALSE /\ heldTicks = 0 /\ heldError = 0

\* What SetTickResolution reports, by reference, and returns.
ResolutionInTicks(resolution) ==
  IF resolution >= 0 THEN resolution \div TimePeriod ELSE -1

ResolutionError(resolution) ==
  IF resolution >= 0 /\ resolution < MaxResolution THEN "ClockResolution"
                                                   ELSE "NoError"

SetTickResolution(resolution) == totalTicks' = ResolutionInTicks(resolution)

\* Reset begins a new epoch; tickCount_, error_ and time_ keep their values.
Reset ==
  /\ epoch' = now /\ lastTime' = now
  /\ lost' = 0 /\ measured' = FALSE
  /\ heldTicks' = tickCount /\ heldError' = error
  /\ UNCHANGED <<now, tickCount, error, time>>

\* A sleep asks for 70 per cent of the time; the host may oversleep, and a
\* signal may end it at once.
Slept(due) ==
  IF due >= Sleepable THEN {0} \cup {((7 * due) \div 10) + d : d \in Delay} ELSE {0}

\* Mutant: what a spin overshoots, or a late host, is not made up for.
ErrorForgotten(left, over) == 0

\* spinFor: what the next synchronisation has to make up.
ErrorLeft(left, over) == IF left > 0 THEN -over ELSE left

Spun(left, over) == IF left > 0 THEN left + over ELSE 0

\* Enough ticks have accumulated: wait until the host's clock has caught up.
Synchronise(ticks) ==
  \E late, over, gap \in Delay :
    LET due == ((tickCount + ticks) * TimePeriod) - (now + late - lastTime) + error
    IN \E slept \in Slept(due) :
         LET left == due - slept
         IN /\ error' = ErrorLeft(left, over)
            /\ now' = now + late + slept + Spun(left, over) + gap
            /\ lost' = lost + gap
            /\ lastTime' = now' /\ time' = now' - epoch /\ measured' = TRUE
            /\ tickCount' = 0

\* Mutant: the resolution is taken off before it is reached.
AccumulateRemainder(ticks) ==
  /\ tickCount' = tickCount + ticks - totalTicks
  /\ \E late \in Delay : now' = now + late
  /\ UNCHANGED <<lastTime, error, time, lost, measured>>

Accumulate(ticks) ==
  /\ tickCount' = tickCount + ticks
  /\ \E late \in Delay : now' = now + late
  /\ UNCHANGED <<lastTime, error, time, lost, measured>>


\* Mutant: the time since the last instruction.
RunFreeDelta ==
  /\ \E late \in Delay : now' = now + late
  /\ lastTime' = now' /\ time' = now' - lastTime /\ measured' = TRUE
  /\ UNCHANGED <<tickCount, error, lost>>

\* No synchronisation: only the time is taken.
RunFree ==
  /\ \E late \in Delay : now' = now + late
  /\ lastTime' = now' /\ time' = now' - epoch /\ measured' = TRUE
  /\ UNCHANGED <<tickCount, error, lost>>

\* Mutant: one tick early.
DueEarly(ticks) == tickCount + ticks + 1 >= totalTicks

Due(ticks) == tickCount + ticks >= totalTicks

Tick(ticks) ==
  /\ UNCHANGED <<epoch, totalTicks, heldTicks, heldError>>
  /\ \/ totalTicks < 0 /\ RunFree
     \/ totalTicks >= 0 /\ Due(ticks) /\ Synchronise(ticks)
     \/ totalTicks >= 0 /\ ~Due(ticks) /\ Accumulate(ticks)
=============================================================================
