------------------------------- MODULE Pacing -------------------------------
(***************************************************************************)
(* How a Machine drives its clock and decides when to ask the io           *)
(* controller for interrupts (Machine.cpp: SetClockResolution, the tick    *)
(* accounting of Run's loop, and what Run returns).                        *)
(***************************************************************************)
EXTENDS CpuClock

CONSTANTS
  Resolutions, \* settings of clockResolution, in nanoseconds, or -1
  IsrFreqs,    \* settings of isrFreq, in halves
  Periods,     \* time periods an instruction may take
  MaxRuns,     \* bound: how often the machine is run
  MaxTicks     \* bound: ticks executed per run

ASSUME PacingAssumption ==
  /\ Resolutions \subseteq Nat \cup {-1} /\ IsrFreqs \subseteq Nat
  /\ Periods \subseteq Nat /\ MaxRuns \in Nat /\ MaxTicks \in Nat

VARIABLES
  resolution,  \* the option clockResolution
  isrFreq,     \* the option isrFreq, in halves
  ticksPerIsr, \* ticksPerIsr_
  phase,       \* the loop executes, services, or there is none
  total,       \* totalTicks of the loop
  last,        \* lastTicks of the loop
  currTime,    \* currTime of the loop, what ServiceInterrupts is told
  returned,    \* what the last run returned
  runs         \* how many there were

options == <<resolution, isrFreq>>
loop == <<phase, total, last, currTime>>
vars == <<clock, options, ticksPerIsr, loop, returned, runs>>

Init ==
  /\ ClockInit
  /\ resolution \in Resolutions /\ isrFreq \in IsrFreqs
  /\ ticksPerIsr = 0 /\ phase = "stopped" /\ total = 0 /\ last = 0
  /\ currTime = 0 /\ returned = 0 /\ runs = 0

\* The conversion of isrFreq * resInTicks to an integer drops the fraction.
Halved(n) == IF n < 0 THEN -((-n) \div 2) ELSE n \div 2

\* ticksPerIsr_ is assigned only if the clock returned no error.
TicksPerIsr(res) ==
  IF ResolutionError(res) = "NoError" THEN Halved(isrFreq * ResolutionInTicks(res))
                                      ELSE ticksPerIsr

\* IMachine::SetOptions
SetOptions(res, freq) ==
  /\ phase = "stopped" /\ runs < MaxRuns
  /\ resolution' = res /\ isrFreq' = freq
  /\ UNCHANGED <<clock, ticksPerIsr, loop, returned, runs>>

\* IMachine::SetClockResolution, deprecated, reaches the clock at once.
SetClockResolution(res) ==
  /\ phase = "stopped" /\ runs < MaxRuns
  /\ resolution' = res /\ SetTickResolution(res) /\ ticksPerIsr' = TicksPerIsr(res)
  /\ UNCHANGED <<now, epoch, lastTime, tickCount, error, time, history>>
  /\ UNCHANGED <<isrFreq, loop, returned, runs>>

\* Run resets the clock, applies the resolution and starts the loop.
Run ==
  /\ phase = "stopped" /\ runs < MaxRuns
  /\ Reset /\ SetTickResolution(resolution)
  /\ ticksPerIsr' = TicksPerIsr(resolution)
  /\ phase' = "executing" /\ total' = 0 /\ last' = 0 /\ currTime' = 0
  /\ runs' = runs + 1
  /\ UNCHANGED <<options, returned>>

\* One instruction, the clock's tick, and the test for a service point.
Execute(ticks) ==
  /\ phase = "executing" /\ total < MaxTicks
  /\ Tick(ticks) /\ currTime' = time' /\ total' = total + ticks
  /\ IF total' - last >= ticksPerIsr
     THEN phase' = "service" /\ last' = total'
     ELSE UNCHANGED <<phase, last>>
  /\ UNCHANGED <<options, ticksPerIsr, returned, runs>>

\* The io controller answers anything but Quit.
Service ==
  /\ phase = "service"
  /\ phase' = "executing"
  /\ UNCHANGED <<clock, options, ticksPerIsr, total, last, currTime, returned, runs>>

\* Mutant: the run returns its ticks.
QuitTotal ==
  /\ phase = "service"
  /\ phase' = "stopped" /\ returned' = total
  /\ UNCHANGED <<clock, options, ticksPerIsr, total, last, currTime, runs>>

\* It answers Quit, and the run returns the time of the machine.
Quit ==
  /\ phase = "service"
  /\ phase' = "stopped" /\ returned' = currTime
  /\ UNCHANGED <<clock, options, ticksPerIsr, total, last, currTime, runs>>

Next ==
  \/ \E res \in Resolutions, freq \in IsrFreqs : SetOptions(res, freq)
  \/ \E res \in Resolutions : SetClockResolution(res)
  \/ Run
  \/ \E ticks \in Periods : Execute(ticks)
  \/ Service
  \/ Quit

Spec == Init /\ [][Next]_vars

-----------------------------------------------------------------------------
Running == phase # "stopped"

\* Every variable holds a value of its kind.
TypeOK ==
  /\ {now, epoch, lastTime, tickCount, time, lost, heldTicks} \subseteq Nat
  /\ totalTicks \in Nat \cup {-1} /\ {error, heldError} \subseteq Int
  /\ measured \in BOOLEAN
  /\ resolution \in Resolutions /\ isrFreq \in IsrFreqs /\ ticksPerIsr \in Int
  /\ phase \in {"stopped", "executing", "service"}
  /\ {total, last, currTime, returned, runs} \subseteq Nat

\* The ticks whose time the clock has waited for in this run: those of the run,
\* and those an earlier run left in tickCount_, but for those accumulated now.
Waited == heldTicks + total - tickCount

\* How much longer those ticks took the host than the cpu.
Lateness == lastTime - epoch - Waited * TimePeriod

\* The machine remembers, as error_, all the lateness it will make up: what is
\* lost for good is only the time between two readings of the host's clock, and
\* a run is ahead of the cpu it emulates by no more than the lateness it was
\* left by an earlier one (CpuClock.h:61, Tick, Reset).
LatenessAccounted ==
  Running /\ totalTicks >= 0 =>
    Lateness = lost + heldError - error /\ error <= 0 /\ heldError <= 0

\* Is what Tick returns a time of this run?  After Reset it is the time of an
\* earlier run, if there was one, until the clock is read for the first time.
TimeOfThisRun == measured \/ runs = 1

\* The time ServiceInterrupts is told (IController.h) moves forward during a
\* run, from the first reading of the clock on.
TimeForward ==
  [][Running /\ phase' # "stopped" /\ TimeOfThisRun => currTime' >= currTime]_vars

\* Run and WaitForCompletion return the duration of the run (IMachine.h:112):
\* no more than the host spent on it, and no less than the ticks it waited for
\* take the cpu, less the lateness it made up for an earlier run.
ReturnsDuration ==
  [][Quit /\ TimeOfThisRun
       => /\ returned' <= now - epoch
          /\ totalTicks >= 0 => returned' >= Waited * TimePeriod + heldError]_vars

\* IMachine.h:112 of Run's result, "the duration of the run", for any number of
\* runs: at least it is no longer than what the host spent on the run.
DurationOfThisRun == [][Quit => returned' <= now - epoch]_vars

ServicesEachTick ==
  phase = "executing" /\ isrFreq = 2 => (phase' = "service") = (tickCount' = 0)

\* Does the host's clock support the resolution?  If not, ticksPerIsr_ keeps an
\* older value.
Supported == resolution >= 0 /\ ResolutionError(resolution) = "NoError"

\* With isrFreq 1 interrupts are serviced after each tick of the clock, at the
\* instruction that synchronises it and at no other, provided the resolution is
\* supported and an earlier run left no ticks in tickCount_ (SetClockResolution,
\* the loop's lastTicks, Tick, Reset; README.md:284 has neither proviso).
ServicedEachTick == [][Supported /\ heldTicks = 0 => ServicesEachTick]_vars

\* README.md:284 of isrFreq 1: "Service interrupts after each clock tick", for every
\* resolution at which the clock ticks.
ServicedAfterEachTick ==
  [][resolution >= 0 /\ heldTicks = 0 => ServicesEachTick]_vars
=============================================================================
