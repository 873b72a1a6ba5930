---------------------------- MODULE PacingProofs ----------------------------
(***************************************************************************)
(* Proofs about Pacing, for any number of runs of a machine of any length, *)
(* with any time period and resolution, and any host.                      *)
(*                                                                         *)
(* Reset keeps tickCount_, error_ and time_, so what a run may rely on is  *)
(* relative to what it was left (heldTicks, heldError), and its time means *)
(* something only once the clock was read (measured): the parts of the     *)
(* invariant say so.                                                       *)
(***************************************************************************)
EXTENDS Pacing, TLAPS

\* Before the first run the clock has nothing to make up and no time to tell,
\* and so the first run is left nothing.
Fresh ==
  /\ runs = 0 => phase = "stopped" /\ tickCount = 0 /\ error = 0 /\ time = 0
  /\ runs = 1 /\ Running =>
       heldTicks = 0 /\ heldError = 0 /\ (~measured => time = 0)

\* The clock's readings are in order, and what Tick returns is the last of them
\* once there was one.
Readings ==
  /\ epoch <= lastTime /\ lastTime <= now
  /\ IF measured THEN time = lastTime - epoch ELSE lastTime = epoch

\* The loop's time is the clock's.
LoopTime == TimeOfThisRun => currTime = time

\* The inductive invariant.
IInv ==
  /\ TypeOK
  /\ Fresh
  /\ error <= 0
  /\ Running => Readings /\ LoopTime
  /\ LatenessAccounted

LEMMA InitIInv == Init => IInv
<1> SUFFICES ASSUME Init PROVE IInv
  OBVIOUS
<1>1. measured \in BOOLEAN
  BY DEF Init, ClockInit
<1> QED
  BY <1>1, PacingAssumption, CpuClockAssumption
     DEF Init, ClockInit, IInv, TypeOK, Fresh, Running, LatenessAccounted

\* Setting the resolution reports a number of ticks, or that there is none.
LEMMA ResolutionTyped ==
  ASSUME NEW res \in Resolutions
  PROVE  ResolutionInTicks(res) \in Nat \cup {-1}
BY PacingAssumption, CpuClockAssumption DEF ResolutionInTicks

LEMMA TicksPerIsrTyped ==
  ASSUME TypeOK, NEW res \in Resolutions
  PROVE  TicksPerIsr(res) \in Int
<1>1. isrFreq * ResolutionInTicks(res) \in Int
  BY ResolutionTyped, PacingAssumption DEF TypeOK
<1>2. \A n \in Int : Halved(n) \in Int
  BY DEF Halved
<1> QED BY <1>1, <1>2 DEF TicksPerIsr, TypeOK

\* The options can be set only while no machine runs.
LEMMA ConfigureIInv ==
  ASSUME IInv, NEW res \in Resolutions, NEW freq \in IsrFreqs,
         SetOptions(res, freq) \/ SetClockResolution(res)
  PROVE  IInv'
<1>1. TypeOK'
  BY ResolutionTyped, TicksPerIsrTyped
     DEF SetOptions, SetClockResolution, SetTickResolution, IInv, TypeOK, clock,
         history, loop
<1> QED
  BY <1>1
     DEF SetOptions, SetClockResolution, SetTickResolution, IInv, Fresh, Running,
         LatenessAccounted, clock, history, loop

\* A run starts with no lateness but what it was left; the first is left none.
LEMMA RunIInv ==
  ASSUME IInv, Run
  PROVE  IInv'
<1>1. /\ error \in Int /\ error <= 0 /\ now \in Nat /\ tickCount \in Nat
      /\ time \in Nat /\ runs \in Nat /\ returned \in Nat
      /\ resolution \in Resolutions /\ isrFreq \in IsrFreqs
      /\ ResolutionInTicks(resolution) \in Nat \cup {-1}
      /\ TicksPerIsr(resolution) \in Int
  BY ResolutionTyped, TicksPerIsrTyped DEF Run, IInv, TypeOK
<1>2. /\ epoch' = now /\ lastTime' = now /\ now' = now /\ time' = time
      /\ lost' = 0 /\ ~measured' /\ tickCount' = tickCount
      /\ heldTicks' = tickCount /\ heldError' = error /\ error' = error
      /\ phase' = "executing" /\ total' = 0 /\ last' = 0 /\ currTime' = 0
      /\ runs' = runs + 1 /\ returned' = returned
      /\ totalTicks' = ResolutionInTicks(resolution)
      /\ ticksPerIsr' = TicksPerIsr(resolution)
      /\ resolution' = resolution /\ isrFreq' = isrFreq
  BY DEF Run, Reset, SetTickResolution, options
<1>3. TypeOK'
  <2>1. measured' \in BOOLEAN
    BY DEF Run, Reset
  <2> QED BY <1>1, <1>2, <2>1 DEF TypeOK
<1>4. runs' = 1 => tickCount = 0 /\ error = 0 /\ time = 0
  BY <1>1, <1>2 DEF IInv, Fresh
<1>5. Fresh' /\ LoopTime' /\ Readings'
  BY <1>1, <1>2, <1>4 DEF Fresh, LoopTime, TimeOfThisRun, Readings
<1>6. Waited' = 0
  BY <1>1, <1>2 DEF Waited
<1>7. Lateness' = 0
  BY <1>1, <1>2, <1>6, CpuClockAssumption DEF Lateness
<1>8. LatenessAccounted'
  BY <1>1, <1>2, <1>7 DEF LatenessAccounted
<1> QED BY <1>1, <1>2, <1>3, <1>5, <1>8 DEF IInv

\* A service point is answered, and the last one ends the run.
LEMMA ServiceIInv ==
  ASSUME IInv, Service \/ Quit
  PROVE  IInv'
BY DEF Service, Quit, IInv, TypeOK, Fresh, Running, Readings, LoopTime,
       TimeOfThisRun, Waited, Lateness, LatenessAccounted, clock, history, options

-----------------------------------------------------------------------------
(* The clock.                                                              *)

LEMMA Distributes ==
  \A a, b, c \in Int : (a + b) * c = a * c + b * c
OBVIOUS

\* A sleep never takes a negative time.
LEMMA SleptTyped ==
  ASSUME NEW due \in Int, NEW slept \in Slept(due)
  PROVE  slept \in Nat
BY CpuClockAssumption DEF Slept

\* What a synchronisation adds to the lateness is what it adds to lost and
\* takes from error_: the sum of the two parts of the wait is the time due.
LEMMA SynchroniseAccounts ==
  ASSUME TypeOK, Readings, error <= 0, Lateness = lost + heldError - error,
         NEW ticks \in Nat, Synchronise(ticks), total' = total + ticks,
         UNCHANGED <<epoch, heldTicks, heldError>>
  PROVE  /\ now' \in Nat /\ lost' \in Nat /\ error' \in Int
         /\ now <= now' /\ lastTime' = now' /\ time' = now' - epoch
         /\ measured' = TRUE /\ error' <= 0 /\ tickCount' = 0
         /\ Lateness' = lost' + heldError' - error'
<1>1. PICK late \in Delay, over \in Delay, gap \in Delay :
        LET due == ((tickCount + ticks) * TimePeriod) - (now + late - lastTime) + error
        IN \E slept \in Slept(due) :
             LET left == due - slept
             IN /\ error' = ErrorLeft(left, over)
                /\ now' = now + late + slept + Spun(left, over) + gap
                /\ lost' = lost + gap
                /\ lastTime' = now' /\ time' = now' - epoch /\ measured' = TRUE
                /\ tickCount' = 0
  BY DEF Synchronise
<1> DEFINE span == (tickCount + ticks) * TimePeriod
           due == span - (now + late - lastTime) + error
<1>2. /\ now \in Nat /\ lastTime \in Nat /\ epoch \in Nat /\ tickCount \in Nat
      /\ total \in Nat /\ heldTicks \in Nat /\ lost \in Nat
      /\ error \in Int /\ heldError \in Int
      /\ late \in Nat /\ over \in Nat /\ gap \in Nat /\ TimePeriod \in Nat
  BY CpuClockAssumption DEF TypeOK
<1>3. span \in Int /\ due \in Int
  <2>1. span \in Int
    BY <1>2
  <2> QED BY <1>2, <2>1
<1>4. PICK slept \in Slept(due) :
        /\ error' = ErrorLeft(due - slept, over)
        /\ now' = now + late + slept + Spun(due - slept, over) + gap
        /\ lost' = lost + gap
        /\ lastTime' = now' /\ time' = now' - epoch /\ measured' = TRUE
        /\ tickCount' = 0
  BY <1>1
<1>5. slept \in Nat
  BY <1>3, SleptTyped
<1>6. Waited \in Int /\ Waited' * TimePeriod = Waited * TimePeriod + span
  <2>1. Waited \in Int /\ Waited' = Waited + (tickCount + ticks)
    BY <1>2, <1>4 DEF Waited
  <2> QED BY <1>2, <2>1, Distributes
<1>7. Waited * TimePeriod \in Int
  BY <1>2, <1>6
<1>8. lastTime - epoch - Waited * TimePeriod = lost + heldError - error
  BY DEF Lateness
<1> DEFINE done == Waited * TimePeriod
<1> HIDE DEF span, done
<1>9. /\ now' \in Nat /\ lost' \in Nat /\ error' \in Int
      /\ now <= now' /\ error' <= 0
  BY <1>2, <1>3, <1>4, <1>5 DEF ErrorLeft, Spun
<1>10. now' - epoch - (done + span) = lost' + heldError - error'
  <2>1. lastTime - epoch - done = lost + heldError - error /\ done \in Int
    BY <1>7, <1>8 DEF done
  <2>2. CASE due - slept > 0
    <3>1. /\ error' = -over
          /\ now' = now + late + slept + (due - slept + over) + gap
      BY <1>4, <2>2 DEF ErrorLeft, Spun
    <3>2. lost' = lost + gap /\ due = span - (now + late - lastTime) + error
      BY <1>4 DEF due
    <3> QED BY <1>2, <1>3, <1>5, <2>1, <3>1, <3>2
  <2>3. CASE ~(due - slept > 0)
    <3>1. error' = due - slept /\ now' = now + late + slept + 0 + gap
      BY <1>4, <2>3 DEF ErrorLeft, Spun
    <3>2. lost' = lost + gap /\ due = span - (now + late - lastTime) + error
      BY <1>4 DEF due
    <3> QED BY <1>2, <1>3, <1>5, <2>1, <3>1, <3>2
  <2> QED BY <2>2, <2>3
<1>11. Lateness' = now' - epoch - (done + span)
  BY <1>4, <1>6 DEF Lateness, done
<1> QED BY <1>4, <1>9, <1>10, <1>11

\* Whatever a tick does, the clock's readings stay in order and accounted for,
\* and what it returns does not go back once it is a reading of this run.
LEMMA TickReadings ==
  ASSUME IInv, Running, NEW ticks \in Nat, Tick(ticks), total' = total + ticks,
         runs' = runs
  PROVE  /\ now' \in Nat /\ epoch' \in Nat /\ lastTime' \in Nat /\ tickCount' \in Nat
         /\ time' \in Nat /\ lost' \in Nat /\ error' \in Int /\ measured' \in BOOLEAN
         /\ error' <= 0 /\ Readings' /\ (TimeOfThisRun => time <= time')
         /\ (~measured' => ~measured /\ time' = time)
         /\ UNCHANGED <<epoch, totalTicks, heldTicks, heldError>>
         /\ totalTicks >= 0 => Lateness' = lost' + heldError' - error'
<1>1. UNCHANGED <<epoch, totalTicks, heldTicks, heldError>>
  BY DEF Tick
<1>2. TypeOK /\ Readings /\ error <= 0 /\ totalTicks \in Int
  BY DEF IInv, TypeOK
<1>3. TimeOfThisRun => time <= lastTime - epoch
  BY <1>2 DEF IInv, Fresh, TimeOfThisRun, Readings, TypeOK
<1>4. CASE totalTicks < 0 /\ RunFree
  <2>1. PICK late \in Delay : now' = now + late
    BY <1>4 DEF RunFree
  <2> QED
    BY <1>1, <1>2, <1>3, <1>4, <2>1, CpuClockAssumption
       DEF RunFree, TypeOK, Readings
<1>5. CASE totalTicks >= 0 /\ Synchronise(ticks)
  <2>1. Lateness = lost + heldError - error
    BY <1>5 DEF IInv, LatenessAccounted
  <2>2. /\ now' \in Nat /\ lost' \in Nat /\ error' \in Int
        /\ now <= now' /\ lastTime' = now' /\ time' = now' - epoch
        /\ measured' = TRUE /\ error' <= 0 /\ tickCount' = 0
        /\ Lateness' = lost' + heldError' - error'
    BY <1>1, <1>2, <1>5, <2>1, SynchroniseAccounts
  <2> QED BY <1>1, <1>2, <1>3, <1>5, <2>2 DEF TypeOK, Readings
<1>6. CASE totalTicks >= 0 /\ Accumulate(ticks)
  <2>1. PICK late \in Delay : now' = now + late
    BY <1>6 DEF Accumulate
  <2>2. /\ tickCount' = tickCount + ticks
        /\ UNCHANGED <<lastTime, error, time, lost, measured>>
    BY <1>6 DEF Accumulate
  <2>3. Waited' = Waited
    BY <1>1, <1>2, <2>2 DEF Waited, TypeOK
  <2>4. Lateness' = Lateness
    BY <1>1, <2>2, <2>3 DEF Lateness
  <2>5. Lateness = lost + heldError - error
    BY <1>6 DEF IInv, LatenessAccounted
  <2> QED
    BY <1>1, <1>2, <2>1, <2>2, <2>4, <2>5, CpuClockAssumption DEF TypeOK, Readings
<1> QED BY <1>4, <1>5, <1>6 DEF Tick

LEMMA ExecuteIInv ==
  ASSUME IInv, NEW ticks \in Periods, Execute(ticks)
  PROVE  IInv'
<1>1. /\ Running /\ ticks \in Nat /\ Tick(ticks) /\ total' = total + ticks
      /\ runs' = runs
  BY PacingAssumption DEF Execute, Running
<1>2. /\ currTime' = time' /\ total' \in Nat /\ last' \in Nat
      /\ phase' \in {"executing", "service"}
      /\ UNCHANGED <<options, ticksPerIsr, returned>>
  BY <1>1 DEF Execute, IInv, TypeOK
<1>3. /\ now' \in Nat /\ epoch' \in Nat /\ lastTime' \in Nat /\ tickCount' \in Nat
      /\ time' \in Nat /\ lost' \in Nat /\ error' \in Int /\ measured' \in BOOLEAN
      /\ error' <= 0 /\ Readings'
      /\ (~measured' => ~measured /\ time' = time)
      /\ UNCHANGED <<epoch, totalTicks, heldTicks, heldError>>
      /\ totalTicks >= 0 => Lateness' = lost' + heldError' - error'
  BY <1>1, TickReadings
<1>4. TypeOK'
  <2>1. TypeOK /\ resolution' = resolution /\ isrFreq' = isrFreq
    BY <1>2 DEF IInv, options
  <2> QED BY <1>1, <1>2, <1>3, <2>1 DEF TypeOK
<1>5. runs # 0
  BY <1>1 DEF IInv, Fresh, Running
<1>6. Fresh'
  BY <1>1, <1>2, <1>3, <1>5 DEF IInv, Fresh, Running
<1>7. LoopTime'
  BY <1>2 DEF LoopTime
<1>8. LatenessAccounted'
  BY <1>1, <1>3 DEF IInv, LatenessAccounted
<1> QED BY <1>3, <1>4, <1>6, <1>7, <1>8 DEF IInv

LEMMA NextIInv == IInv /\ [Next]_vars => IInv'
<1> SUFFICES ASSUME IInv, [Next]_vars PROVE IInv'
  OBVIOUS
<1>1. CASE \E res \in Resolutions, freq \in IsrFreqs : SetOptions(res, freq)
  BY <1>1, ConfigureIInv
<1>2. CASE \E res \in Resolutions : SetClockResolution(res)
  <2>1. PICK res \in Resolutions : SetClockResolution(res)
    BY <1>2
  <2>2. isrFreq \in IsrFreqs
    BY DEF IInv, TypeOK
  <2> QED BY <2>1, <2>2, ConfigureIInv
<1>3. CASE Run
  BY <1>3, RunIInv
<1>4. CASE \E ticks \in Periods : Execute(ticks)
  BY <1>4, ExecuteIInv
<1>5. CASE Service \/ Quit
  BY <1>5, ServiceIInv
<1>6. CASE UNCHANGED vars
  BY <1>6 DEF vars, clock, history, options, loop, IInv, TypeOK, Fresh, Running,
     Readings, LoopTime, TimeOfThisRun, Waited, Lateness, LatenessAccounted
<1> QED BY <1>1, <1>2, <1>3, <1>4, <1>5, <1>6 DEF Next

-----------------------------------------------------------------------------
\* The inductive invariant holds of every behaviour.
THEOREM Invariant == Spec => []IInv
<1>1. IInv /\ [Next]_vars => IInv'
  BY NextIInv
<1> QED BY <1>1, InitIInv, PTL DEF Spec

\* Every variable always holds a value of its kind.
THEOREM TypeCorrect == Spec => []TypeOK
<1>1. IInv => TypeOK
  BY DEF IInv
<1>2. Spec => []IInv
  BY Invariant
<1> QED BY <1>1, <1>2, PTL

\* A run is ahead of the cpu by no more than the lateness it was left, and its
\* clock remembers exactly the lateness that the host gave it a chance to measure
\* (CpuClock::Tick, Reset).
THEOREM LatenessIsAccounted == Spec => []LatenessAccounted
<1>1. IInv => LatenessAccounted
  BY DEF IInv
<1>2. Spec => []IInv
  BY Invariant
<1> QED BY <1>1, <1>2, PTL

\* The time a controller is told never goes back, once it is a time of the run in
\* progress (Machine::Run, currTime).
THEOREM TimeMovesForward == Spec => TimeForward
<1>1. ASSUME IInv, Next, Running, phase' # "stopped", TimeOfThisRun
      PROVE  currTime' >= currTime
  <2>1. currTime \in Nat /\ time \in Nat /\ currTime = time
    BY <1>1 DEF IInv, TypeOK, LoopTime
  <2>2. ASSUME NEW ticks \in Periods, Execute(ticks) PROVE currTime' >= currTime
    <3>1. /\ Tick(ticks) /\ ticks \in Nat /\ currTime' = time'
          /\ total' = total + ticks /\ runs' = runs
      BY <2>2, PacingAssumption DEF Execute
    <3>2. time <= time' /\ time' \in Nat
      BY <1>1, <3>1, TickReadings
    <3> QED BY <2>1, <3>1, <3>2
  <2>3. CASE Service \/ Quit
    BY <2>1, <2>3 DEF Service, Quit
  <2> QED
    BY <1>1, <2>2, <2>3 DEF Next, Running, SetOptions, SetClockResolution, Run
<1>2. IInv /\ [Next]_vars
        => [Running /\ phase' # "stopped" /\ TimeOfThisRun => currTime' >= currTime]_vars
  BY <1>1
<1>3. Spec => []IInv
  BY Invariant
<1> QED BY <1>2, <1>3, PTL DEF Spec, TimeForward

\* A run whose clock was read, and the first run, return their duration: at least
\* that of the ticks the clock waited for, less what it made up for an earlier
\* run, at most what the host spent on it.
THEOREM DurationReturned == Spec => ReturnsDuration
<1>1. ASSUME IInv, Quit, TimeOfThisRun
      PROVE  /\ returned' <= now - epoch
             /\ totalTicks >= 0 => returned' >= Waited * TimePeriod + heldError
  <2>1. /\ Running /\ returned' = currTime
    BY <1>1 DEF Quit, Running
  <2>2. /\ currTime = time /\ lastTime <= now /\ epoch <= lastTime
        /\ now \in Nat /\ epoch \in Nat /\ lastTime \in Nat /\ lost \in Nat
        /\ error \in Int /\ error <= 0 /\ heldError \in Int /\ Waited \in Int
    BY <1>1, <2>1 DEF IInv, Readings, LoopTime, TypeOK, Waited
  <2>3. currTime = lastTime - epoch
    <3>1. CASE measured
      BY <1>1, <2>1, <2>2, <3>1 DEF IInv, Readings
    <3>2. CASE ~measured
      <4>1. time = 0 /\ lastTime = epoch
        BY <1>1, <2>1, <3>2 DEF IInv, Readings, Fresh, TimeOfThisRun
      <4> QED BY <2>2, <4>1
    <3> QED BY <3>1, <3>2
  <2>4. ASSUME totalTicks >= 0
        PROVE  returned' >= Waited * TimePeriod + heldError
    <3>1. lastTime - epoch - Waited * TimePeriod = lost + heldError - error
      BY <1>1, <2>1, <2>4 DEF IInv, LatenessAccounted, Lateness
    <3>2. Waited * TimePeriod \in Int
      BY <2>2, CpuClockAssumption
    <3> QED BY <2>1, <2>2, <2>3, <3>1, <3>2
  <2> QED BY <2>1, <2>2, <2>3, <2>4
<1>2. IInv /\ [Next]_vars
        => [Quit /\ TimeOfThisRun
              => /\ returned' <= now - epoch
                 /\ totalTicks >= 0 => returned' >= Waited * TimePeriod + heldError]_vars
  BY <1>1
<1>3. Spec => []IInv
  BY Invariant
<1> QED BY <1>2, <1>3, PTL DEF Spec, ReturnsDuration

-----------------------------------------------------------------------------
(* Service points.                                                         *)

\* With isrFreq 1 the ticks since the last service point are the ticks the clock
\* has accumulated, and both are compared with the same number, unless the run
\* was left ticks of an earlier one.
InStep ==
  Running /\ Supported /\ isrFreq = 2 /\ heldTicks = 0 =>
    ticksPerIsr = totalTicks /\ totalTicks >= 0 /\ total - last = tickCount

\* An instruction that does not synchronise the clock leads to no service point,
\* one that does leads to one.
LEMMA ExecuteInStep ==
  ASSUME IInv, InStep, Supported, isrFreq = 2, heldTicks = 0, 0 \notin Periods,
         NEW ticks \in Periods, Execute(ticks)
  PROVE  /\ (phase' = "service") = (tickCount' = 0)
         /\ total' - last' = tickCount'
         /\ ticksPerIsr' = totalTicks' /\ totalTicks' >= 0
<1>1. /\ Running /\ ticks \in Nat /\ ticks > 0 /\ Tick(ticks)
      /\ total' = total + ticks /\ ticksPerIsr' = ticksPerIsr
      /\ phase = "executing"
  BY PacingAssumption DEF Execute, Running
<1>2. /\ ticksPerIsr = totalTicks /\ totalTicks >= 0 /\ total - last = tickCount
      /\ total \in Nat /\ last \in Nat /\ tickCount \in Nat /\ totalTicks \in Int
  BY <1>1 DEF InStep, IInv, TypeOK
<1>3. totalTicks' = totalTicks
  BY <1>1 DEF Tick
<1>4. (total' - last >= ticksPerIsr) = Due(ticks)
  BY <1>1, <1>2 DEF Due
<1>5. CASE Due(ticks)
  <2>1. tickCount' = 0
    BY <1>1, <1>2, <1>5 DEF Tick, Synchronise
  <2>2. phase' = "service" /\ last' = total'
    BY <1>4, <1>5 DEF Execute
  <2> QED BY <1>1, <1>2, <1>3, <2>1, <2>2
<1>6. CASE ~Due(ticks)
  <2>1. tickCount' = tickCount + ticks
    BY <1>1, <1>2, <1>6 DEF Tick, Accumulate
  <2>2. phase' = phase /\ last' = last
    BY <1>4, <1>6 DEF Execute
  <2> QED BY <1>1, <1>2, <1>3, <2>1, <2>2
<1> QED BY <1>5, <1>6

\* The two numbers are equal when a run starts.
LEMMA RunInStep ==
  ASSUME IInv, Run
  PROVE  InStep'
<1> SUFFICES ASSUME Supported', isrFreq' = 2, heldTicks' = 0
             PROVE  /\ ticksPerIsr' = totalTicks' /\ totalTicks' >= 0
                    /\ total' - last' = tickCount'
  BY DEF InStep
<1>1. Supported /\ isrFreq = 2 /\ resolution \in Resolutions
  BY DEF Run, Supported, ResolutionError, options, IInv, TypeOK
<1>2. ResolutionInTicks(resolution) \in Nat
  BY <1>1, PacingAssumption, CpuClockAssumption DEF Supported, ResolutionInTicks
<1>3. totalTicks' = ResolutionInTicks(resolution)
  BY DEF Run, SetTickResolution
<1>4. ticksPerIsr' = Halved(2 * ResolutionInTicks(resolution))
  BY <1>1 DEF Run, TicksPerIsr, Supported
<1>5. \A n \in Nat : Halved(2 * n) = n
  BY DEF Halved
<1>6. total' = 0 /\ last' = 0 /\ tickCount' = 0
  BY DEF Run, Reset
<1> QED BY <1>2, <1>3, <1>4, <1>5, <1>6

LEMMA NextInStep ==
  ASSUME 0 \notin Periods
  PROVE  IInv /\ InStep /\ [Next]_vars => InStep'
<1> SUFFICES ASSUME IInv, InStep, [Next]_vars PROVE InStep'
  OBVIOUS
<1>1. ASSUME NEW ticks \in Periods, Execute(ticks) PROVE InStep'
  <2>1. UNCHANGED options /\ heldTicks' = heldTicks
    BY <1>1 DEF Execute, Tick
  <2>2. Supported' = Supported /\ isrFreq' = isrFreq /\ heldTicks' = heldTicks
    BY <2>1 DEF options, Supported, ResolutionError
  <2> QED BY <1>1, <2>2, ExecuteInStep DEF InStep
<1>2. CASE Run
  BY <1>2, RunInStep
<1>3. CASE Service
  BY <1>3 DEF Service, InStep, Supported, ResolutionError, Running, clock, history,
     options
<1>4. ASSUME Quit \/ (\E res \in Resolutions, freq \in IsrFreqs : SetOptions(res, freq))
               \/ (\E res \in Resolutions : SetClockResolution(res))
      PROVE  InStep'
  BY <1>4 DEF Quit, SetOptions, SetClockResolution, InStep, Running, loop
<1>5. CASE UNCHANGED vars
  BY <1>5 DEF vars, InStep, Supported, ResolutionError, Running, clock, history,
     options, loop
<1> QED BY <1>1, <1>2, <1>3, <1>4, <1>5 DEF Next

\* With isrFreq 1 and a resolution the host supports, interrupts are serviced
\* after the instruction that completes a tick of the clock and after no other
\* (Machine::SetClockResolution, Run), if every instruction takes time and no
\* ticks were left by an earlier run.
THEOREM ServicedWithTheClock ==
  ASSUME 0 \notin Periods
  PROVE  Spec => ServicedEachTick
<1>1. Init => InStep
  BY DEF Init, InStep, Running
<1>2. ASSUME IInv, InStep, Next, Supported, heldTicks = 0 PROVE ServicesEachTick
  <2> SUFFICES ASSUME phase = "executing", isrFreq = 2
               PROVE  (phase' = "service") = (tickCount' = 0)
    BY DEF ServicesEachTick
  <2>1. PICK ticks \in Periods : Execute(ticks)
    BY <1>2 DEF Next, SetOptions, SetClockResolution, Run, Service, Quit
  <2> QED BY <1>2, <2>1, ExecuteInStep
<1>3. IInv /\ InStep /\ [Next]_vars
        => [Supported /\ heldTicks = 0 => ServicesEachTick]_vars
  BY <1>2
<1>4. IInv /\ InStep /\ [Next]_vars => InStep'
  BY NextInStep
<1>5. Spec => []IInv
  BY Invariant
<1> QED BY <1>1, <1>3, <1>4, <1>5, PTL DEF Spec, ServicedEachTick

\* What a clock has accumulated that synchronises, and whose service points are
\* its ticks, it has synchronised at the service point that ends the run.
LeavesNothing ==
  /\ Running => heldTicks = 0
  /\ phase # "executing" => tickCount = 0

\* A machine whose resolutions are all supported and whose isrFreq is always 1
\* leaves no ticks from one run to the next: Reset need not clear tickCount_, and
\* every run services interrupts with the clock, the first and all the others.
THEOREM ServicedWithTheClockAlways ==
  ASSUME IsrFreqs = {2}, 0 \notin Periods,
         \A res \in Resolutions : res >= 0 /\ ResolutionError(res) = "NoError"
  PROVE  Spec => [][ServicesEachTick]_vars
<1>1. IInv => Supported /\ isrFreq = 2
  BY DEF IInv, TypeOK, Supported
<1>2. Init => InStep /\ LeavesNothing
  BY DEF Init, ClockInit, InStep, LeavesNothing, Running
<1>3. ASSUME IInv, InStep, LeavesNothing, Next PROVE LeavesNothing'
  <2>1. ASSUME NEW ticks \in Periods, Execute(ticks) PROVE LeavesNothing'
    <3>1. Running /\ heldTicks = 0 /\ heldTicks' = heldTicks
      BY <1>3, <2>1 DEF Execute, Running, Tick, LeavesNothing
    <3>2. (phase' = "service") = (tickCount' = 0)
      BY <1>1, <1>3, <2>1, <3>1, ExecuteInStep
    <3>3. phase' \in {"executing", "service"}
      BY <2>1 DEF Execute
    <3> QED BY <3>1, <3>2, <3>3 DEF LeavesNothing
  <2>2. CASE Run
    BY <1>3, <2>2 DEF Run, Reset, LeavesNothing, Running
  <2>3. CASE Service \/ Quit
    BY <1>3, <2>3 DEF Service, Quit, LeavesNothing, Running, clock, history
  <2>4. ASSUME \/ \E res \in Resolutions, freq \in IsrFreqs : SetOptions(res, freq)
               \/ \E res \in Resolutions : SetClockResolution(res)
        PROVE  LeavesNothing'
    BY <1>3, <2>4 DEF SetOptions, SetClockResolution, LeavesNothing, Running,
       clock, history, loop
  <2> QED BY <1>3, <2>1, <2>2, <2>3, <2>4 DEF Next
<1>4. IInv /\ InStep /\ LeavesNothing /\ [Next]_vars => LeavesNothing'
  BY <1>3 DEF vars, clock, history, loop, LeavesNothing, Running
<1>5. IInv /\ InStep /\ [Next]_vars => InStep'
  BY NextInStep
<1>6. ASSUME IInv, InStep, LeavesNothing, Next PROVE ServicesEachTick
  <2> SUFFICES ASSUME phase = "executing", isrFreq = 2
               PROVE  (phase' = "service") = (tickCount' = 0)
    BY DEF ServicesEachTick
  <2>1. PICK ticks \in Periods : Execute(ticks)
    BY <1>6 DEF Next, SetOptions, SetClockResolution, Run, Service, Quit
  <2>2. heldTicks = 0
    BY <1>6 DEF LeavesNothing, Running
  <2> QED BY <1>1, <1>6, <2>1, <2>2, ExecuteInStep
<1>7. IInv /\ InStep /\ LeavesNothing /\ [Next]_vars => [ServicesEachTick]_vars
  BY <1>6
<1>8. Spec => []IInv
  BY Invariant
<1> QED BY <1>2, <1>4, <1>5, <1>7, <1>8, PTL DEF Spec
=============================================================================
