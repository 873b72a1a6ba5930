--------------------------- MODULE MachineProofs ---------------------------
(***************************************************************************)
(* Proofs about Machine, for every set of values, ram size, controllers    *)
(* and faults.  The inductive invariant is the conjunction of the          *)
(* invariants TLC checks and of FuturesFilled; each leans on the others.   *)
(* RunningWhileLoop keeps a second loop from starting, HandlersWithinLoop  *)
(* and SignalsConsumed say what may be pending where, HandlersExclusive    *)
(* and DeferredRunsAtOnce say what a poll can find, FuturesFilled what it  *)
(* gets.                                                                   *)
(***************************************************************************)
EXTENDS Machine, TLAPS

\* A future holds what its state says: a result once it is ready, the gathered
\* state as long as a save has still to deliver it.
FuturesFilled ==
  /\ onLoad.st = "ready" => onLoad.val \in LoadOutcome
  /\ onSave.st = "ready" => onSave.val \in SaveOutcome
  /\ onSave.st \in {"running", "deferred"} => onSave.val \in State

\* The inductive invariant.
IInv ==
  /\ TypeOK
  /\ HandlersExclusive
  /\ RunningWhileLoop
  /\ HandlersWithinLoop
  /\ SignalsConsumed
  /\ DeferredRunsAtOnce
  /\ FuturesFilled

\* A load state that passed the checks holds a whole machine state.
LEMMA JsonState ==
  ASSUME NEW json \in Json
  PROVE  json.state \in State
BY DEF Json

\* Loading yields a machine state whatever the load state and the faults.
LEMMA LoadTyped ==
  ASSUME content \in State, NEW json \in Json \cup {None},
         LoadMachineState(json)
  PROVE  content' \in State
<1>1. CASE content' = content
  BY <1>1
<1>2. CASE json \in Json /\ content' = json.state
  BY <1>2, JsonState
<1>3. CASE json \in Json /\ \E n \in Ram : content' = Partly(json, n)
  <2>1. PICK n \in Ram : content' = Partly(json, n)
    BY <1>3
  <2>2. json.state \in State
    BY <1>3, JsonState
  <2> QED BY <2>1, <2>2 DEF Partly, State
<1> QED BY <1>1, <1>2, <1>3 DEF LoadMachineState

LEMMA InitIInv == Init => IInv
<1> SUFFICES ASSUME Init PROVE IInv
  OBVIOUS
<1>1. /\ onLoad \in [st : FutureState, val : LoadOutcome \cup {Unused}]
      /\ onSave \in [st : FutureState, val : State \cup SaveOutcome \cup {Unused}]
      /\ policy \in [load : OptionValue \cup {"off"}, save : OptionValue \cup {"off"}]
  BY DEF Init, NoFuture, NoPolicy, FutureState
<1>2. TypeOK
  BY <1>1 DEF Init, TypeOK, LoopPhase, Callback
<1> QED
  BY <1>2
     DEF Init, IInv, HandlersExclusive, RunningWhileLoop, HandlersWithinLoop,
         SignalsConsumed, DeferredRunsAtOnce, FuturesFilled, HandlersIdle,
         NoFuture

\* The calls that configure a machine find no loop, and start none.
LEMMA ConfigureIInv ==
  ASSUME IInv, Configure \/ RunRefused
  PROVE  IInv'
<1> USE MachineAssumption
<1>1. NoRun /\ loop = "none"
  BY DEF Configure, RunRefused, MayRun, SetMemoryController, SetIoController,
         OnLoad, OnSave, SetOptions, SetClockResolution, MayConfigure, IInv,
         RunningWhileLoop
<1>2. content' \in State
  BY DEF Configure, RunRefused, SetMemoryController, SetIoController,
         OnLoad, OnSave, SetOptions, SetClockResolution, IInv, TypeOK, State
<1>3. /\ memory' \in MemoryControllers \cup {None} /\ io' \in BOOLEAN
      /\ opts' \in Options /\ callbacks' \subseteq Callback
  BY DEF Configure, RunRefused, config, SetMemoryController, SetIoController,
         OnLoad, OnSave, SetOptions, SetClockResolution, IInv, TypeOK, Options,
         Callback
<1> QED
  BY <1>1, <1>2, <1>3
     DEF IInv, NoRun, bus, handlers, TypeOK, HandlersExclusive,
         RunningWhileLoop, HandlersWithinLoop, SignalsConsumed,
         DeferredRunsAtOnce, FuturesFilled, HandlersIdle

\* A run starts without handlers or signals; a result is taken without them.
LEMMA RunIInv ==
  ASSUME IInv, Run \/ WaitForCompletion \/ Get
  PROVE  IInv'
<1>1. UNCHANGED <<config, policy, bus, handlers>> /\ content' \in State
  BY DEF Run, WaitForCompletion, Get, IInv, TypeOK, State
<1>2. loop' \in LoopPhase /\ client' \in {"idle", "inRun", "waiting"}
      /\ running' \in BOOLEAN
  BY DEF Run, WaitForCompletion, Get, IInv, TypeOK, LoopPhase
<1>3. TypeOK'
  BY <1>1, <1>2 DEF IInv, TypeOK, config, bus, handlers
<1>4. /\ loop' # "none" => running'
      /\ \/ loop' = loop
         \/ HandlersIdle /\ ~powerOff /\ ~interrupt
  <2>1. CASE Run
    <3>1. loop = "none"
      BY <2>1 DEF Run, MayRun, IInv, RunningWhileLoop
    <3> QED BY <2>1, <3>1 DEF Run, IInv, HandlersWithinLoop, SignalsConsumed
  <2>2. CASE WaitForCompletion
    BY <2>2 DEF WaitForCompletion, IInv, RunningWhileLoop
  <2>3. CASE Get
    BY <2>3 DEF Get, IInv, HandlersWithinLoop, SignalsConsumed
  <2> QED BY <2>1, <2>2, <2>3
<1> QED
  BY <1>1, <1>3, <1>4
     DEF IInv, bus, handlers, HandlersExclusive, RunningWhileLoop,
         HandlersWithinLoop, SignalsConsumed, DeferredRunsAtOnce, FuturesFilled,
         HandlersIdle, TypeOK

-----------------------------------------------------------------------------
(* The loop.  Its steps keep the client's side, so RunningWhileLoop holds   *)
(* as long as they start from a loop.                                       *)

LEMMA LoopKeepsRunning ==
  ASSUME IInv, Unattended, loop # "none"
  PROVE  RunningWhileLoop'
BY DEF IInv, RunningWhileLoop, Unattended

\* Start, PowerOff and Execute touch no handler.
LEMMA InstructionIInv ==
  ASSUME IInv, Start \/ PowerOff \/ Execute
  PROVE  IInv'
<1> USE MachineAssumption
<1>1. Unattended /\ UNCHANGED handlers /\ loop # "none"
  BY DEF Start, PowerOff, Execute
<1>2. /\ content' \in State /\ loop' \in LoopPhase
      /\ powerOff' \in BOOLEAN /\ interrupt' \in BOOLEAN
  BY DEF Start, PowerOff, Execute, IInv, TypeOK, LoopPhase, bus
<1>3. policy' \in [load : OptionValue \cup {"off"}, save : OptionValue \cup {"off"}]
  BY DEF Start, PowerOff, Execute, IInv, TypeOK, NoPolicy, Options
<1>4. TypeOK'
  BY <1>1, <1>2, <1>3 DEF Unattended, config, handlers, IInv, TypeOK
<1>5. /\ onLoad.st # "deferred" /\ onSave.st # "deferred"
      /\ powerOff' => loop' = "top" /\ HandlersIdle
      /\ interrupt' => loop' = "top" /\ ~powerOff'
      /\ HandlersIdle \/ loop' \in {"top", "service", "unwind"}
  BY DEF Start, PowerOff, Execute, bus, IInv, DeferredRunsAtOnce,
         SignalsConsumed, HandlersWithinLoop
<1> QED
  BY <1>1, <1>4, <1>5, LoopKeepsRunning
     DEF IInv, handlers, HandlersExclusive, HandlersWithinLoop,
         SignalsConsumed, DeferredRunsAtOnce, FuturesFilled, HandlersIdle,
         TypeOK

\* A service point finds no signal pending.  At most one handler starts, and
\* only when none exists; a deferred one is polled next.
LEMMA ServiceIInv ==
  ASSUME IInv, Service
  PROVE  IInv'
<1> USE MachineAssumption
<1>1. Unattended /\ loop = "service" /\ UNCHANGED <<policy, content, delivered>>
  BY DEF Service, ServiceRst, ServiceLoad, ServiceSave, ServiceNothing,
         ServiceNoInterrupt, ServiceQuit, ServiceFault, Goto, handlers
<1>2. /\ loop' \in {"top", "pollLoad", "pollSave", "quitLoad", "unwind"}
      /\ powerOff' = FALSE
      /\ interrupt' \in BOOLEAN
      /\ interrupt' => loop' = "top"
  <2>1. powerOff = FALSE /\ interrupt = FALSE
    BY <1>1 DEF IInv, TypeOK, SignalsConsumed
  <2> QED
    BY <2>1 DEF Service, ServiceRst, ServiceLoad, ServiceSave, ServiceNothing,
                ServiceNoInterrupt, ServiceQuit, ServiceFault, Goto, bus
<1>3. \/ UNCHANGED <<onLoad, onSave>>
      \/ /\ HandlersIdle /\ loop' = "pollLoad" /\ onSave' = onSave
         /\ onLoad' = Launch(policy.load, Unused)
      \/ /\ HandlersIdle /\ loop' = "pollSave" /\ onLoad' = onLoad
         /\ onSave' = Launch(policy.save, content)
  BY DEF Service, ServiceRst, ServiceLoad, ServiceSave, ServiceNothing,
         ServiceNoInterrupt, ServiceQuit, ServiceFault, Goto, handlers, MayLoad,
         MaySave
<1>4. /\ onLoad.st # "deferred" /\ onSave.st # "deferred"
  BY <1>1 DEF IInv, DeferredRunsAtOnce
<1>5. /\ onLoad' \in [st : FutureState, val : LoadOutcome \cup {Unused}]
      /\ onSave' \in [st : FutureState, val : State \cup SaveOutcome \cup {Unused}]
      /\ HandlersExclusive' /\ DeferredRunsAtOnce' /\ FuturesFilled'
  <2>1. CASE UNCHANGED <<onLoad, onSave>>
    BY <2>1, <1>4 DEF IInv, TypeOK, HandlersExclusive, DeferredRunsAtOnce,
                      FuturesFilled
  <2>2. CASE /\ HandlersIdle /\ loop' = "pollLoad" /\ onSave' = onSave
             /\ onLoad' = Launch(policy.load, Unused)
    BY <2>2 DEF IInv, TypeOK, HandlersIdle, HandlersExclusive,
                DeferredRunsAtOnce, FuturesFilled, Launch, FutureState
  <2>3. CASE /\ HandlersIdle /\ loop' = "pollSave" /\ onLoad' = onLoad
             /\ onSave' = Launch(policy.save, content)
    BY <2>3 DEF IInv, TypeOK, HandlersIdle, HandlersExclusive,
                DeferredRunsAtOnce, FuturesFilled, Launch, FutureState
  <2> QED BY <1>3, <2>1, <2>2, <2>3
<1>6. TypeOK'
  BY <1>1, <1>2, <1>5 DEF Unattended, config, IInv, TypeOK, LoopPhase
<1>7. HandlersWithinLoop'
  BY <1>2 DEF HandlersWithinLoop
<1>8. SignalsConsumed'
  BY <1>2 DEF SignalsConsumed
<1>9. RunningWhileLoop'
  BY <1>1, LoopKeepsRunning
<1> QED
  BY <1>5, <1>6, <1>7, <1>8, <1>9 DEF IInv

\* What a future yields to the loop that takes it.
LEMMA ResultsTyped ==
  ASSUME IInv
  PROVE  /\ Collectable(onLoad) => LoadResults \subseteq LoadOutcome
         /\ onSave.st = "deferred" => onSave.val \in State
BY DEF IInv, FuturesFilled, Collectable, LoadResults

LEMMA TakeLoadTyped ==
  ASSUME IInv, NEW next, Collectable(onLoad), TakeLoad(next)
  PROVE  onLoad' = NoFuture /\ loop' \in {next, "unwind"} /\ content' \in State
<1>1. PICK json \in LoadResults :
        /\ onLoad' = NoFuture
        /\ IF json = Thrown THEN loop' = "unwind" /\ content' = content
                            ELSE loop' = next /\ LoadMachineState(json)
  BY DEF TakeLoad
<1>2. content \in State
  BY DEF IInv, TypeOK
<1>3. json = Thrown \/ json \in Json \cup {None}
  BY ResultsTyped DEF LoadOutcome
<1> QED BY <1>1, <1>2, <1>3, LoadTyped

LEMMA TakeSaveTyped ==
  ASSUME IInv, NEW next, TakeSave(next)
  PROVE  /\ onSave' = NoFuture /\ loop' \in {next, "unwind"}
         /\ delivered' \in State \cup {None}
BY ResultsTyped DEF TakeSave, IInv, TypeOK

\* Polling and quitting collect a future or leave it alone.
LEMMA CollectIInv ==
  ASSUME IInv, PollLoad \/ PollSave \/ QuitLoad \/ QuitSave
  PROVE  IInv'
<1> DEFINE Kept == UNCHANGED <<onLoad, onSave>>
<1> USE MachineAssumption
<1>1. /\ Unattended /\ UNCHANGED <<policy, bus>>
      /\ loop \in {"pollLoad", "pollSave", "quitLoad", "quitSave"}
  BY DEF PollLoad, PollSave, QuitLoad, QuitSave
<1>2. powerOff = FALSE /\ interrupt = FALSE
  BY <1>1 DEF IInv, SignalsConsumed, TypeOK
<1>3. /\ content' \in State /\ delivered' \in State \cup {None}
      /\ onLoad' \in {onLoad, NoFuture} /\ onSave' \in {onSave, NoFuture}
      /\ loop' \in {"pollSave", "top", "quitSave", "quit", "unwind"}
      /\ loop' = "quitSave" => onLoad'.st = "none"
      /\ loop' = "quit" => onLoad' = onLoad /\ loop = "quitSave" /\ onSave'.st = "none"
      /\ onLoad'.st # "deferred"
      /\ onSave'.st = "deferred" => loop' = "pollSave"
  <2>1. CASE PollLoad
    <3>1. onSave.st # "deferred"
      BY <2>1 DEF PollLoad, IInv, DeferredRunsAtOnce
    <3> QED BY <2>1, <3>1, TakeLoadTyped
        DEF PollLoad, Collectable, IInv, TypeOK, NoFuture
  <2>2. CASE PollSave
    <3>1. onLoad.st # "deferred"
      BY <2>2 DEF PollSave, IInv, DeferredRunsAtOnce
    <3> QED BY <2>2, <3>1, TakeSaveTyped
        DEF PollSave, Collectable, IInv, TypeOK, NoFuture
  <2>3. CASE QuitLoad
    <3>1. onSave.st # "deferred"
      BY <2>3 DEF QuitLoad, IInv, DeferredRunsAtOnce
    <3> QED BY <2>3, <3>1, TakeLoadTyped
        DEF QuitLoad, IInv, TypeOK, NoFuture
  <2>4. CASE QuitSave
    <3>1. onLoad.st # "deferred"
      BY <2>4 DEF QuitSave, IInv, DeferredRunsAtOnce
    <3> QED BY <2>4, <3>1, TakeSaveTyped
        DEF QuitSave, IInv, TypeOK, NoFuture
  <2> QED BY <2>1, <2>2, <2>3, <2>4
<1>4. /\ onLoad' \in [st : FutureState, val : LoadOutcome \cup {Unused}]
      /\ onSave' \in [st : FutureState, val : State \cup SaveOutcome \cup {Unused}]
      /\ HandlersExclusive' /\ FuturesFilled'
  BY <1>3 DEF IInv, TypeOK, HandlersExclusive, FuturesFilled, NoFuture,
              FutureState
<1>5. TypeOK'
  BY <1>1, <1>3, <1>4 DEF Unattended, config, bus, IInv, TypeOK, LoopPhase
<1>6. HandlersWithinLoop'
  BY <1>3 DEF IInv, HandlersWithinLoop, HandlersIdle
<1> QED
  BY <1>1, <1>2, <1>3, <1>4, <1>5, <1>6, LoopKeepsRunning
     DEF IInv, DeferredRunsAtOnce, SignalsConsumed, bus

\* Quitting finds every handler collected; unwinding discards what is left.
LEMMA EndIInv ==
  ASSUME IInv, Quit \/ UnwindSave \/ UnwindLoad \/ Unwound
  PROVE  IInv'
<1> USE MachineAssumption
<1>1. /\ Unattended /\ UNCHANGED <<content, delivered, interrupt>>
      /\ loop \in {"quit", "unwind"}
  BY DEF Quit, UnwindSave, UnwindLoad, Unwound, bus, handlers
<1>2. powerOff = FALSE /\ interrupt = FALSE
  BY <1>1 DEF IInv, SignalsConsumed, TypeOK
<1>3. /\ onLoad' \in {onLoad, NoFuture} /\ onSave' \in {onSave, NoFuture}
      /\ loop' \in {"top", "unwind", "threw"}
      /\ powerOff' \in BOOLEAN
      /\ loop' = "threw" => HandlersIdle'
      /\ powerOff' => loop' = "top" /\ HandlersIdle'
      /\ policy' \in [load : OptionValue \cup {"off"}, save : OptionValue \cup {"off"}]
  <2>1. CASE Quit
    BY <2>1 DEF Quit, handlers, IInv, HandlersWithinLoop, HandlersIdle, TypeOK
  <2>2. CASE UnwindSave \/ UnwindLoad
    BY <1>2, <2>2 DEF UnwindSave, UnwindLoad, bus, IInv, TypeOK
  <2>3. CASE Unwound
    BY <1>2, <2>3 DEF Unwound, handlers, bus, HandlersIdle, NoPolicy
  <2> QED BY <2>1, <2>2, <2>3
<1>4. /\ onLoad' \in [st : FutureState, val : LoadOutcome \cup {Unused}]
      /\ onSave' \in [st : FutureState, val : State \cup SaveOutcome \cup {Unused}]
      /\ HandlersExclusive' /\ FuturesFilled'
  BY <1>3 DEF IInv, TypeOK, HandlersExclusive, FuturesFilled, NoFuture,
              FutureState
<1>5. TypeOK'
  BY <1>1, <1>3, <1>4 DEF Unattended, config, IInv, TypeOK, LoopPhase
<1>6. DeferredRunsAtOnce'
  BY <1>1, <1>3 DEF IInv, DeferredRunsAtOnce, NoFuture
<1> QED
  BY <1>1, <1>2, <1>3, <1>4, <1>5, <1>6, LoopKeepsRunning
     DEF IInv, HandlersWithinLoop, HandlersIdle, SignalsConsumed

\* The handler threads turn a running future into a ready one.
LEMMA HandlerIInv ==
  ASSUME IInv, LoadHandler \/ SaveHandler
  PROVE  IInv'
<1> USE MachineAssumption
<1>1. Unattended /\ UNCHANGED <<loop, policy, bus, content>>
  BY DEF LoadHandler, SaveHandler
<1>2. /\ onLoad' \in [st : FutureState, val : LoadOutcome \cup {Unused}]
      /\ onSave' \in [st : FutureState, val : State \cup SaveOutcome \cup {Unused}]
      /\ delivered' \in State \cup {None}
      /\ (onLoad'.st = "none") = (onLoad.st = "none")
      /\ (onSave'.st = "none") = (onSave.st = "none")
      /\ onLoad'.st = "deferred" => onLoad.st = "deferred"
      /\ onSave'.st = "deferred" => onSave.st = "deferred"
      /\ FuturesFilled'
  <2>1. CASE LoadHandler
    BY <2>1 DEF LoadHandler, IInv, TypeOK, FuturesFilled, FutureState
  <2>2. CASE SaveHandler
    BY <2>2 DEF SaveHandler, IInv, TypeOK, FuturesFilled, FutureState
  <2> QED BY <2>1, <2>2
<1>3. TypeOK'
  BY <1>1, <1>2 DEF Unattended, config, bus, IInv, TypeOK
<1> QED
  BY <1>1, <1>2, <1>3
     DEF IInv, Unattended, bus, HandlersExclusive, RunningWhileLoop,
         HandlersWithinLoop, SignalsConsumed, DeferredRunsAtOnce, HandlersIdle

LEMMA NextIInv == IInv /\ [Next]_vars => IInv'
<1> SUFFICES ASSUME IInv, [Next]_vars PROVE IInv'
  OBVIOUS
<1>1. CASE Next
  BY <1>1, ConfigureIInv, RunIInv, InstructionIInv, ServiceIInv, CollectIInv,
     EndIInv, HandlerIInv
     DEF Next, Client, Loop
<1>2. CASE UNCHANGED vars
  BY <1>2 DEF vars, IInv, TypeOK, HandlersExclusive, RunningWhileLoop,
     HandlersWithinLoop, SignalsConsumed, DeferredRunsAtOnce, FuturesFilled,
     HandlersIdle
<1> QED BY <1>1, <1>2

\* The inductive invariant holds of every behaviour.
THEOREM Invariant == Spec => []IInv
BY InitIInv, NextIInv, PTL DEF Spec

\* Every variable always holds a value of its kind.
THEOREM TypeCorrect == Spec => []TypeOK
<1>1. IInv => TypeOK
  BY DEF IInv
<1> QED BY <1>1, Invariant, PTL

\* A load and a save are never in progress at the same time.
THEOREM ExclusiveHandlers == Spec => []HandlersExclusive
<1>1. IInv => HandlersExclusive
  BY DEF IInv
<1> QED BY <1>1, Invariant, PTL

\* While the loop or one of its handlers may be executing, running_ is set.
THEOREM RunningCoversLoop == Spec => []RunningWhileLoop
<1>1. IInv => RunningWhileLoop
  BY DEF IInv
<1> QED BY <1>1, Invariant, PTL

\* No handler outlives the loop that started it, whatever throws.
THEOREM HandlersEndWithLoop == Spec => []HandlersWithinLoop
<1>1. IInv => HandlersWithinLoop
  BY DEF IInv
<1> QED BY <1>1, Invariant, PTL

\* An interrupt or a power off is consumed at the next instruction boundary.
THEOREM SignalsAreConsumed == Spec => []SignalsConsumed
<1>1. IInv => SignalsConsumed
  BY DEF IInv
<1> QED BY <1>1, Invariant, PTL

\* A deferred handler never stays behind.
THEOREM DeferredAreRun == Spec => []DeferredRunsAtOnce
<1>1. IInv => DeferredRunsAtOnce
  BY DEF IInv
<1> QED BY <1>1, Invariant, PTL

-----------------------------------------------------------------------------
(* Action properties.                                                      *)

\* No step of any thread changes what the loop reads while the loop exists.
THEOREM FrozenConfig == Spec => ConfigFrozen
<1>1. IInv /\ [Next]_vars => [loop # "none" => UNCHANGED config]_vars
  <2> SUFFICES ASSUME IInv, Next, loop # "none" PROVE UNCHANGED config
    OBVIOUS
  <2>1. running
    BY DEF IInv, RunningWhileLoop
  <2>2. CASE Client
    BY <2>1, <2>2 DEF Client, Configure, SetMemoryController, SetIoController,
       OnLoad, OnSave, SetOptions, SetClockResolution, MayConfigure,
       RunRefused, Run, MayRun, WaitForCompletion, Get, config
  <2>3. CASE Loop \/ LoadHandler \/ SaveHandler
    BY <2>3 DEF Loop, Start, PowerOff, Execute, Service, ServiceRst,
       ServiceLoad, ServiceSave, ServiceNothing, ServiceNoInterrupt,
       ServiceQuit, ServiceFault, Goto, PollLoad, PollSave, QuitLoad, QuitSave,
       Quit, UnwindSave, UnwindLoad, Unwound, LoadHandler, SaveHandler,
       Unattended, config
  <2> QED BY <2>2, <2>3 DEF Next
<1> QED BY <1>1, Invariant, PTL DEF Spec, ConfigFrozen

\* If no memory controller throws, a load is applied whole or not at all.
THEOREM AtomicLoad == ASSUME MemoryFaults = FALSE PROVE Spec => LoadAllOrNothing
<1> DEFINE Polling == loop = "pollLoad" \/ loop = "quitLoad"
<1>1. ASSUME IInv, NEW next, Collectable(onLoad), TakeLoad(next)
      PROVE  UNCHANGED content \/ AppliesWholeLoad
  <2>1. PICK json \in LoadResults :
          IF json = Thrown THEN content' = content
                           ELSE LoadMachineState(json)
    BY <1>1 DEF TakeLoad
  <2>2. json = Thrown \/ json \in Json \cup {None}
    BY <1>1, ResultsTyped DEF LoadOutcome
  <2> QED BY <1>1, <2>1, <2>2 DEF LoadMachineState, AppliesWholeLoad
<1>2. IInv /\ [Next]_vars => [Polling => UNCHANGED content \/ AppliesWholeLoad]_vars
  <2> SUFFICES ASSUME IInv, Next, Polling
               PROVE  UNCHANGED content \/ AppliesWholeLoad
    OBVIOUS
  <2>1. running
    BY DEF IInv, RunningWhileLoop
  <2>2. CASE Client
    BY <2>1, <2>2 DEF Client, Configure, SetMemoryController, SetIoController,
       OnLoad, OnSave, SetOptions, SetClockResolution, MayConfigure,
       RunRefused, Run, MayRun, WaitForCompletion, Get
  <2>3. CASE PollLoad \/ QuitLoad
    BY <1>1, <2>3 DEF PollLoad, QuitLoad
  <2>4. CASE LoadHandler \/ SaveHandler
    BY <2>4 DEF LoadHandler, SaveHandler
  <2>5. CASE Loop /\ ~(PollLoad \/ QuitLoad)
    BY <2>5 DEF Loop, Start, PowerOff, Execute, Service, ServiceRst,
       ServiceLoad, ServiceSave, ServiceNothing, ServiceNoInterrupt,
       ServiceQuit, ServiceFault, Goto, PollSave, QuitSave,
       Quit, UnwindSave, UnwindLoad, Unwound
  <2> QED BY <2>2, <2>3, <2>4, <2>5 DEF Next
<1> QED BY <1>2, Invariant, PTL DEF Spec, LoadAllOrNothing

-----------------------------------------------------------------------------
(* Implementation of the contract of SaveLoad, its fairness excepted.      *)

Active == loop \notin {"none", "returned", "threw"}

\* Steps that keep the futures keep the request.
LEMMA SameRequest ==
  ASSUME UNCHANGED <<onLoad, onSave>>
  PROVE  UNCHANGED Request
BY DEF Request

LEMMA NoHandlerNoRequest ==
  ASSUME HandlersIdle
  PROVE  Request = Contract!NoRequest
BY DEF HandlersIdle, Request, Contract!NoRequest

\* Between runs, and until the loop starts, the contract idles.
LEMMA ClientImplements ==
  ASSUME IInv, Client
  PROVE  Contract!Idle \/ UNCHANGED Contract!vars
<1>1. UNCHANGED handlers
  BY DEF Client, Configure, SetMemoryController, SetIoController, OnLoad,
         OnSave, SetOptions, SetClockResolution, RunRefused, Run,
         WaitForCompletion, Get, NoRun
<1>2. UNCHANGED <<Request, delivered>>
  BY <1>1, SameRequest DEF handlers
<1>3. CASE Configure \/ RunRefused \/ Run
  <2>1. ~Active
    BY <1>3 DEF Active, Configure, SetMemoryController, SetIoController,
       OnLoad, OnSave, SetOptions, SetClockResolution, MayConfigure,
       RunRefused, Run, MayRun, IInv, RunningWhileLoop
  <2>2. content' \in State
    <3>1. IInv'
      BY <1>3, ConfigureIInv, RunIInv
    <3> QED BY <3>1 DEF IInv, TypeOK
  <2> QED BY <1>2, <2>1, <2>2 DEF Contract!Idle, Active
<1>4. CASE WaitForCompletion \/ Get
  BY <1>2, <1>4 DEF WaitForCompletion, Get, Contract!vars
<1> QED BY <1>3, <1>4 DEF Client

\* The loop's steps outside the handlers execute, stop or change nothing the
\* contract sees.
LEMMA PlainStepImplements ==
  ASSUME IInv,
         \/ Start \/ PowerOff \/ Execute \/ Quit \/ Unwound
         \/ ServiceRst \/ ServiceNothing \/ ServiceNoInterrupt
         \/ ServiceQuit \/ ServiceFault
  PROVE  Contract!Execute \/ Contract!Stop \/ UNCHANGED Contract!vars
<1>1. UNCHANGED handlers /\ Active
  BY DEF Start, PowerOff, Execute, Quit, Unwound, ServiceRst, ServiceNothing,
         ServiceNoInterrupt, ServiceQuit, ServiceFault, Goto, Active
<1>2. UNCHANGED <<Request, delivered>>
  BY <1>1, SameRequest DEF handlers
<1>3. CASE Execute
  <2>1. Active'
    BY <1>3, MachineAssumption DEF Execute, Active
  <2> QED BY <1>1, <1>2, <1>3, <2>1 DEF Execute, Contract!Execute, Active
<1>4. CASE PowerOff \/ Unwound
  <2>1. HandlersIdle
    BY <1>4 DEF PowerOff, Unwound, IInv, SignalsConsumed
  <2> QED
    BY <1>1, <1>2, <1>4, <2>1, NoHandlerNoRequest
       DEF PowerOff, Unwound, Contract!Stop, Active
<1>5. CASE ~(Execute \/ PowerOff \/ Unwound)
  BY <1>1, <1>2, <1>5
     DEF Start, Quit, ServiceRst, ServiceNothing, ServiceNoInterrupt,
         ServiceQuit, ServiceFault, Goto, Contract!vars, Active
<1> QED BY <1>3, <1>4, <1>5

\* A handler starts only if there is no request, with the state of that moment.
LEMMA AcceptImplements ==
  ASSUME IInv, ServiceLoad \/ ServiceSave
  PROVE  Contract!AcceptLoad \/ Contract!AcceptSave \/ UNCHANGED Contract!vars
<1>1. Active /\ Active' /\ UNCHANGED <<content, delivered>>
  BY DEF ServiceLoad, ServiceSave, Active
<1>2. CASE ServiceLoad /\ MayLoad
  <2>1. onLoad'.st # "none"
    BY <1>2 DEF ServiceLoad, Launch
  <2> QED BY <1>1, <1>2, <2>1, NoHandlerNoRequest
      DEF MayLoad, Contract!AcceptLoad, Contract!LoadRequest, Request, Active
<1>3. CASE ServiceSave /\ MaySave
  <2>1. /\ onLoad'.st = "none" /\ onSave'.st \in {"running", "deferred"}
        /\ onSave'.val = content
    BY <1>3 DEF ServiceSave, MaySave, HandlersIdle, Launch
  <2> QED BY <1>1, <1>3, <2>1, NoHandlerNoRequest
      DEF MaySave, Contract!AcceptSave, Contract!SaveRequest, Request, Active
<1>4. CASE ~(ServiceLoad /\ MayLoad) /\ ~(ServiceSave /\ MaySave)
  <2>1. UNCHANGED <<onLoad, onSave>>
    BY <1>4 DEF ServiceLoad, ServiceSave
  <2> QED BY <1>1, <2>1, SameRequest DEF Contract!vars, Active
<1> QED BY <1>2, <1>3, <1>4

\* Taking a load future ends the request, whatever it yields.
LEMMA TakeLoadImplements ==
  ASSUME IInv, PollLoad \/ QuitLoad \/ UnwindLoad
  PROVE  Contract!CompleteLoad \/ UNCHANGED Contract!vars
<1>1. Active /\ Active' /\ UNCHANGED <<onSave, delivered>>
  BY TakeLoadTyped DEF PollLoad, QuitLoad, UnwindLoad, Active
<1>2. CASE onLoad.st # "none" /\ onLoad' = NoFuture /\ content' \in State
  <2>1. onSave.st = "none" /\ onLoad'.st = "none"
    BY <1>2 DEF IInv, HandlersExclusive, NoFuture
  <2> QED BY <1>1, <1>2, <2>1
      DEF Contract!CompleteLoad, Contract!LoadRequest, Contract!NoRequest,
          Request, Active
<1>3. CASE UNCHANGED <<onLoad, content>>
  BY <1>1, <1>3, SameRequest DEF Contract!vars, Active
<1>4. \/ onLoad.st # "none" /\ onLoad' = NoFuture /\ content' \in State
      \/ UNCHANGED <<onLoad, content>>
  <2>1. CASE PollLoad \/ QuitLoad
    BY <2>1, TakeLoadTyped DEF PollLoad, QuitLoad, Collectable
  <2>2. CASE UnwindLoad
    BY <2>2 DEF UnwindLoad, IInv, TypeOK
  <2> QED BY <2>1, <2>2
<1> QED BY <1>2, <1>3, <1>4

\* A save is delivered once, by its thread or by the loop that runs it; taking
\* the future of a delivered save changes nothing more.
LEMMA DeliverImplements ==
  ASSUME IInv, PollSave \/ QuitSave \/ UnwindSave \/ SaveHandler \/ LoadHandler
  PROVE  Contract!CompleteSave \/ UNCHANGED Contract!vars
<1>1. (Active <=> Active') /\ UNCHANGED content
  <2>1. CASE PollSave \/ QuitSave \/ UnwindSave
    BY <2>1, TakeSaveTyped DEF PollSave, QuitSave, UnwindSave, Active
  <2>2. CASE SaveHandler \/ LoadHandler
    BY <2>2 DEF SaveHandler, LoadHandler, Active
  <2> QED BY <2>1, <2>2
<1>2. CASE /\ onSave.st \in {"running", "deferred"}
           /\ onSave'.st \in {"none", "ready"} /\ delivered' = onSave.val
           /\ onLoad' = onLoad
  <2>1. onLoad.st = "none"
    BY <1>2 DEF IInv, HandlersExclusive
  <2> QED BY <1>1, <1>2, <2>1
      DEF Contract!CompleteSave, Contract!NoRequest, Request, Active
<1>3. CASE UNCHANGED <<Request, delivered>>
  BY <1>1, <1>3 DEF Contract!vars, Active
<1>4. CASE SaveHandler
  BY <1>2, <1>4 DEF SaveHandler
<1>5. CASE LoadHandler
  BY <1>3, <1>5 DEF LoadHandler, Request
<1>6. CASE PollSave \/ QuitSave \/ UnwindSave
  <2>1. \/ UNCHANGED <<onSave, delivered>>
        \/ onSave.st = "ready" /\ onSave' = NoFuture /\ delivered' = delivered
        \/ /\ onSave.st = "deferred" /\ onSave' = NoFuture
           /\ delivered' = onSave.val
    BY <1>6 DEF PollSave, QuitSave, UnwindSave, TakeSave, Collectable, IInv,
                TypeOK, FutureState, DeferredRunsAtOnce
  <2>2. onLoad' = onLoad
    BY <1>6 DEF PollSave, QuitSave, UnwindSave
  <2> QED BY <1>2, <1>3, <2>1, <2>2, SameRequest DEF Request, NoFuture
<1> QED BY <1>4, <1>5, <1>6

LEMMA ImplementsInit == Init => Contract!Init
BY DEF Init, Contract!Init, Contract!NoRequest, Request, NoFuture

LEMMA ImplementsNext == IInv /\ [Next]_vars => [Contract!Next]_(Contract!vars)
<1> SUFFICES ASSUME IInv, [Next]_vars
             PROVE  Contract!Next \/ UNCHANGED Contract!vars
  OBVIOUS
<1>1. CASE Next
  BY <1>1, ClientImplements, PlainStepImplements, AcceptImplements,
     TakeLoadImplements, DeliverImplements
     DEF Next, Loop, Service, Contract!Next
<1>2. CASE UNCHANGED vars
  BY <1>2 DEF vars, Contract!vars, Request
<1> QED BY <1>1, <1>2

\* Every behaviour of Machine is one of the contract: its initial states, and
\* each of its steps, are.
THEOREM Implementation == Spec => ImplementsContract
BY ImplementsInit, ImplementsNext, Invariant, PTL
   DEF Spec, ImplementsContract, Contract!Spec

-----------------------------------------------------------------------------
(* How a run ends.                                                         *)

\* A run has ended and running_ is still set.
Failed == running /\ loop = "none"

\* Nothing is left that could take a step: the calls that are not refused need
\* running_ clear or a loop to wait for, and the handlers ended with the loop.
LEMMA FailedStays == IInv /\ Failed /\ [Next]_vars => UNCHANGED vars
<1> SUFFICES ASSUME IInv, Failed, Next PROVE FALSE
  OBVIOUS
<1>1. HandlersIdle
  BY DEF IInv, HandlersWithinLoop, Failed
<1>2. CASE Configure \/ RunRefused \/ Run \/ WaitForCompletion
  BY <1>2 DEF Configure, SetMemoryController, SetIoController, OnLoad, OnSave,
     SetOptions, SetClockResolution, MayConfigure, RunRefused, Run, MayRun,
     WaitForCompletion, Failed
<1>3. CASE Get
  BY <1>3 DEF Get, Failed
<1>4. CASE LoadHandler \/ SaveHandler
  BY <1>1, <1>4 DEF LoadHandler, SaveHandler, HandlersIdle
<1>5. CASE Loop
  BY <1>5 DEF Failed, Loop, Start, PowerOff, Execute, Service, ServiceRst,
     ServiceLoad, ServiceSave, ServiceNothing, ServiceNoInterrupt,
     ServiceQuit, ServiceFault, Goto, PollLoad, PollSave, QuitLoad, QuitSave,
     Quit, UnwindSave, UnwindLoad, Unwound
<1> QED BY <1>2, <1>3, <1>4, <1>5 DEF Next, Client

\* An exception that leaves the loop, and a runAsync that is not a boolean, fail
\* the run; and no call of any kind ever changes a machine whose run failed: it
\* cannot be configured, run or waited for again (Machine.cpp:164-173, 461-471).
THEOREM FailureIsFinal ==
  Spec => /\ [][~Failed]_vars
          /\ [][Get /\ loop = "threw" => Failed']_vars
          /\ [][Run /\ opts.runAsync = "illegal" => Failed']_vars
<1>1. IInv /\ [Next]_vars => [~Failed]_vars
  BY FailedStays
<1>2. IInv /\ [Next]_vars => [Get /\ loop = "threw" => Failed']_vars
  BY DEF IInv, RunningWhileLoop, Get, Failed
<1>3. IInv /\ [Next]_vars => [Run /\ opts.runAsync = "illegal" => Failed']_vars
  BY DEF IInv, RunningWhileLoop, Run, MayRun, Failed
<1> QED BY <1>1, <1>2, <1>3, Invariant, PTL DEF Spec

LEMMA PendingTyped ==
  ASSUME IInv
  PROVE  Pending(onLoad) \in 0 .. 2 /\ Pending(onSave) \in 0 .. 2
BY DEF Pending

\* While a run ends every step is one on the way out, and the last takes the
\* result: the client cannot reconfigure, nor the loop start a handler.
LEMMA EndingStep ==
  ASSUME IInv, Ending, Next
  PROVE  loop' = "none" \/ (Ending' /\ StepsLeft' < StepsLeft)
<1>1. running
  BY DEF IInv, RunningWhileLoop, Ending
<1>2. CASE Client
  <2>1. WaitForCompletion \/ Get
    BY <1>1, <1>2 DEF Client, Configure, SetMemoryController, SetIoController,
       OnLoad, OnSave, SetOptions, SetClockResolution, MayConfigure,
       RunRefused, Run, MayRun
  <2>2. CASE WaitForCompletion
    <3>1. /\ client = "idle" /\ client' = "waiting"
          /\ UNCHANGED <<loop, powerOff, onLoad, onSave>>
      BY <2>2 DEF WaitForCompletion, bus, handlers
    <3>2. PhasesLeft' = PhasesLeft /\ PhasesLeft \in Nat
      BY <3>1 DEF PhasesLeft
    <3> QED BY <3>1, <3>2, PendingTyped DEF Ending, StepsLeft, Pending
  <2>3. CASE Get
    BY <2>3 DEF Get
  <2> QED BY <2>1, <2>2, <2>3
<1>3. CASE LoadHandler
  <2>1. /\ onLoad.st = "running" /\ onLoad'.st = "ready"
        /\ UNCHANGED <<loop, powerOff, client, onSave>>
    BY <1>3 DEF LoadHandler, Unattended, bus
  <2>2. PhasesLeft' = PhasesLeft /\ PhasesLeft \in Nat
    BY <2>1 DEF PhasesLeft
  <2> QED BY <2>1, <2>2, PendingTyped DEF Ending, StepsLeft, Pending
<1>4. CASE SaveHandler
  <2>1. /\ onSave.st = "running" /\ onSave'.st = "ready"
        /\ UNCHANGED <<loop, powerOff, client, onLoad>>
    BY <1>4 DEF SaveHandler, Unattended, bus
  <2>2. PhasesLeft' = PhasesLeft /\ PhasesLeft \in Nat
    BY <2>1 DEF PhasesLeft
  <2> QED BY <2>1, <2>2, PendingTyped DEF Ending, StepsLeft, Pending
<1>5. CASE Loop
  <2>1. client' = client
    BY <1>5 DEF Loop, Start, PowerOff, Execute, Service, ServiceRst,
       ServiceLoad, ServiceSave, ServiceNothing, ServiceNoInterrupt,
       ServiceQuit, ServiceFault, Goto, PollLoad, PollSave, QuitLoad, QuitSave,
       Quit, UnwindSave, UnwindLoad, Unwound, Unattended
  <2>2. CASE QuitLoad
    <3>1. /\ loop = "quitLoad" /\ loop' \in {"quitSave", "unwind"}
          /\ onSave' = onSave /\ onLoad'.st = "none"
      BY <2>2 DEF QuitLoad, TakeLoad, NoFuture
    <3> QED BY <2>1, <3>1, PendingTyped DEF Ending, StepsLeft, PhasesLeft, Pending
  <2>3. CASE QuitSave
    <3>1. /\ loop = "quitSave" /\ loop' \in {"quit", "unwind"}
          /\ onLoad' = onLoad /\ onSave'.st = "none"
      BY <2>3 DEF QuitSave, TakeSave, NoFuture
    <3> QED BY <2>1, <3>1, PendingTyped DEF Ending, StepsLeft, PhasesLeft, Pending
  <2>4. CASE Quit \/ PowerOff \/ Unwound
    <3>1. /\ \/ loop = "quit" /\ loop' = "top" /\ powerOff'
             \/ loop = "top" /\ loop' = "returned"
             \/ loop = "unwind" /\ loop' = "threw"
          /\ UNCHANGED <<onLoad, onSave>>
      BY <2>4 DEF Quit, PowerOff, Unwound, handlers
    <3> QED BY <2>1, <3>1, PendingTyped DEF Ending, StepsLeft, PhasesLeft, Pending
  <2>5. CASE UnwindSave \/ UnwindLoad
    <3>1. /\ loop = "unwind" /\ loop' = "unwind"
          /\ \/ onSave.st # "none" /\ onSave'.st = "none" /\ onLoad' = onLoad
             \/ onLoad.st # "none" /\ onLoad'.st = "none" /\ onSave' = onSave
      BY <2>5 DEF UnwindSave, UnwindLoad, NoFuture
    <3> QED BY <2>1, <3>1, PendingTyped DEF Ending, StepsLeft, PhasesLeft, Pending
  <2> QED
    BY <1>5, <2>2, <2>3, <2>4, <2>5
       DEF Ending, Loop, Start, Execute, Service, ServiceRst, ServiceLoad,
           ServiceSave, ServiceNothing, ServiceNoInterrupt, ServiceQuit,
           ServiceFault, Goto, PollLoad, PollSave
<1> QED BY <1>2, <1>3, <1>4, <1>5 DEF Next

\* Whatever the scheduler does, a run that has begun to end takes at most eight
\* more steps, its handlers and its client included, and the last one gives the
\* result to the caller; with the fairness of PyFairness it is EndReachesClient
\* (ISR::Quit and the unwinding of Machine::Run).
THEOREM EndingAdvances ==
  Spec => /\ [](Ending => StepsLeft \in 1 .. 8)
          /\ EndingBounded
<1>1. IInv => (Ending => StepsLeft \in 1 .. 8)
  <2> SUFFICES ASSUME IInv PROVE StepsLeft \in 1 .. 8
    OBVIOUS
  <2>1. Pending(onLoad) = 0 \/ Pending(onSave) = 0
    BY DEF IInv, HandlersExclusive, Pending
  <2>2. PhasesLeft \in 1 .. 5
    BY DEF PhasesLeft
  <2> QED BY <2>1, <2>2, PendingTyped DEF StepsLeft
<1>2. IInv /\ [Next]_vars
        => [Ending => loop' = "none" \/ (Ending' /\ StepsLeft' < StepsLeft)]_vars
  BY EndingStep
<1> QED BY <1>1, <1>2, Invariant, PTL DEF Spec, EndingBounded
=============================================================================
