------------------------------ MODULE Machine ------------------------------
(***************************************************************************)
(* src/Machine/source/Machine.cpp: the public calls of a Machine (made by  *)
(* one client thread, IMachine.h:33-35), the execution loop they start     *)
(* (run by std::async, deferred on the client or on a thread of its own),  *)
(* and the load and save handlers the loop starts (deferred on the loop or *)
(* on threads of their own).                                               *)
(*                                                                         *)
(* What one instruction computes, and when interrupts are serviced, is     *)
(* left to the other modules: here an instruction yields any cpu and ram,  *)
(* and a service point may follow any instruction.                         *)
(***************************************************************************)
EXTENDS Naturals

CONSTANTS
  Val,               \* values a byte of ram, or the whole cpu, may hold
  RamSize,           \* bytes of ram in the layout of the "ram" option
  MemoryControllers, \* the memory controllers a client can install
  Anonymous,         \* those of them whose Uuid() is all zero
  Misfit,            \* reasons for which a load state is refused
  OptionValue,       \* "on", "off", and "illegal" for a non boolean value
  MemoryFaults,      \* a memory controller may throw std::exception
  IoFaults,          \* an io controller may throw std::exception
  AlienFaults,       \* a callback may throw something else
  None,              \* a null pointer, an empty string
  Thrown,            \* an exception that nobody caught, held by a future
  Unused             \* the content of a future that has none yet

ASSUME MachineAssumption ==
  /\ RamSize \in Nat
  /\ Anonymous \subseteq MemoryControllers
  /\ OptionValue \subseteq {"on", "off", "illegal"}
  /\ MemoryFaults \in BOOLEAN /\ IoFaults \in BOOLEAN /\ AlienFaults \in BOOLEAN
  /\ None \notin MemoryControllers
  /\ "ok" \notin Misfit

Ram == 1 .. RamSize

\* What a save state holds, and what a load replaces: registers and ram.
State == [cpu : Val, ram : [Ram -> Val]]

\* A load state as far as the compatibility checks tell one from another.
Json == [fit : Misfit \cup {"ok"}, state : State]

\* What the load handler's future can hold: json, the empty string after a
\* caught std::exception or a null json, or an exception nobody caught.
LoadOutcome == Json \cup {None} \cup (IF AlienFaults THEN {Thrown} ELSE {})
SaveOutcome == {None} \cup (IF AlienFaults THEN {Thrown} ELSE {})

Options == [runAsync : OptionValue, loadAsync : OptionValue,
            saveAsync : OptionValue, clockResolution : {"legal", "illegal"}]

Callback == {"load", "save"}

VARIABLES
  memory,    \* memoryController_
  io,        \* is ioController_ set
  opts,      \* the options the loop reads
  callbacks, \* which of onLoad_, onSave_ are set
  running,   \* running_
  client,    \* where the client thread is
  loop,      \* where the execution loop is; "none" when fut_ is not valid
  policy,    \* launch policies the loop captured
  powerOff,  \* Signal::PowerOff on the control bus
  interrupt, \* Signal::Interrupt on the control bus
  content,   \* registers and ram
  onLoad,    \* the loop's future of the load handler
  onSave,    \* the loop's future of the save handler
  delivered  \* the state most recently passed to the user's onSave

config == <<memory, io, opts, callbacks>>
bus == <<powerOff, interrupt>>
handlers == <<onLoad, onSave, delivered>>
vars == <<memory, io, opts, callbacks, running, client, loop, policy,
          powerOff, interrupt, content, onLoad, onSave, delivered>>

NoFuture == [st |-> "none", val |-> Unused]
NoPolicy == [load |-> "off", save |-> "off"]

Init ==
  /\ memory = None /\ io = FALSE /\ callbacks = {}
  /\ opts \in Options
  /\ running = FALSE /\ client = "idle" /\ loop = "none"
  /\ policy = NoPolicy
  /\ powerOff = FALSE /\ interrupt = FALSE
  /\ content \in State
  /\ onLoad = NoFuture /\ onSave = NoFuture /\ delivered = None

-----------------------------------------------------------------------------
(* The client thread.  A call that throws before it changed anything is a  *)
(* step that changes nothing and has no action of its own.                 *)

NoRun == UNCHANGED <<running, client, loop, policy, bus, handlers>>

\* Mutant: the setters forget to test running_.
MayConfigureAnyTime == client = "idle"

MayConfigure == client = "idle" /\ ~running

SetMemoryController(c) ==
  /\ MayConfigure
  /\ memory' = c
  /\ \E ram \in [Ram -> Val] : content' = [content EXCEPT !.ram = ram]
  /\ UNCHANGED <<io, opts, callbacks>> /\ NoRun

SetIoController ==
  /\ MayConfigure
  /\ io' = TRUE
  /\ UNCHANGED <<memory, opts, callbacks, content>> /\ NoRun

\* OnLoad and OnSave accept an empty std::function, which unregisters.
OnLoad(set) ==
  /\ MayConfigure
  /\ callbacks' = IF set THEN callbacks \cup {"load"} ELSE callbacks \ {"load"}
  /\ UNCHANGED <<memory, io, opts, content>> /\ NoRun

OnSave(set) ==
  /\ MayConfigure
  /\ callbacks' = IF set THEN callbacks \cup {"save"} ELSE callbacks \ {"save"}
  /\ UNCHANGED <<memory, io, opts, content>> /\ NoRun

\* Opt::SetOptions merges whatever it is given: no value is checked here.
SetOptions(o) ==
  /\ MayConfigure
  /\ opts' = o
  /\ UNCHANGED <<memory, io, callbacks, content>> /\ NoRun

\* The deprecated setter stores a resolution only after its range check.
SetClockResolution ==
  /\ MayConfigure
  /\ opts' = [opts EXCEPT !.clockResolution = "legal"]
  /\ UNCHANGED <<memory, io, callbacks, content>> /\ NoRun

MayRun == client = "idle" /\ memory # None /\ io /\ ~running

\* The cpu is reset before the clock resolution is read, so a Run that throws
\* over an illegal resolution leaves a reset cpu.
RunRefused ==
  /\ MayRun
  /\ opts.clockResolution = "illegal"
  /\ \E cpu \in Val : content' = [content EXCEPT !.cpu = cpu]
  /\ UNCHANGED config /\ NoRun

\* running_ is set before runAsync is read: if that is not a boolean, Run
\* throws with running_ set and no loop started.
Run ==
  /\ MayRun
  /\ opts.clockResolution = "legal"
  /\ \E cpu \in Val : content' = [content EXCEPT !.cpu = cpu]
  /\ running' = TRUE
  /\ \/ opts.runAsync = "on" /\ loop' = "start" /\ client' = client
     \/ opts.runAsync = "off" /\ loop' = "start" /\ client' = "inRun"
     \/ opts.runAsync = "illegal" /\ UNCHANGED <<loop, client>>
  /\ UNCHANGED <<config, policy, bus, handlers>>

\* Mutant: running_ is cleared before the loop is waited for.
WaitForCompletionEarly ==
  /\ client = "idle" /\ loop # "none"
  /\ client' = "waiting" /\ running' = FALSE
  /\ UNCHANGED <<config, loop, policy, bus, content, handlers>>

\* With no valid future WaitForCompletion returns 0 at once: no step.
WaitForCompletion ==
  /\ client = "idle" /\ loop # "none"
  /\ client' = "waiting"
  /\ UNCHANGED <<config, running, loop, policy, bus, content, handlers>>

\* fut_.get() in Run and in WaitForCompletion.  An exception of the loop
\* propagates through it, past the assignment to running_.
Get ==
  /\ client \in {"inRun", "waiting"}
  /\ \/ loop = "returned" /\ running' = FALSE
     \/ loop = "threw" /\ running' = running
  /\ loop' = "none" /\ client' = "idle"
  /\ UNCHANGED <<config, policy, bus, content, handlers>>

-----------------------------------------------------------------------------
(* The execution loop.                                                     *)

\* Steps of the loop and of the handlers leave the client's side alone.
Unattended == UNCHANGED <<config, running, client>>

Goto(from, to) ==
  /\ loop = from /\ loop' = to
  /\ Unattended /\ UNCHANGED <<policy, bus, content, handlers>>

\* LoadAsync() and SaveAsync() throw when the option is not a boolean.
Start ==
  /\ loop = "start"
  /\ IF "illegal" \in {opts.loadAsync, opts.saveAsync}
     THEN loop' = "unwind" /\ policy' = policy
     ELSE /\ loop' = "top"
          /\ policy' = [load |-> opts.loadAsync, save |-> opts.saveAsync]
  /\ Unattended /\ UNCHANGED <<bus, content, handlers>>

\* Mutant: the signal is looked at but not taken off the bus.
PowerOffPeek ==
  /\ loop = "top" /\ powerOff
  /\ loop' = "returned" /\ policy' = NoPolicy
  /\ Unattended /\ UNCHANGED <<bus, content, handlers>>

\* The while condition: Receive takes the signal off the control bus.
PowerOff ==
  /\ loop = "top" /\ powerOff
  /\ loop' = "returned" /\ powerOff' = FALSE /\ policy' = NoPolicy
  /\ Unattended /\ UNCHANGED <<interrupt, content, handlers>>

\* One instruction, which also consumes a pending interrupt, and the test of
\* the ticks that lead to a service point.
Execute ==
  /\ loop = "top" /\ ~powerOff
  /\ content' \in State
  /\ interrupt' = FALSE
  /\ loop' \in {"top", "service"} \cup
               (IF MemoryFaults \/ IoFaults THEN {"unwind"} ELSE {})
  /\ Unattended /\ UNCHANGED <<policy, powerOff, handlers>>

HandlersIdle == onLoad.st = "none" /\ onSave.st = "none"

Launch(async, val) ==
  [st |-> IF async = "on" THEN "running" ELSE "deferred", val |-> val]

ServiceRst ==
  /\ loop = "service"
  /\ interrupt' = TRUE /\ loop' = "top"
  /\ Unattended /\ UNCHANGED <<policy, powerOff, content, handlers>>

MayLoad == "load" \in callbacks /\ HandlersIdle

\* Mutant: a save does not look at the load in progress.
MaySaveDuringLoad ==
  "save" \in callbacks /\ onSave.st = "none" /\ memory \notin Anonymous

MaySave == "save" \in callbacks /\ HandlersIdle /\ memory \notin Anonymous

ServiceLoad ==
  /\ loop = "service"
  /\ IF MayLoad
     THEN onLoad' = Launch(policy.load, Unused) /\ loop' = "pollLoad"
     ELSE onLoad' = onLoad /\ loop' = "top"
  /\ Unattended /\ UNCHANGED <<policy, bus, content, onSave, delivered>>

\* Mutant: no checkHandler after std::async, so a deferred save stays behind.
ServiceSaveUnpolled ==
  /\ loop = "service"
  /\ loop' = "top"
  /\ onSave' = IF MaySave THEN Launch(policy.save, content) ELSE onSave
  /\ Unattended /\ UNCHANGED <<policy, bus, content, onLoad, delivered>>

\* The whole state is read on the loop's thread, before the handler starts.
ServiceSave ==
  /\ loop = "service"
  /\ IF MaySave
     THEN onSave' = Launch(policy.save, content) /\ loop' = "pollSave"
     ELSE onSave' = onSave /\ loop' = "top"
  /\ Unattended /\ UNCHANGED <<policy, bus, content, onLoad, delivered>>

\* A read that throws while the state is gathered is caught: no save starts.
\* The default branch of the switch also does nothing.
ServiceNothing == Goto("service", "top")

ServiceNoInterrupt == Goto("service", "pollLoad")

ServiceQuit == Goto("service", "quitLoad")

ServiceFault == IoFaults /\ Goto("service", "unwind")

Loadable(json) == json.fit = "ok" /\ memory \notin Anonymous

\* loadMachineState: every check comes before the first write, then the cpu
\* and the ram are written, byte by byte.  A controller that throws, reading the
\* rom for the checks or writing the n-th byte, ends the load: the exception is
\* caught and what was written stays.
Partly(json, n) ==
  [cpu |-> json.state.cpu,
   ram |-> [i \in Ram |-> IF i < n THEN json.state.ram[i] ELSE content.ram[i]]]

LoadMachineState(json) ==
  IF json = None \/ ~Loadable(json) THEN content' = content
  ELSE \/ content' = json.state
       \/ /\ MemoryFaults
          /\ \/ content' = content
             \/ \E n \in Ram : content' = Partly(json, n)

\* fut.get(): a deferred handler runs here, on the loop's thread.
LoadResults ==
  IF onLoad.st = "deferred" THEN LoadOutcome ELSE {onLoad.val}
SaveResults ==
  IF onSave.st = "deferred" THEN SaveOutcome ELSE {onSave.val}

Collectable(fut) == fut.st \in {"ready", "deferred"}

TakeLoad(next) ==
  \E json \in LoadResults :
    /\ onLoad' = NoFuture
    /\ IF json = Thrown THEN loop' = "unwind" /\ content' = content
                        ELSE loop' = next /\ LoadMachineState(json)

TakeSave(next) ==
  \E result \in SaveResults :
    /\ onSave' = NoFuture
    /\ delivered' = IF onSave.st = "deferred" THEN onSave.val ELSE delivered
    /\ loop' = IF result = Thrown THEN "unwind" ELSE next

\* loadMachineState(checkHandler(onLoad))
PollLoad ==
  /\ loop = "pollLoad"
  /\ IF Collectable(onLoad) THEN TakeLoad("pollSave")
     ELSE loop' = "pollSave" /\ UNCHANGED <<onLoad, content>>
  /\ Unattended /\ UNCHANGED <<policy, bus, onSave, delivered>>

\* checkHandler(onSave)
PollSave ==
  /\ loop = "pollSave"
  /\ IF Collectable(onSave) THEN TakeSave("top")
     ELSE loop' = "top" /\ UNCHANGED <<onSave, delivered>>
  /\ Unattended /\ UNCHANGED <<policy, bus, content, onLoad>>

\* ISR::Quit: wait for, and take, whatever handler is outstanding.
QuitLoad ==
  /\ loop = "quitLoad"
  /\ IF onLoad.st = "none" THEN loop' = "quitSave" /\ UNCHANGED <<onLoad, content>>
     ELSE Collectable(onLoad) /\ TakeLoad("quitSave")
  /\ Unattended /\ UNCHANGED <<policy, bus, onSave, delivered>>

\* Mutant: quitting only polls the save handler.
QuitSavePolled ==
  /\ loop = "quitSave"
  /\ IF Collectable(onSave) THEN TakeSave("quit")
     ELSE loop' = "quit" /\ UNCHANGED <<onSave, delivered>>
  /\ Unattended /\ UNCHANGED <<policy, bus, content, onLoad>>

QuitSave ==
  /\ loop = "quitSave"
  /\ IF onSave.st = "none" THEN loop' = "quit" /\ UNCHANGED <<onSave, delivered>>
     ELSE Collectable(onSave) /\ TakeSave("quit")
  /\ Unattended /\ UNCHANGED <<policy, bus, content, onLoad>>

\* Mutant: the handlers are awaited but PowerOff is not sent.
QuitUnsent == Goto("quit", "top")

Quit ==
  /\ loop = "quit"
  /\ powerOff' = TRUE /\ loop' = "top"
  /\ Unattended /\ UNCHANGED <<policy, interrupt, content, handlers>>

\* An exception leaves the loop.  The destructor of a future of std::async
\* waits for its thread and drops the result; onSave is destroyed first.
UnwindSave ==
  /\ loop = "unwind" /\ onSave.st \notin {"none", "running"}
  /\ onSave' = NoFuture
  /\ Unattended /\ UNCHANGED <<loop, policy, bus, content, onLoad, delivered>>

UnwindLoad ==
  /\ loop = "unwind" /\ onSave.st = "none" /\ onLoad.st \notin {"none", "running"}
  /\ onLoad' = NoFuture
  /\ Unattended /\ UNCHANGED <<loop, policy, bus, content, onSave, delivered>>

\* Mutant: the futures are dropped without waiting for their threads.
UnwoundDetached ==
  /\ loop = "unwind"
  /\ loop' = "threw" /\ policy' = NoPolicy
  /\ Unattended /\ UNCHANGED <<bus, content, handlers>>

Unwound ==
  /\ loop = "unwind" /\ HandlersIdle
  /\ loop' = "threw" /\ policy' = NoPolicy
  /\ Unattended /\ UNCHANGED <<bus, content, handlers>>

-----------------------------------------------------------------------------
(* The handler threads, when launched asynchronously.                      *)

LoadHandler ==
  /\ onLoad.st = "running"
  /\ \E json \in LoadOutcome : onLoad' = [st |-> "ready", val |-> json]
  /\ Unattended /\ UNCHANGED <<loop, policy, bus, content, onSave, delivered>>

\* Mutant: the handler captures the machine instead of the gathered state.
SaveHandlerLive ==
  /\ onSave.st = "running"
  /\ delivered' = content
  /\ \E result \in SaveOutcome : onSave' = [st |-> "ready", val |-> result]
  /\ Unattended /\ UNCHANGED <<loop, policy, bus, content, onLoad>>

\* Mutant: the handler captures a reference to a state that was moved away.
SaveHandlerMovedFrom ==
  /\ onSave.st = "running"
  /\ delivered' = Unused
  /\ \E result \in SaveOutcome : onSave' = [st |-> "ready", val |-> result]
  /\ Unattended /\ UNCHANGED <<loop, policy, bus, content, onLoad>>

SaveHandler ==
  /\ onSave.st = "running"
  /\ delivered' = onSave.val
  /\ \E result \in SaveOutcome : onSave' = [st |-> "ready", val |-> result]
  /\ Unattended /\ UNCHANGED <<loop, policy, bus, content, onLoad>>

-----------------------------------------------------------------------------
Configure ==
  \/ \E c \in MemoryControllers : SetMemoryController(c)
  \/ SetIoController
  \/ \E set \in BOOLEAN : OnLoad(set) \/ OnSave(set)
  \/ \E o \in Options : SetOptions(o)
  \/ SetClockResolution

Client == Configure \/ RunRefused \/ Run \/ WaitForCompletion \/ Get

Service ==
  \/ ServiceRst \/ ServiceLoad \/ ServiceSave \/ ServiceNothing
  \/ ServiceNoInterrupt \/ ServiceQuit \/ ServiceFault

Loop ==
  \/ Start \/ PowerOff \/ Execute \/ Service
  \/ PollLoad \/ PollSave \/ QuitLoad \/ QuitSave \/ Quit
  \/ UnwindSave \/ UnwindLoad \/ Unwound

Next == Client \/ Loop \/ LoadHandler \/ SaveHandler

\* What must happen eventually is a matter of who schedules the threads: see
\* PyFairness of MachinePy, which has a client in C++ as a special case.
Spec == Init /\ [][Next]_vars

-----------------------------------------------------------------------------
(* Properties.                                                             *)

LoopPhase == {"none", "start", "top", "service", "pollLoad", "pollSave",
              "quitLoad", "quitSave", "quit", "unwind", "returned", "threw"}

FutureState == {"none", "running", "deferred", "ready"}

\* Every variable holds a value of its kind.
TypeOK ==
  /\ memory \in MemoryControllers \cup {None}
  /\ io \in BOOLEAN
  /\ opts \in Options
  /\ callbacks \subseteq Callback
  /\ running \in BOOLEAN
  /\ client \in {"idle", "inRun", "waiting"}
  /\ loop \in LoopPhase
  /\ policy \in [load : OptionValue \cup {"off"}, save : OptionValue \cup {"off"}]
  /\ powerOff \in BOOLEAN /\ interrupt \in BOOLEAN
  /\ content \in State
  /\ onLoad \in [st : FutureState, val : LoadOutcome \cup {Unused}]
  /\ onSave \in [st : FutureState, val : State \cup SaveOutcome \cup {Unused}]
  /\ delivered \in State \cup {None}

\* A load and a save are never in progress at the same time (IMachine.h:231).
HandlersExclusive == onLoad.st = "none" \/ onSave.st = "none"

\* While a loop exists running_ is set, so no setter can change what the loop
\* and the handler threads read.
RunningWhileLoop == loop # "none" => running

\* A handler exists only inside the loop that started it: when the loop has
\* begun to quit with the handlers awaited, has returned or has thrown, no user
\* callback is running and no finished result is left behind.
HandlersWithinLoop ==
  /\ ~HandlersIdle => loop \notin {"none", "start", "quit", "returned", "threw"}
  /\ onLoad.st # "none" => loop # "quitSave"

\* The signals of the control bus are consumed by the very next instruction
\* boundary: an interrupt never meets a pending power off, another service
\* point or the next run, and a power off finds every handler collected.
SignalsConsumed ==
  /\ interrupt => loop = "top" /\ ~powerOff
  /\ powerOff => loop = "top" /\ HandlersIdle

\* A deferred handler runs before the loop does anything else: it never stays
\* behind to block later requests.
DeferredRunsAtOnce ==
  /\ onLoad.st = "deferred" => loop = "pollLoad"
  /\ onSave.st = "deferred" => loop = "pollSave"

\* What the loop and the handler threads read without a lock - the controllers,
\* the callbacks, the options - does not change while a loop exists.
ConfigFrozen == [][loop # "none" => UNCHANGED config]_vars

AppliesWholeLoad ==
  /\ Collectable(onLoad)
  /\ \E json \in LoadResults \cap Json :
       Loadable(json) /\ content' = json.state

\* Collecting a load replaces the cpu and the ram together by what one
\* compatible load state holds, or changes nothing (IMachine.h:265).
LoadAllOrNothing ==
  [][(loop = "pollLoad" \/ loop = "quitLoad")
       => UNCHANGED content \/ AppliesWholeLoad]_vars

\* running_ is set exactly while a run is in progress: a setter that throws
\* "the machine is currently running" (IMachine.h:147, 154) tells the truth.
RunningOnlyDuringRun == running => loop # "none"

\* The loop serves Quit, has sent PowerOff, is left by an exception, or is over and
\* its caller has not taken the result yet.
Ending ==
  \/ loop \in {"quitLoad", "quitSave", "quit", "unwind", "returned", "threw"}
  \/ loop = "top" /\ powerOff

\* How many steps a future is away from being collected or destroyed.
Pending(fut) ==
  IF fut.st = "none" THEN 0 ELSE IF fut.st = "running" THEN 2 ELSE 1

PhasesLeft ==
  CASE loop = "quitLoad" -> 5
    [] loop = "quitSave" -> 4
    [] loop = "quit" -> 3
    [] loop \in {"top", "unwind"} -> 2
    [] OTHER -> 1

\* The steps that may be left: those of the loop, of the handlers it waits for,
\* and the client's call of WaitForCompletion.
StepsLeft ==
  PhasesLeft + Pending(onLoad) + Pending(onSave) + (IF client = "idle" THEN 1 ELSE 0)

\* While a run ends, every step of any thread is one on the way out: no setting
\* changes the course, no handler starts, and the last step gives the result to
\* the caller (ISR::Quit, PowerOff, the unwinding of Machine::Run).
EndingBounded ==
  [][Ending => loop' = "none" \/ (Ending' /\ StepsLeft' < StepsLeft)]_vars

\* Once the loop serves ISR::Quit, or an exception leaves it, the client that
\* is blocked in Run or WaitForCompletion gets control back (IMachine.h:82-84).
EndReachesClient ==
  client \in {"inRun", "waiting"} /\
  loop \in {"quitLoad", "quitSave", "quit", "unwind", "returned", "threw"}
    ~> client = "idle"

\* The request in progress as a user sees it: a save is over when its callback
\* returned, a load when the loop took its result.
Request ==
  IF onLoad.st # "none" THEN [kind |-> "load", state |-> None]
  ELSE IF onSave.st \in {"running", "deferred"}
       THEN [kind |-> "save", state |-> onSave.val]
       ELSE [kind |-> "none", state |-> None]

Contract == INSTANCE SaveLoad WITH
  active <- loop \notin {"none", "returned", "threw"},
  request <- Request

\* The loop, its futures and the handler threads implement the save and load
\* contract of IMachine.h: one request at a time, a save delivers the state at
\* the moment of its acceptance, and a run ends only with no request left.
ImplementsContract == Contract!Spec
=============================================================================
