------------------------------ MODULE MachinePy ------------------------------
(***************************************************************************)
(* src/MachinePy: a Machine called from Python (MachineHolder) whose       *)
(* controllers and callbacks are Python objects (ControllerPy), beside the *)
(* same Machine called from C++.                                           *)
(*                                                                         *)
(* Python code runs only on the thread that holds the interpreter lock.    *)
(* pybind11 takes the lock around each call of a controller or callback,   *)
(* and the interpreter makes a thread that runs Python code give it up     *)
(* while others ask for it; C++ code keeps it until it says otherwise.     *)
(***************************************************************************)
EXTENDS Machine

CONSTANT Bindings \* "none" for a client in C++, "main" for one in Python

ASSUME BindingsAssumption == Bindings \subseteq {"none", "main"}

\* The interpreter lock: "none" when there is no interpreter, "main" while the
\* client's thread holds it, "free" when it does not.  The other threads take
\* and release it within a step.
VARIABLE lock

pyVars == <<vars, lock>>

PyInit == Init /\ lock \in Bindings

Python == lock # "none"

\* Can the client's thread run; can another thread acquire the lock.
Holds == lock # "free"
Available == lock # "main"

With(holder) == lock' = IF Python THEN holder ELSE lock

\* The client's thread runs Python code: the script, or in a synchronous run
\* the controllers, which Execute and ServiceInterrupts call.
Interpreting ==
  \/ client = "idle"
  \/ client = "inRun" /\ (loop = "service" \/ (loop = "top" /\ ~powerOff))

Yield == lock = "main" /\ Interpreting /\ lock' = "free" /\ UNCHANGED vars

Reacquire ==
  lock = "free" /\ client # "waiting" /\ lock' = "main" /\ UNCHANGED vars

-----------------------------------------------------------------------------
(* MachineHolder.                                                          *)

\* The function that OnLoad and OnSave pass on is never empty: None becomes one
\* that throws, and a callback once set cannot be unregistered. The lock is asked
\* of this function as of any callback, although it throws without.
HolderOnLoad == OnLoad(TRUE)
HolderOnSave == OnSave(TRUE)

\* It goes through SetOptions, past the range check of the machine's own
\* SetClockResolution.
HolderSetClockResolution ==
  \E resolution \in {"legal", "illegal"} :
    SetOptions([opts EXCEPT !.clockResolution = resolution])

HolderConfigure ==
  \/ \E c \in MemoryControllers : SetMemoryController(c)
  \/ SetIoController
  \/ HolderOnLoad \/ HolderOnSave
  \/ \E o \in Options : SetOptions(o)
  \/ HolderSetClockResolution

PyCall ==
  /\ Holds
  /\ (IF Python THEN HolderConfigure ELSE Configure) \/ RunRefused \/ Run
  /\ lock' = lock

\* Mutant: the wait keeps the lock.
PyWaitForCompletionLocked == Holds /\ WaitForCompletion /\ lock' = lock

\* gil_scoped_release
PyWaitForCompletion == Holds /\ WaitForCompletion /\ With("free")

\* Run waits in get() with the lock, WaitForCompletion without; its destructor
\* of the release takes the lock back, also under an exception.
PyGet ==
  /\ IF client = "inRun" THEN Holds ELSE Available
  /\ Get /\ With("main")

-----------------------------------------------------------------------------
(* ControllerPy and the callbacks.                                         *)

\* The next step of the loop calls a controller, or a callback that was deferred.
CallsPython ==
  \/ loop = "service" \/ (loop = "top" /\ ~powerOff)
  \/ /\ loop \in {"pollLoad", "quitLoad"}
     /\ onLoad.st = "deferred" \/ (onLoad.st = "ready" /\ onLoad.val \in Json)
  \/ loop \in {"pollSave", "quitSave"} /\ onSave.st = "deferred"

\* In a synchronous run the loop is the client's thread; otherwise it takes the
\* lock for each call and waits for others without it.
PyLoop ==
  /\ IF client = "inRun" THEN Holds ELSE CallsPython => Available
  /\ Loop /\ lock' = lock

PyLoadHandler == Available /\ LoadHandler /\ lock' = lock
PySaveHandler == Available /\ SaveHandler /\ lock' = lock

PyNext ==
  \/ Yield \/ Reacquire
  \/ PyCall \/ PyWaitForCompletion \/ PyGet
  \/ PyLoop \/ PyLoadHandler \/ PySaveHandler

\* The loop's thread, the handlers' threads and a blocked get() make progress
\* because the host schedules them and user callbacks return; the client owes no
\* call, and the io controller no particular interrupt.  A thread that asks for
\* the interpreter lock gets it, whenever the holder comes back to Python code
\* again and again: the interpreter makes the holder drop the lock and wait until
\* another thread took it.  Without Python nothing disables a step once it is
\* enabled but the step itself, and strong fairness is weak fairness.
PyFairness ==
  /\ SF_pyVars(PyLoop) /\ SF_pyVars(PyLoadHandler) /\ SF_pyVars(PySaveHandler)
  /\ WF_pyVars(PyGet) /\ SF_pyVars(Yield)

PySpec == PyInit /\ [][PyNext]_pyVars /\ PyFairness

-----------------------------------------------------------------------------
(* Properties.                                                             *)

HandlerRunning == onLoad.st = "running" \/ onSave.st = "running"

\* A thread blocked in WaitForCompletion never keeps the interpreter from the
\* loop and the handlers, and the C++ code of a synchronous run, between two
\* calls of the controllers, never runs without it (MachineHolder.cpp:70-72).
LockDiscipline ==
  /\ client = "waiting" => Available
  /\ lock = "free" /\ client = "inRun" => loop \in {"top", "service"}

\* A synchronous run in Python cannot wait for a handler on another thread: the
\* one waits with the lock, the other waits for it.
Deadlocked == Python /\ client = "inRun" /\ HandlerRunning

\* Once the loop serves ISR::Quit, or an exception leaves it, the caller that is
\* blocked in Run or WaitForCompletion gets control back, from C++ and from
\* Python, but for a deadlocked synchronous run (Machine.cpp:422, 467, 481).
EndReachesCaller ==
  client \in {"inRun", "waiting"} /\ ~Deadlocked /\
  loop \in {"quitLoad", "quitSave", "quit", "unwind", "returned", "threw"}
    ~> client = "idle"

\* A save that was accepted is delivered, whatever the client does meanwhile:
\* computing, calling or waiting, in C++ or in Python (MachineHolder.cpp:71); of
\* a synchronous run in Python nothing is promised.
SavesDelivered ==
  Request.kind = "save" /\ ~(Python /\ client = "inRun")
    ~> Request.kind # "save"
=============================================================================
