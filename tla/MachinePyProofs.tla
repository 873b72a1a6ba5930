-------------------------- MODULE MachinePyProofs --------------------------
(***************************************************************************)
(* Proofs about MachinePy.  The interpreter lock only delays the steps of  *)
(* Machine, so what is proved of Machine holds for clients in Python too;  *)
(* what is new is the lock itself, and the deadlock it makes possible.     *)
(***************************************************************************)
EXTENDS MachinePy, MachineProofs

\* SetClockResolution of the binding is a SetOptions of Machine.
LEMMA HolderConfigures ==
  ASSUME TypeOK, HolderConfigure
  PROVE  Configure
<1>1. CASE HolderOnLoad \/ HolderOnSave
  BY <1>1 DEF HolderOnLoad, HolderOnSave, Configure
<1>2. CASE HolderSetClockResolution
  <2>1. PICK resolution \in {"legal", "illegal"} :
               SetOptions([opts EXCEPT !.clockResolution = resolution])
    BY <1>2 DEF HolderSetClockResolution
  <2>2. [opts EXCEPT !.clockResolution = resolution] \in Options
    BY DEF TypeOK, Options
  <2> QED BY <2>1, <2>2 DEF Configure
<1> QED BY <1>1, <1>2 DEF HolderConfigure, Configure

\* Each step of the binding is one of Machine, or one of the lock alone.
LEMMA PyStep == TypeOK /\ [PyNext]_pyVars => [Next]_vars
<1> SUFFICES ASSUME TypeOK, [PyNext]_pyVars PROVE [Next]_vars
  OBVIOUS
<1>1. CASE Yield \/ Reacquire \/ UNCHANGED pyVars
  BY <1>1 DEF Yield, Reacquire, pyVars
<1>2. CASE PyCall
  BY <1>2, HolderConfigures DEF PyCall, Next, Client
<1>3. CASE PyWaitForCompletion \/ PyGet
  BY <1>3 DEF PyWaitForCompletion, PyGet, Next, Client
<1>4. CASE PyLoop \/ PyLoadHandler \/ PySaveHandler
  BY <1>4 DEF PyLoop, PyLoadHandler, PySaveHandler, Next
<1> QED BY <1>1, <1>2, <1>3, <1>4 DEF PyNext

\* A behaviour under the interpreter lock, with a client in C++ or in Python, is
\* one of Machine: what is proved of Machine holds for the binding.
THEOREM PyImplementsMachine == PySpec => Spec
<1>1. IInv /\ [PyNext]_pyVars => IInv'
  BY PyStep, NextIInv DEF IInv
<1>2. IInv => TypeOK
  BY DEF IInv
<1> QED BY <1>1, <1>2, PyStep, InitIInv, PTL DEF PySpec, PyInit, Spec

\* The invariants of Machine hold for clients in Python.
THEOREM PyInvariants ==
  PySpec => [](TypeOK /\ HandlersExclusive /\ RunningWhileLoop /\ HandlersWithinLoop
               /\ SignalsConsumed /\ DeferredRunsAtOnce)
<1>1. IInv => TypeOK /\ HandlersExclusive /\ RunningWhileLoop /\ HandlersWithinLoop
              /\ SignalsConsumed /\ DeferredRunsAtOnce
  BY DEF IInv
<1> QED BY <1>1, PyImplementsMachine, Invariant, PTL

\* And so do the contract of saves and loads, what is frozen during a run, the
\* way out of it, and the end of a machine whose run failed.
THEOREM PyDelivers ==
  PySpec => ConfigFrozen /\ ImplementsContract /\ EndingBounded /\ [][~Failed]_vars
BY PyImplementsMachine, FrozenConfig, Implementation, EndingAdvances,
   FailureIsFinal, PTL

-----------------------------------------------------------------------------
(* The interpreter lock.                                                   *)

LockInv == lock \in {"none", "main", "free"} /\ LockDiscipline

LEMMA LockInvInit == PyInit => LockInv
BY BindingsAssumption DEF PyInit, Init, LockInv, LockDiscipline, Available

LEMMA LockInvNext == LockInv /\ [PyNext]_pyVars => LockInv'
<1> SUFFICES ASSUME LockInv, [PyNext]_pyVars PROVE LockInv'
  OBVIOUS
<1> USE DEF LockInv, LockDiscipline, Available
<1>1. CASE Yield \/ Reacquire
  BY <1>1 DEF Yield, Reacquire, Interpreting, vars
<1>2. CASE PyCall
  <2>1. CASE RunRefused \/ Run
    BY <1>2, <2>1 DEF PyCall, Holds, RunRefused, NoRun, Run, MayRun
  <2>2. CASE Configure \/ HolderConfigure
    <3>1. UNCHANGED <<client, loop>>
      BY <2>2 DEF Configure, HolderConfigure, HolderOnLoad, HolderOnSave,
         HolderSetClockResolution, SetMemoryController, SetIoController, OnLoad,
         OnSave, SetOptions, SetClockResolution, NoRun
    <3> QED BY <1>2, <3>1 DEF PyCall
  <2> QED BY <1>2, <2>1, <2>2 DEF PyCall
<1>3. CASE PyWaitForCompletion
  BY <1>3 DEF PyWaitForCompletion, WaitForCompletion, With, Python, Holds
<1>4. CASE PyGet
  BY <1>4 DEF PyGet, Get, With, Python
<1>5. CASE PyLoop
  <2>1. client' = client
    BY <1>5 DEF PyLoop, Loop, Start, PowerOff, Execute, Service, ServiceRst,
       ServiceLoad, ServiceSave, ServiceNothing, ServiceNoInterrupt, ServiceQuit,
       ServiceFault, Goto, PollLoad, PollSave, QuitLoad, QuitSave, Quit,
       UnwindSave, UnwindLoad, Unwound, Unattended
  <2> QED BY <1>5, <2>1 DEF PyLoop, Holds
<1>6. CASE PyLoadHandler \/ PySaveHandler
  BY <1>6 DEF PyLoadHandler, PySaveHandler, LoadHandler, SaveHandler, Unattended
<1>7. CASE UNCHANGED pyVars
  BY <1>7 DEF pyVars, vars
<1> QED BY <1>1, <1>2, <1>3, <1>4, <1>5, <1>6, <1>7 DEF PyNext

\* No thread waits in WaitForCompletion with the interpreter lock, and the C++
\* code of a synchronous run never runs without it.
THEOREM LockIsDisciplined == PySpec => []LockDiscipline
<1>1. LockInv => LockDiscipline
  BY DEF LockInv
<1> QED BY <1>1, LockInvInit, LockInvNext, PTL DEF PySpec

-----------------------------------------------------------------------------
(* The deadlock of a synchronous run.                                      *)

\* The client's thread, which runs the loop, waits with the lock for a handler
\* on another thread: in ISR::Quit, or in the destructor of its future.
Stuck ==
  /\ lock = "main" /\ client = "inRun"
  /\ \/ loop = "quitLoad" /\ onLoad.st = "running"
     \/ loop = "quitSave" /\ onSave.st = "running"
     \/ loop = "unwind" /\ HandlerRunning

LEMMA StuckLoop ==
  ASSUME HandlersExclusive, Stuck
  PROVE  ~Loop
BY DEF Stuck, HandlerRunning, HandlersExclusive, Loop, Start, PowerOff, Execute,
   Service, ServiceRst, ServiceLoad, ServiceSave, ServiceNothing,
   ServiceNoInterrupt, ServiceQuit, ServiceFault, Goto, PollLoad, PollSave,
   QuitLoad, QuitSave, Quit, UnwindSave, UnwindLoad, Unwound, HandlersIdle,
   Collectable

LEMMA StuckStays == HandlersExclusive /\ Stuck /\ [PyNext]_pyVars => UNCHANGED pyVars
<1> SUFFICES ASSUME HandlersExclusive, Stuck, PyNext PROVE FALSE
  OBVIOUS
<1>1. ~Yield /\ ~Reacquire
  BY DEF Stuck, Yield, Reacquire, Interpreting
<1>2. ~PyCall /\ ~PyWaitForCompletion /\ ~PyGet
  BY DEF Stuck, PyCall, PyWaitForCompletion, PyGet, Configure, HolderConfigure,
     HolderOnLoad, HolderOnSave, HolderSetClockResolution, SetMemoryController,
     SetIoController, OnLoad, OnSave, SetOptions, SetClockResolution,
     MayConfigure, RunRefused, Run, MayRun, WaitForCompletion, Get
<1>3. ~PyLoop
  BY StuckLoop DEF PyLoop
<1>4. ~PyLoadHandler /\ ~PySaveHandler
  BY DEF Stuck, PyLoadHandler, PySaveHandler, Available
<1> QED BY <1>1, <1>2, <1>3, <1>4 DEF PyNext

\* Once a synchronous run in Python waits for a handler, no thread of the program
\* takes another step: the deadlock is final, and EndReachesClient fails.
THEOREM DeadlockIsFinal == PySpec => [][~Stuck]_pyVars
<1>1. HandlersExclusive /\ [PyNext]_pyVars => [~Stuck]_pyVars
  BY StuckStays
<1>2. PySpec => []HandlersExclusive
  BY PyInvariants, PTL
<1> QED BY <1>1, <1>2, PTL DEF PySpec
=============================================================================
