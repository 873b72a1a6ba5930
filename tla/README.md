# A TLA+ model of mach-emu

mach-emu emulates a small computer: an Intel 8080, a clock that slows the host
down to the speed of that cpu, a bus, and two controllers - memory and io -
that the user of the library writes. `IMachine` runs it, on the caller's thread
or on one of its own, and saves and loads its state while it runs. This
directory holds a specification of that program, the TLC runs that check it on
small instances and the TLAPS proofs that hold for every instance. Line numbers
are those of the sources in `src/`; `PROJECT.json` maps each definition to the
lines it stands for and lists the hazards the properties are aimed at.

## The system

| Part | State | Operations | Talks to |
|:--|:--|:--|:--|
| **Machine** (`src/Machine`) | the two controllers, the callbacks `onLoad_` `onSave_`, the options, `ticksPerIsr_`, `running_`, the future `fut_`; inside the loop its launch policies, its two futures and its tick counters | `SetMemoryController`, `SetIoController`, `SetOptions`, `SetClockResolution`, `OnLoad`, `OnSave`, `Run`, `WaitForCompletion`, `Save`, `GetState` | starts the loop with `std::async`; the loop calls the cpu, the clock and the io controller and starts load and save handlers with `std::async`; signals itself over the control bus |
| **Intel8080** (`src/Cpu`) | seven registers, the status byte, pc, sp, the interrupt flip-flop | `Execute`, `Reset`, `Load`, `Save` | the controllers, through the buses; consumes `Signal::Interrupt` |
| **CpuClock** (`src/CpuClock`) | epoch, last time, resolution in ticks, accumulated ticks, error | `SetTickResolution`, `Reset`, `Tick` | the host's clock, sleep and spin |
| **SystemBus** (`src/SystemBus`) | three buses, the control bus a set of signals | `Send`, `Receive` (which consumes) | shared by machine, cpu and controllers |
| **Controllers** (`src/Controller`, `src/Base`) | the user's | `Read`, `Write`, `ServiceInterrupts`, `Uuid` | an interface; the environment of the model |
| **Opt** (`src/Opt`) | one json object | `SetOptions` (converts the deprecated names, merges member by member), typed getters that throw | read by the machine when it runs and when it saves |
| **Utils**, **Factories** | none | compression, encoding, hashing; construction | |
| **MachinePy** (`src/MachinePy`) | a Machine and references to Python objects | the calls of `IMachine` | Python's interpreter lock, which every controller and callback written in Python needs and `WaitForCompletion` releases |
| **Test controllers**, **tests**, build files | | | |

What is hard about it:

* **Threads.** Up to four take part: the client, the loop (`runAsync`), a load
  handler (`loadAsync`) and a save handler (`saveAsync`). There is no lock. What
  keeps them apart is `running_`, which makes the setters throw, and the rule
  that a handler is started only when neither future is valid.
* **Futures.** The same code must work for a future that is deferred (runs its
  function inside `get`) and for one that is asynchronous; a future that is ready
  but not yet taken still blocks further requests.
* **The end of a run.** `ISR::Quit` collects outstanding handlers, then sends
  `PowerOff`, which the loop receives at the next instruction. A controller's or a
  callback's exception takes another way out, through destructors that wait.
* **Python.** Only the thread with the interpreter lock runs Python code. A wait that
  keeps the lock, for a handler that needs it, never ends.
* **Options** accumulate over calls, are converted, and are not checked until they are read.
* **Interrupts.** The cpu may be interrupted between any two instructions, and
  handlers may nest in the instruction between `EI` and `RET`.
* **Time.** The host may be late anywhere; sleeping is inexact.
* **Eight and sixteen bit arithmetic**, with flags that the tests sample.

What makes each part correct:

* Machine: nothing the threads share changes under them; one request at a time; a
  save delivers the state of the moment it was accepted; a load is all or nothing;
  no signal, future or thread outlives the loop it belongs to; a run that is told
  to quit, or fails, ends for the client too.
* Intel8080: each instruction goes where it should, takes its time, touches
  only its flags, computes what arithmetic says; interrupts are transparent.
* MachinePy: the lock delays the machine and changes nothing else; whoever waits
  gets control back.
* Opt: a call changes what it names and nothing else, or, if it is refused, nothing.
* CpuClock: never ahead of the emulated cpu, lateness remembered and made up.
* Pacing of the machine: reported time moves forward, `Run` returns the duration,
  interrupts are serviced at the documented instructions.

## The modules

| Module | Models | Kind |
|:--|:--|:--|
| `Machine` | `Machine.cpp`: the client's calls, the loop, both handlers, futures, exceptions | state machine with properties |
| `SaveLoad` | what `IMachine.h` promises of saving and loading | abstract specification |
| `MachinePy` | `MachineHolder`, `ControllerPy` and the interpreter lock, around `Machine` | state machine with properties |
| `MachineProofs`, `MachinePyProofs` | theorems about `Machine` and `MachinePy` | proofs |
| `Alu` | arithmetic, logic, rotations and decimal adjustment of `8080.cpp` | operators on bytes |
| `Cpu8080` | `Execute`: all 256 opcodes, acknowledgement, `Reset`, `Save`, `Load` | actions, one per handler |
| `Datasheet` | what the data sheet says of length, target, time, flags, stack, registers and memory of each opcode | properties of `Cpu8080` |
| `AluLaws` | what the operations of `Alu` mean, on numbers and sequences of instructions | properties of `Alu` |
| `AluProofs` | what each operation of `Alu` yields and which bits and flags it leaves alone | lemmas |
| `AluLawsProofs`, `CpuProofs`, `DatasheetProofs` | theorems about `Alu` and `Cpu8080` | proofs |
| `CpuClock` | `CpuClock.cpp` and its host | actions |
| `Pacing` | `CpuClock` composed with the machine's tick accounting | state machine with properties |
| `PacingProofs` | theorems about `Pacing` | proofs |
| `Options` | `Opt.cpp`: merging, deprecated names, refusals, the getters of the layout | operators and an action |
| `Snapshot` | what a save state holds and what a load writes: the loops over ram and rom of the layout `Options` yields | state machine with properties |
| `SnapshotProofs` | theorems about `Snapshot` and the options in it | proofs |
| `MCMachine`, `MCAlu`, `MCCpuSweep`, `MCCpuProgram`, `MCPacing`, `MCSnapshot` | | what TLC runs |

### Machine

`running`, `memory`, `io`, `opts`, `callbacks` are the fields. `client` says where
the client's thread is: outside, inside a synchronous `Run`, or blocked in
`WaitForCompletion`; `IMachine.h:33-35` makes the class one for a single client
thread. `loop` is the program counter of `Run`'s lambda, `"none"` standing for an
invalid `fut_`, `"returned"` and `"threw"` for a future that holds a result or an
exception. `onLoad` and `onSave` are the loop's futures: `none`, `running` (a thread
of its own has not finished), `deferred`, `ready`, with what they hold. `content` is
everything a save state contains: the registers, as one value, and the ram.
`delivered` is a history variable: the last state given to the user's `onSave`.

Each public call that changes something is an action. The loop is cut where
another thread can see the difference: at the `while` condition (`PowerOff`,
`Execute`), at the answer of `ServiceInterrupts` (`Service...`), at each
`checkHandler`, at each `get` of `ISR::Quit`, and at each destructor of an unwinding
frame. The statements in between touch only what belongs to the loop. A deferred
handler runs inside the step that collects it: its callback runs on the loop's
thread and cannot interleave with it. What an instruction computes and when a
service point is due are left open here, so that everything `Machine` satisfies
it satisfies with any program, clock and io controller; `Cpu8080` and `Pacing`
fill in the two gaps.

A future is destroyed in an unwinding frame only after its thread has ended: `UnwindSave`,
`UnwindLoad` and `Unwound` wait.

`MemoryFaults`, `IoFaults` and `AlienFaults` turn on the exceptions: a controller
may throw a `std::exception`, a callback may throw something that is not one (which
`checkHandler`'s `catch` lets through into the future). Options have an illegal value because
`SetOptions` does not look at types and the getters throw when they are read.

Files (`file://` requests), the checks of a load state - the uuids of memory and cpu, the md5 of
the rom, the size of the ram - and the encodings are represented by the reason `Misfit` for
which a state is refused. All checks precede the first write (`Machine.cpp:176-237`), so
which of them fails makes no difference to the state.

### SaveLoad

The contract has one variable for the request in progress and one for the last
delivery. `Machine` implements it under the mapping of `Contract`: a session is active
while the loop is; a save request ends when its callback returns, although
the loop still holds the future, and a load request ends when the loop takes it. Its
steps are `Idle`, `Execute`, `AcceptLoad`, `CompleteLoad`, `AcceptSave`,
`CompleteSave`, `Stop`. It has no fairness: whether an accepted save is delivered
depends on who called `Run`, and is `SavesDelivered` of `MachinePy`.

### MachinePy

The module adds one variable, `lock`, and wraps the steps of `Machine`. `lock` is `"none"`
for a client in C++, so that one specification and one run cover both; `"main"`
while the client's thread holds the interpreter lock and `"free"` while it does not.
The other threads take and release the lock within a step: what they do with it is
one call of a controller or a callback, and such a call is one step of `Machine`.

`Yield` and `Reacquire` are the interpreter's own: it makes the thread that runs
Python code give up the lock while others ask for it. The client's thread runs
Python code while it is in the script, and in a synchronous run while the loop calls
the controllers; between these calls it is in C++, where nothing takes the lock away.
`PyWaitForCompletion` is the `gil_scoped_release` of `MachineHolder.cpp:74` and
`PyGet` its destructor, which takes the lock back also when the loop's exception
passes. `MachineHolder::Run` has no release: a synchronous run waits with the lock.
`HolderSetClockResolution` goes around the range check of the machine's own setter, and `HolderOnLoad` never
unregisters: `None` becomes a function that throws. The model has this function take the lock like any callback,
although in the code it throws without; a handler may then wait where the code's does not, never the other
way round.

### Alu and Cpu8080

A byte is a number, a flag a bit of `status`. The handlers of `8080.cpp` are actions
guarded by the opcodes `Execute` dispatches to them (the table at lines
41-297); the register and condition fields of the opcode replace the arguments the
source binds. The moves of a register to itself are the exception in that table: they go to `Nop`, and
take its four periods (`MovToItself`). Build: release, so `assert` does nothing; the handlers whose asserts
can fail in a debug build (`HLT`, the undefined opcodes) are modelled without them.
Memory holds what was written, other addresses read 0; ports deliver any byte
of `Input`. The address and data bus are folded into `Read` and `Write`. `State` and
`Load` are what `Save` writes and `Load` reads of the registers; the flip-flop is not among
them.

`AluLaws` walks through all pairs of bytes `x`, `y` with any of `Statuses` in the status register; its
properties apply the operations of `Alu` to them, `DAD` to the pair `x`, `y` and each of `Words`.

### CpuClock and Pacing

Time is an integer. `Delay` is the lateness the host may add at every point where a
thread can be delayed: before the clock is read, when a sleep returns, when a spin
notices its end, and before the clock is read again. A sleep asks for 70 per cent of
what is due and may be interrupted at once. A wait above a second makes `nanosleep` fail and the thread spins: the
sleep of length 0. `lost`, `measured`, `heldTicks` and `heldError` are history variables: the time
that passed between two readings of the clock, which no field of the class can know about;
whether the clock has been synchronised since `Reset`; and the ticks and the lateness that
`Reset` found in `tickCount_` and `error_`, and kept. `isrFreq` is counted in halves to keep it an
integer. `Pacing` adds the loop's `totalTicks`, `lastTicks` and `currTime` (`total`,
`last`, `currTime`), the number of runs and what `Run` returns. Every run begins on the clock that the one before
left behind, and the properties say what it inherits: the lateness (`LatenessAccounted` counts it as made
up), the time (`TimeForward` and `ReturnsDuration` speak of the time of this run, `TimeOfThisRun`)
and the ticks (`ServicedEachTick` of runs that found none).

### Options

Json is a function from the names it has to their values, and only the members that
a getter of the memory's layout reads are kept, with `isrFreq` and `cpu` for the
refusals. `SetOptions` is one action: parse, refuse, convert the deprecated
`ramOffset`, `ramSize`, `romOffset`, `romSize`, `update`, and on an exception leave everything as
it was. `Converts` and `Converted` follow `Opt.cpp:106-140` to the letter: that
`romSize` is looked at only beside a `ramSize` is the code's. The getters narrow to
16 bits (`Word`). A value that is not a number is the option `"illegal"` of `Machine`.

### Snapshot

`Machine` takes a save state for one value. `Snapshot` opens it, for the layouts that the
calls of `SetOptions` lead to: the `rm` reader of `Save` and
`ISR::Save` with its address of 16 bits (`Space` values), byte by byte because that is where it can fail, and
the loops of `loadMachineState`, which count in an `int`. `reader` is the region and the blocks that are left, the address and the
vectors; `shot` is a history variable, the machine as it was when the state was saved. The md5 of the
rom stands for its bytes, as if it had no collisions. Compression and encoding give back what they
were given and are left out. Nothing interleaves with the reader, because the thread that reads is the one that
executes. `Capacity` is where `push_back` throws.

## The runs

| Run | Question | Bounds |
|:--|:--|:--|
| `machine` | Does every interleaving of client, loop and handler threads, from C++ and from Python, with controllers and callbacks that throw and options of the wrong type, keep the threads apart, requests exclusive, signals and futures consumed, loads and saves within their contract, does a run that is ending get there in a bounded number of steps and for its caller, and does a save reach its user? | 2 byte values, 1 byte of ram, one controller that can be saved and one with a zero uuid |
| `alu` | Is every result and every flag right? | all pairs of bytes; a status register with no flag set or all of them; 6 words to add to a pair |
| `cpu_sweep` | Where does every opcode continue, what does it cost, which flags does it touch, what does it leave on the stack, and does it leave all other registers and bytes alone? | pc at 0 and at 65534 (the instruction wraps), sp at 0, 1 and far away, registers and flags all clear and all set, no, masked or enabled interrupt |
| `cpu_program` | Is a program, with loops, calls and a variable shared with a handler, the same with interrupts as without, also when it is saved and loaded on the way, and does it end? | 2 interrupts of 2 kinds anywhere; one save in the first of the loop's two rounds, one load anywhere later |
| `pacing` | Does the clock keep pace on a late host; are time, duration and service points right, also in a run on the clock that another one left? | 4 ticks a run, two runs |
| `snapshot` | Do options update what they name; does a save gather what the layout names and end when it has, and does a load bring it back and nothing else? | 4 addresses; any sequence of calls with 12 kinds of json: blocks that touch, overlap, are empty, lie beyond 16 bits or exceed the 3 bytes of capacity, no blocks, deprecated names, both, refused ones and `nullptr` |

Why these are enough. In `machine` a value matters only as the same or another, so two
suffice; one byte of ram and the registers are two parts that a load replaces one after the
other (`machine_torn_load` has two bytes). The machine's own state is finite, so nothing else is
bounded: the run covers any number of runs, requests and reconfigurations. In
`cpu_program` two interrupts nest, one in the instruction between `EI` and `RET` of the other,
and a handler that both share a word with the program shows a lost increment; a load while
a handler is unfinished brings its frames back. In `pacing` the resolutions -1, 0, 4 and 7 of a clock
with a tick of 2 are: none, below the host's, a whole number of ticks, and one that is
rounded; a delay of 5 is longer than an instruction and than the shortest sleep's slack, so
that the error carries over several synchronisations; 4 ticks are up to two of them, and enough to
leave some behind; in the second run of two the clock has ticks, lateness and a time of the first, and
may get another resolution. In `pacing_service` the host's resolution is 5, so that 4 is one it warns about and
that still takes two ticks. The proofs need none of these bounds. In
`snapshot` the layouts are those that merging the json in any order reaches.

Deadlock is checked, except in the runs of `Machine`, where a run that
failed leaves a machine on which no call has an effect (the finding of
`machine_stuck`) and `python_deadlock` has the deadlock for its result, and in those
of `Pacing`, whose behaviours end at the bounds.

### Fairness

`PySpec` of `MachinePy` assumes that the loop's thread, each handler's thread and a blocked
`fut_.get()` make progress: the host schedules threads that can run and the user's callbacks
return. Where Python is involved a step may be enabled and disabled again, as the
client takes the interpreter lock and gives it up; the interpreter's fairness is
that a thread which asks for the lock gets it, because the holder is made to drop the lock
and to wait until another thread took it. That is strong fairness of the loop, of the
handlers and of `Yield`. Without Python nothing but the step itself disables these
steps, and strong fairness is weak fairness. Nothing is assumed of the client (it may never call
again) nor of the io controller (it may never answer `Quit`), which is why `EndReachesCaller` starts from a
loop that is already on its way out. `Machine`, `SaveLoad`, `Pacing` and `Snapshot` have safety
properties only and assume no fairness.

`MCCpuProgram` assumes that something goes on happening (the `while` loop of `Run`), and
since interrupts, saves and loads are bounded, that the cpu goes on executing. The bound is
needed: an io controller that interrupts at every service point starves a program.

### Where the code does not do what is written of it

Each of these runs has the one property that a comment or document states, and TLC
finds it violated:

* `machine_stuck` - `running_` stays set after a controller's exception has ended a
  run: every later call throws "the machine is running" (`IMachine.h:147`).
* `machine_torn_load` - a memory controller that throws during a load leaves the
  registers and part of the ram replaced, where `IMachine.h:265` promises no change.
* `python_deadlock` - a synchronous run in Python that answers `ISR::Quit` while a handler
  is on a thread of its own never returns (`IMachine.h:82-83`): the run waits for the handler with the
  interpreter lock, the handler for the lock. `DeadlockIsFinal` proves that nothing ends the wait.
* `pacing_duration` - `Reset` keeps `time_`: a run that quits before its first
  synchronisation returns the duration of the run before (`IMachine.h:112`).
* `pacing_service` - a resolution the clock warns about sets its interval but leaves `ticksPerIsr_` at an
  earlier value: with `isrFreq` 1 interrupts are not serviced "after each clock tick"
  (`README.md:284`) but, on a new machine, at every instruction. `ServicedEachTick` therefore is stated
  for supported resolutions.
* `snapshot_top` - a save of a block whose last byte is that of the memory reads for ever
  (`README.md:292-293`).

Some more things are modelled as the code has them and have no run of their own:

* `Execute` sends the seven moves of a register to itself to `Nop`: they take 4 periods, where the data
  sheet has 5 for every `MOV` between registers, and a program that uses one runs ahead of the cpu it was
  written for (`8080.cpp:477-540`). `TakesPeriods` has this exception in it (`MovToItself`), so that
  `cpu_sweep` and `InstructionsTimed` show that it is the only one.
* Of the deprecated options `romSize` alone does nothing, `ramSize` alone throws, and an offset alone
  empties the region it is not about (`Opt.cpp:110-139`).
* `Reset` keeps `tickCount_`, `error_` and `time_` (`CpuClock.cpp:200`). A run that begins with ticks of an
  earlier one synchronises that much sooner than its own ticks say, so that its service points are
  not the clock's; it makes up the lateness of the run before, which puts it ahead of its own pace by as much;
  and the time it reports may step back at its first synchronisation.
* A finished save or load blocks further requests until a service point that
  answers `NoInterrupt` takes its future (`Machine.cpp:339`).
* `HLT` does not wait in a release build, where its `assert(0)` is gone (`8080.cpp:1295`).
* The interrupt flip-flop is not part of a save state (`8080.cpp:366`): a state saved between
  `DI` and `EI` and loaded while interrupts are enabled lets a handler into the section. TLC
  finds the lost increment if `torn` is left out of `Undisturbed` in `MCCpuProgram`.
* `UnknownOption` is among the documented errors of `SetOptions` and is never returned: a name
  nobody reads is merged like any other.
* A save state does not record its layout: a load under other blocks of the same total size
  is accepted (`Machine.cpp:231`). `RoundTrip` is stated for the layout of the save.

## What is proved

`MachineProofs`, for every set of byte values, ram size, set of controllers, and for
every combination of faults. The assumption is `MachineAssumption`: the constants have
the types their comments say, `None` is no controller and `"ok"` no misfit.

The inductive invariant `IInv` is the conjunction of `TypeOK`, `HandlersExclusive`,
`RunningWhileLoop`, `HandlersWithinLoop`, `SignalsConsumed`, `DeferredRunsAtOnce` and
`FuturesFilled`. They lean on each other:

* a new loop starts with no handler and no signal pending only because a handler or a
  signal is pending nowhere but inside a loop, and because no loop exists when
  `running_` is clear;
* `SignalsConsumed` (an interrupt never meets a power off) needs the fact that power
  off is sent only after both futures are empty, which is `HandlersWithinLoop`;
* collecting a load leaves no deferred save behind because the two exclude each other;
* what is collected is a state because `FuturesFilled` says what a ready future holds.

`NextIInv` has one lemma per group of actions: the configuring calls, run and wait,
instructions, service points, collecting, ending, and the handler threads. From
`Invariant` follow `TypeCorrect`, `ExclusiveHandlers`, `RunningCoversLoop`,
`HandlersEndWithLoop`, `SignalsAreConsumed` and `DeferredAreRun`; with a case split on the actions
also the action properties `FrozenConfig` and, for controllers that do
not throw (`MemoryFaults = FALSE`, without which `machine_torn_load` refutes it),
`AtomicLoad`. `Implementation` proves the safety part of the refinement: the
initial states are those of `SaveLoad`, and every step is a step of it or a stutter.

Two more theorems are about the end of a run. `EndingAdvances`: a run that is ending - told to quit, or failing -
has between one and eight steps left, and every step of any thread takes at least one of
them (`EndingBounded`): the part of `EndReachesCaller` that does not depend on the
scheduler, for every value of the constants. What a handler still has to do counts with the
steps (`Pending`), so that the order in which threads end makes no difference. `FailureIsFinal` is the
finding of `machine_stuck`: in a state where `running_` is set and no loop exists (`Failed`) no step changes anything, and
both ways into it - taking the exception of a loop, and a `runAsync` of the wrong type - are shown.

`MachinePyProofs` shows that the lock only delays the machine: `PyStep` maps each step to
one of `Machine` or to a stutter, so `PyImplementsMachine` carries every theorem about
`Machine` over to the binding (`PyInvariants`; `PyDelivers`, with the bounded ending and the final failure). `LockIsDisciplined` is new;
`DeadlockIsFinal` states the finding of `python_deadlock` for every value of the constants:
in a state where the synchronous run waits for a handler (`Stuck`) no action is enabled
that changes anything. The assumption is `BindingsAssumption`.

`CpuProofs`, for every program, every memory and every set of bytes the ports deliver
(`CpuAssumption`): `CpuTypeCorrect` says that from a reset at any address, with interrupts between any two
instructions and loads of any state that a cpu has saved (its status byte canonical), registers stay bytes, `pc` and `sp` words that wrap, and
bits 1, 3 and 5 of the status register constant. It goes bottom up: what replacing a flag does to
the constant bits and what each operation of `Alu` yields (`AluProofs`), what operands and pairs
name, then one lemma per handler of `Execute`. `SavesState` adds that a saved state
is one that may be loaded. `TypeOK` is inductive as it stands.

`DatasheetProofs` adds to that invariant what each step does, for every state and every program, where
the run `cpu_sweep` has the boundary values only: `InstructionsFollow`, `InstructionsTimed`, `FlagsKept`,
`StackIsKept`, `OthersAreSpared`. One lemma per handler compares it with the tables of `Datasheet`, which are by opcode where the code
decodes fields; `InstructionsTimed` has the one exception of a register moved to itself; `ConditionHolds` relates the two forms of a condition, and `PutKeeps` says that putting a
flag changes no other, from which follows what an operation on some of the flags leaves alone. `PushLeaves` - a
word written around the end of memory is read back - and `PswKeeps` - a status register survives
`PUSH PSW` and `POP PSW`, because `TypeOK` keeps it canonical - are what `StackIsKept` rests on. `OthersAreSpared` is the frame of every handler:
the registers that the table does not name (`RowNames` relates its rows to the field the code decodes) and the bytes outside
of what is stored (`WriteSpares`, `Write16Spares`, across the end of memory too). Together the five say
what an interrupt handler may rely on, and what the program it interrupts may.

`AluLawsProofs` proves every property of `AluLaws` for all pairs of bytes, every value of the
status register and every two words (`LawsAssumption`: the constants are sets of such values), where
the run has two values of the register and a few words. `AluProofs` has what all proofs
about the cpu share: powers of two, what putting a flag sets and keeps (`PutSets`, `PutKeeps`), the range of
each operation. On it stand

* `ResultDescribes`: zero, sign and parity of a result. The laws define parity by halving, the code
  counts ones; `OnesHalves` relates the two, and `EvenOnesParity` doubles the range eight times;
* `AddIs` and `SubIs`: value, carry and digit carry of the one adder, and of subtraction as addition of the
  complement; from these `SumsAreRight` and `CountersAreRight`;
* `DaaAdjusts`: a binary sum of t tens and l ones that left its carry and auxiliary carry becomes the
  decimal byte of 10t + l. The sum of two decimal bytes has this form and so has the last sum of the
  ten's complement sequence, whence `DecimalIsRight`;
* `BitwiseIs`: bit by bit, AND and OR share out a sum and XOR is their difference; `FromDigits` carries it to
  the bytes, whence `LogicIsRight`;
* `PutCarry`: what touches the lowest bit of the register only, for `RotationsAreRight` and
  `PairsAreRight`.

`SnapshotProofs`, for every size of the address space, every capacity and every set of json
(`OptionsAssumption`, `CapacityAssumption`; `NoneAssumption` says that `None` is neither a save state nor a
machine): whatever is merged in whatever order, the getters yield blocks of
words (`OptionsTyped`), and an accepted call updates what it names and nothing else, `nullptr`
restoring the defaults (`OptionsUpdated`). The layouts may have any number of blocks, so the rest needs
an induction over that number. `WFMin` - a set of numbers that is not empty has a least one - gives it
for sets (`Induction`), and sets are enough: `FlattenIsFlat` says that the fold which concatenates
the blocks' addresses is the recursive function it is meant to be, `UptoSteps` and
`AddressesOf` what one more block adds. The invariant `IInv` is `TypeOK` with
* `ReaderOK`: a save in progress stands in some block of its region; if that block ends below the last
  address, it stands at some offset j of it, and has gathered the bytes of all blocks before and of j
  addresses of this one (`InBlock`). Behind a block that does not there is nothing to say: the save never
  gets there;
* `SavedInv`: a save state holds what the layout names of the machine it was taken from.

From it follow `SnapshotTyped`; as long as every block ends below the last address (`BelowTop`)
`SaveGathersLayout`, `SaveReturnsBlocks` and `SaveEndsInTime` - the steps a save has left are a
number, and every step takes one of them, so that each of its loops ends; and, for every layout, `LoadRoundTrip`.
`BelowTop` is needed: `TopIsNeverLeft`, the finding of `snapshot_top`, proves that a loop which has come to a block ending at
the last address does nothing from then on but read, until a vector cannot grow. In
`RestoredIs` a load writes blocks that may overlap; the last writer of an address decides, and
since all of them hold the byte saved from that address it does not matter which it is.

`PacingProofs`, for every time period, resolution, `isrFreq` and lateness of the host, and any number of runs
of any length, from `PacingAssumption` and `CpuClockAssumption` (the constants are numbers). Its `IInv` adds to
`LatenessAccounted` that the clock's readings are in order (`Readings`), that the loop's time is the clock's
once it has been measured in this run (`LoopTime`), and that before the first run there is nothing to make up
(`Fresh`). The heart is `SynchroniseAccounts`: however the wait is split into
sleep and spin, what it adds to the lateness it adds to `lost` or takes from `error_`. From it follow
`LatenessIsAccounted`, `TimeMovesForward` and `DurationReturned`; with `InStep` - the ticks since the last
service point are the ticks the clock has accumulated - also `ServicedWithTheClock`, for
instructions that take at least one period and runs that inherit no ticks. That proviso holds of itself where nothing
leaves ticks behind: `ServicedWithTheClockAlways` has, for `isrFreq` 1 and supported resolutions,
each run end at a service point and each service point empty `tickCount_` (`LeavesNothing`), so that
every run of every machine is serviced with the clock.

## What is only model-checked

* The liveness properties `EndReachesCaller`, `SavesDelivered` and `ProgramEnds`, and what
  depends on `ENABLED`: out of the prover's reach. Of the first, and of the end of a save, the bound on
  the steps is proved (`EndingBounded`, `SaveAdvances`); that the next one is taken is fairness.
* The equivalence of the interrupted program with its twin (`InterruptsTransparent`,
  `SectionsAtomic`). It is about one program, and not true of every number of interrupts: each that comes between
  `EI` and `RET` of a handler leaves two bytes more on the stack, which some day meets the program's data.

## What is not modelled

* `GetState` of `IMachine`, which changes nothing, and the destructor of a machine whose
  loop is still running: the members are destroyed in reverse order, the callbacks before the future that
  waits for the loop, and what the loop then does with them is undefined.
* The json, the encodings, the compression and the md5 of a save state (Utils): functions of
  libraries; the model has the state and the reason to refuse it.
* The data path of the buses, which carry a value from one statement to the next; the
  signals of the control bus that a thread can find pending are in `Machine`.
* The lifetime of Python's objects. The binding does not keep the controllers alive.
* The factories, the test controllers, the C++ and Python tests, the build.

## Plan

In the order of what matters most:

1. `Machine`, `MachinePy` and their proofs, `Alu`, `Cpu8080` and its proofs, `CpuClock`,
   `Pacing`, `Snapshot`, `Options` - done.
2. Destruction of a machine during a run, as an extension of `Machine`; `HandlersWithinLoop` extended to it.
3. Opcodes that take no time, as liveness of `Pacing` without a bound on its ticks.
4. `TestIo`: the io controllers' signals and timer.
5. Proofs: that an interrupt whose handler saves what it uses is invisible, as a theorem about any
   program instead of a run of one. `StackIsKept` and `OthersAreSpared` are its two halves.
