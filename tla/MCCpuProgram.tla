---------------------------- MODULE MCCpuProgram ----------------------------
(***************************************************************************)
(* A program with two interrupt handlers, interrupted between any two of   *)
(* its instructions.  A second cpu, the twin, runs the same program with   *)
(* no interrupts: it takes a step whenever the first one executes an       *)
(* instruction of the program rather than of a handler.  Once, the machine *)
(* saves its state at a service point and loads it at a later one; the     *)
(* twin and the bookkeeping then go back to where they were.               *)
(***************************************************************************)
EXTENDS Cpu8080

CONSTANT MaxInterrupts \* how often the machine interrupts

VARIABLES
  treg, tstatus, tpc, tsp, tiff, tirq, tmem, tout, tticks, \* the twin
  frames, \* the stack pointer below which each unfinished handler works
  count,  \* restarts acknowledged, by number
  sent,   \* interrupts the machine put on the bus
  saved,  \* the save state, until it is loaded
  loaded, \* it has been
  torn    \* the load met another interrupt flip-flop than the save

twinvars == <<treg, tstatus, tpc, tsp, tiff, tirq, tmem, tout, tticks>>
ghosts == <<frames, count, torn>>
mcvars == <<vars, twinvars, ghosts, sent, saved, loaded>>

Twin == INSTANCE Cpu8080 WITH reg <- treg, status <- tstatus, pc <- tpc, sp <- tsp,
  iff <- tiff, irq <- tirq, mem <- tmem, out <- tout, ticks <- tticks

Code(addr, bytes) == [a \in addr .. (addr + Len(bytes) - 1) |-> bytes[a - addr + 1]]

Shared == 1024 \* a word that the program and the handler of RST 1 increment
Start == 256
Halt == 288

Program ==
  Code(8, << 245, 229, 195, 96, 0 >>)    \* RST 1: PUSH PSW; PUSH H; JMP 96
  @@ Code(96, << 42, 0, 4, 35, 34, 0, 4, \* LHLD Shared; INX H; SHLD Shared
                 225, 241, 251, 201 >>)  \* POP H; POP PSW; EI; RET
  @@ Code(16, << 245, 198, 159, 241,     \* RST 2: PUSH PSW; ADI 159; POP PSW
                 251, 201 >>)            \* EI; RET
  @@ Code(Start,
       << 49, 0, 5, 6, 2, 251,           \* LXI SP,1280; MVI B,2; EI
          243, 42, 0, 4, 35, 34, 0, 4,   \* again: DI; LHLD Shared; INX H; SHLD Shared
          33, 0, 0, 251,                 \* LXI H,0; EI
          62, 9, 198, 9, 39,             \* MVI A,9; ADI 9; DAA
          205, 80, 1,                    \* CALL 336
          5, 194, 6, 1,                  \* DCR B; JNZ again
          211, 1,                        \* OUT 1
          118, 195, 32, 1 >>)            \* HLT; JMP to the HLT
  @@ Code(336, << 79, 201 >>)            \* MOV C,A; RET

Init ==
  /\ mem = Program /\ irq = None /\ out = None /\ ticks = 0 /\ Reset(Start)
  /\ Twin!Reset(Start)
  /\ tmem = Program /\ tirq = None /\ tout = None /\ tticks = 0
  /\ frames = << >> /\ count = [n \in {1, 2} |-> 0] /\ sent = 0
  /\ saved = None /\ loaded = FALSE /\ torn = FALSE

Interrupting ==
  /\ sent < MaxInterrupts
  /\ \E n \in {1, 2} : Interrupt(n)
  /\ sent' = sent + 1
  /\ UNCHANGED <<twinvars, ghosts, saved, loaded>>

Entering ==
  /\ Acknowledge
  /\ frames' = Append(frames, sp)
  /\ count' = [count EXCEPT ![irq] = @ + 1]
  /\ UNCHANGED <<twinvars, sent, saved, loaded, torn>>

\* The handler that removes what the acknowledgement pushed has ended.
Executing ==
  /\ Instruction
  /\ IF frames = << >> THEN Twin!Instruction ELSE UNCHANGED twinvars
  /\ frames' = IF frames # << >> /\ sp' = frames[Len(frames)]
               THEN SubSeq(frames, 1, Len(frames) - 1) ELSE frames
  /\ UNCHANGED <<count, sent, saved, loaded, torn>>

FirstRound == treg["b"] # 1

\* ISR::Save and ISR::Load take a service point each, as an interrupt does.  The
\* bound: the program saves in the first of its two rounds.
Saving ==
  /\ irq = None /\ saved = None /\ ~loaded /\ FirstRound
  /\ saved' = [cpu |-> State, mem |-> mem, iff |-> iff,
               twin |-> Twin!State, tiff |-> tiff, tmem |-> tmem,
               frames |-> frames, count |-> count]
  /\ UNCHANGED <<vars, twinvars, ghosts, sent, loaded>>

Loading ==
  /\ irq = None /\ saved # None
  /\ Load(saved.cpu) /\ mem' = saved.mem
  /\ treg' = saved.twin.reg /\ tstatus' = saved.twin.status
  /\ tpc' = saved.twin.pc /\ tsp' = saved.twin.sp
  /\ tiff' = saved.tiff /\ tmem' = saved.tmem
  /\ UNCHANGED <<tirq, tout, tticks>>
  /\ frames' = saved.frames /\ count' = saved.count
  /\ torn' = (iff # saved.iff)
  /\ saved' = None /\ loaded' = TRUE
  /\ UNCHANGED sent

Next == Interrupting \/ Entering \/ Executing \/ Saving \/ Loading

\* The machine loop always goes on to the next instruction: nothing else can happen
\* forever, since the interrupts, the save and the load are bounded.
Spec == Init /\ [][Next]_mcvars /\ WF_mcvars(Next)

Word16(m, addr) ==
  Uint16(IF addr + 1 \in DOMAIN m THEN m[addr + 1] ELSE 0,
         IF addr \in DOMAIN m THEN m[addr] ELSE 0)

\* A state saved between DI and EI, or in a handler, and loaded while interrupts
\* are enabled lets them into the section: the flip-flop is not saved (8080.cpp:366).
Undisturbed == frames = << >> /\ iff /\ ~torn

\* Interrupts are transparent to a program whose handlers save what they use:
\* wherever a handler has returned, also when handlers interrupted each other
\* between EI and RET, the registers, the flags, pc, sp and the output are what
\* they are without interrupts, also after a load, unless it met another
\* flip-flop (Execute's acknowledgement, Rst, PUSH and POP PSW, Save and Load).
InterruptsTransparent ==
  Undisturbed =>
    /\ reg = treg /\ status = tstatus /\ pc = tpc /\ sp = tsp
    /\ iff = tiff /\ out = tout

\* A section between DI and EI is atomic, and so is a handler, entered with
\* interrupts disabled: no increment of the word both of them change is lost.
SectionsAtomic ==
  Undisturbed => Word16(mem, Shared) = Word16(tmem, Shared) + count[1]

\* Whatever handlers run between its instructions, and whichever of its states is
\* loaded later, the program gets to its end.
ProgramEnds == <>(frames = << >> /\ pc = Halt)
=============================================================================
