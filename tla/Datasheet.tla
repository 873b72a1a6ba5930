------------------------------ MODULE Datasheet ------------------------------
(***************************************************************************)
(* What Intel's data sheet says of the 8080's instructions, by opcode:     *)
(* length, clock periods, flags and use of the stack; and what Cpu8080 has *)
(* to do with them.                                                        *)
(***************************************************************************)
EXTENDS Cpu8080

Undefined == {8, 16, 24, 32, 40, 48, 56, 203, 217, 221, 237, 253}

\* Bytes of an instruction; none of the undefined ones is meant.
Length(op) ==
  IF op \in {1, 17, 33, 49, 34, 42, 50, 58, 195, 205}
       \cup {194 + 8 * i : i \in 0 .. 7} \cup {196 + 8 * i : i \in 0 .. 7} THEN 3
  ELSE IF op \in {6 + 8 * i : i \in 0 .. 7} \cup {198 + 8 * i : i \in 0 .. 7}
               \cup {211, 219} THEN 2
  ELSE 1

Jumps == {195, 201, 205, 233}
Conditionals == {192 + 8 * i + k : i \in 0 .. 7, k \in {0, 2, 4}}
Restarts == {199 + 8 * i : i \in 0 .. 7}

\* The condition of a conditional jump, call or return.
Holds(op) ==
  LET row == op - (op % 8)
  IN \/ (row = 192 /\ ~Test(status, ZeroFlag))   \/ (row = 200 /\ Test(status, ZeroFlag))
     \/ (row = 208 /\ ~Test(status, CarryFlag))  \/ (row = 216 /\ Test(status, CarryFlag))
     \/ (row = 224 /\ ~Test(status, ParityFlag)) \/ (row = 232 /\ Test(status, ParityFlag))
     \/ (row = 240 /\ ~Test(status, SignFlag))   \/ (row = 248 /\ Test(status, SignFlag))

Target ==
  IF Opcode % 8 = 0 THEN Uint16(Read(Plus(sp, 1)), Read(sp)) ELSE Imm16

Follows ==
  LET after == Plus(pc, Length(Opcode))
  IN IF Interrupted THEN pc' = 8 * irq
     ELSE IF Opcode \in Conditionals
          THEN pc' = IF Holds(Opcode) THEN Target ELSE after
     ELSE IF Opcode \in Restarts THEN pc' = Opcode - 199
     ELSE IF Opcode \in Jumps
          THEN pc' = IF Opcode = 201 THEN Uint16(Read(Plus(sp, 1)), Read(sp))
                     ELSE IF Opcode = 233 THEN Hl ELSE Imm16
     ELSE Opcode \notin Undefined => pc' = after

\* An instruction that does not jump continues behind its last byte, also
\* across the end of the address space; a conditional one goes to its target
\* when its condition holds and continues otherwise, an unconditional one always;
\* a restart, of the program or of an interrupt, goes to 8 * n.
FollowsProgram == [][Execute => Follows]_vars

\* Clock periods, for the conditional calls and returns when not taken.
Periods(op) ==
  IF op = 227 THEN 18
  ELSE IF op = 205 THEN 17
  ELSE IF op \in {34, 42} THEN 16
  ELSE IF op \in {50, 58} THEN 13
  ELSE IF op \in {197, 213, 229, 245} \cup Restarts \cup {196 + 8 * i : i \in 0 .. 7} THEN 11
  ELSE IF op \in {1, 17, 33, 49, 9, 25, 41, 57, 52, 53, 54, 193, 209, 225, 241,
                  195, 201, 211, 219} \cup {194 + 8 * i : i \in 0 .. 7} THEN 10
  ELSE IF op \in {2, 10, 18, 26} \cup {6 + 8 * i : i \in (0 .. 7) \ {6}}
            \cup {70 + 8 * i : i \in 0 .. 7} \cup (112 .. 119)
            \cup {134 + 8 * i : i \in 0 .. 7} \cup {198 + 8 * i : i \in 0 .. 7} THEN 7
  ELSE IF op \in {192 + 8 * i : i \in 0 .. 7} \cup {3, 11, 19, 27, 35, 43, 51, 59, 233, 249}
            \cup {4 + 8 * i : i \in (0 .. 7) \ {6}} \cup {5 + 8 * i : i \in (0 .. 7) \ {6}}
            \cup {o \in 64 .. 127 : o % 8 # 6} THEN 5
  ELSE 4

Duration ==
  IF Interrupted THEN 11
  ELSE IF Opcode \in Undefined THEN 0
  ELSE IF Opcode \in Conditionals /\ Opcode % 8 # 2 /\ Holds(Opcode)
       THEN Periods(Opcode) + 6
  ELSE Periods(Opcode)

\* Execute takes a MOV of a register to itself for a NOP (8080.cpp:477-540).
NopDuration == 4

\* The machine's clock and interrupts count the periods of the data sheet, six more
\* for a taken conditional call or return; but those of a NOP for a MOV of a
\* register to itself, where the data sheet has 5.
Timed ==
  ticks' = IF ~Interrupted /\ Opcode \in MovToItself THEN NopDuration ELSE Duration

TakesPeriods == [][Execute => Timed]_vars

\* All flags in arithmetic, logic, DAA and POP PSW, all but the carry in INR and
\* DCR, the carry in rotations, DAD, STC and CMC.
MayChange(op) ==
  IF op \in (128 .. 191) \cup {198 + 8 * i : i \in 0 .. 7} \cup {39, 241} THEN Flag
  ELSE IF op \in {4 + 8 * i : i \in 0 .. 7} \cup {5 + 8 * i : i \in 0 .. 7}
       THEN Flag \ {CarryFlag}
  ELSE IF op \in {7, 15, 23, 31, 9, 25, 41, 57, 55, 63} THEN {CarryFlag}
  ELSE {}

\* An instruction changes the flags the data sheet says it may change, and no
\* other; an interrupt changes none.
Preserves ==
  \A flag \in Flag :
    (Interrupted \/ flag \notin MayChange(Opcode)) => Test(status', flag) = Test(status, flag)

FlagsPreserved == [][Execute => Preserves]_vars

-----------------------------------------------------------------------------
(* The stack.                                                              *)

\* The word that the next RET or POP takes.
Top == Uint16(Read(Plus(sp, 1)), Read(sp))

\* The registers that PUSH and POP of an opcode name.
Stacked(op, r, st) ==
  IF op \in {193, 197} THEN Uint16(r["b"], r["c"])
  ELSE IF op \in {209, 213} THEN Uint16(r["d"], r["e"])
  ELSE IF op \in {225, 229} THEN Uint16(r["h"], r["l"])
  ELSE Uint16(r["a"], st)

Pushes == {197, 213, 229, 245}
Pops == {193, 209, 225, 241}

Calling == Opcode = 205 \/ (Opcode \in Conditionals /\ Opcode % 8 = 4 /\ Holds(Opcode))
Returning == Opcode = 201 \/ (Opcode \in Conditionals /\ Opcode % 8 = 0 /\ Holds(Opcode))

\* What an interrupt, a restart, a call and a PUSH leave on the stack.
Left ==
  IF Interrupted THEN pc
  ELSE IF Opcode \in Restarts THEN Plus(pc, 1)
  ELSE IF Calling THEN Plus(pc, 3)
  ELSE Stacked(Opcode, reg, status)

Leaves ==
  /\ sp' = Plus(sp, 65534) /\ Top' = Left
  /\ \A addr \in DOMAIN mem \ {sp', Plus(sp', 1)} : mem'[addr] = mem[addr]

\* A status register from elsewhere than a PUSH may lose the bits that are no flags.
Takes ==
  /\ sp' = Plus(sp, 2) /\ mem' = mem
  /\ Returning => pc' = Top
  /\ Opcode \in Pops /\ (Opcode = 241 => Canonical(Low(Top))) =>
       Stacked(Opcode, reg', status') = Top

\* LXI, INX and DCX of sp, and SPHL.
SetsSp == {49, 51, 59, 249}

Stacks ==
  IF Interrupted \/ Calling \/ Opcode \in Restarts \cup Pushes THEN Leaves
  ELSE IF Returning \/ Opcode \in Pops THEN Takes
  ELSE Opcode \notin SetsSp => sp' = sp

\* What an interrupt, a call, a restart or a PUSH leaves is what the next RET
\* or POP takes, bit by bit, also where the stack wraps around the end of the
\* address space; nothing else is written, and nothing else moves the stack but the
\* instructions that are there to set it. So a handler that pushes
\* what it uses and pops it again gives everything back.
StackKept == [][Execute => Stacks]_vars

-----------------------------------------------------------------------------
(* Registers and memory.                                                   *)

Row(op) == op - (op % 8)

\* INR, DCR, MVI and MOV name their destination by a row of the opcode table, the
\* others have one or two pairs, or the accumulator; STC, CMC and CMP have none.
Changed(op) ==
  IF (op < 64 /\ op % 8 \in {4, 5, 6}) \/ op \in (64 .. 127) \ {118} THEN
    CASE Row(op) \in {0, 64} -> {"b"}    [] Row(op) \in {8, 72} -> {"c"}
      [] Row(op) \in {16, 80} -> {"d"}   [] Row(op) \in {24, 88} -> {"e"}
      [] Row(op) \in {32, 96} -> {"h"}   [] Row(op) \in {40, 104} -> {"l"}
      [] Row(op) \in {48, 112} -> {}     [] Row(op) \in {56, 120} -> {"a"}
  ELSE IF op \in {1, 3, 11, 193} THEN {"b", "c"}
  ELSE IF op \in {17, 19, 27, 209} THEN {"d", "e"}
  ELSE IF op \in {33, 35, 43, 225, 9, 25, 41, 57, 42, 227} THEN {"h", "l"}
  ELSE IF op = 235 THEN {"d", "e", "h", "l"}
  ELSE IF op \in {7, 15, 23, 31, 39, 47, 10, 26, 58, 219, 241} \cup (128 .. 183)
               \cup {198 + 8 * i : i \in 0 .. 6} THEN {"a"}
  ELSE {}

\* Where an instruction stores.
Stored ==
  IF Interrupted \/ Calling \/ Opcode \in Restarts \cup Pushes
  THEN {Plus(sp, 65534), Plus(sp, 65535)}
  ELSE IF Opcode = 2 THEN {Uint16(reg["b"], reg["c"])}
  ELSE IF Opcode = 18 THEN {Uint16(reg["d"], reg["e"])}
  ELSE IF Opcode = 34 THEN {Imm16, Plus(Imm16, 1)}
  ELSE IF Opcode = 50 THEN {Imm16}
  ELSE IF Opcode \in {52, 53, 54, 119} \cup (112 .. 117) THEN {Hl}
  ELSE IF Opcode = 227 THEN {sp, Plus(sp, 1)}
  ELSE {}

SparesRegisters ==
  \A r \in Reg : (Interrupted \/ r \notin Changed(Opcode)) => reg'[r] = reg[r]

SparesMemory ==
  \A addr \in (DOMAIN mem \cup DOMAIN mem') \ Stored : Read(addr)' = Read(addr)

\* No instruction changes a register but those it is there to set, nor a byte but
\* those it stores, whatever else the handler touches on its way, and an interrupt
\* no register: what a program keeps in the others is there when it comes back to it.
OthersSpared == [][Execute => SparesRegisters /\ SparesMemory]_vars
=============================================================================
