------------------------------ MODULE Cpu8080 ------------------------------
(***************************************************************************)
(* src/Cpu/source/8080.cpp: Execute, one instruction or one interrupt      *)
(* acknowledgement at a time, in a release build (where assert does        *)
(* nothing).  Each handler of the source is an action; its guard is the    *)
(* set of opcodes that Execute dispatches to it, decoded by the fields of  *)
(* the opcode.                                                             *)
(*                                                                         *)
(* The memory and io controllers are outside the cpu: mem holds the bytes  *)
(* written so far, all other addresses read as 0; an input port yields any *)
(* byte of Input.                                                          *)
(***************************************************************************)
EXTENDS Alu, Sequences, TLC

CONSTANTS
  Input,  \* bytes an input port may deliver
  None    \* no signal, no output

ASSUME CpuAssumption == Input \subseteq Byte /\ Input # {} /\ None \notin 0 .. 7

VARIABLES
  reg,    \* a_, b_, c_, d_, e_, h_, l_
  status, \* status_
  pc,     \* pc_
  sp,     \* sp_
  iff,    \* iff_
  irq,    \* the restart on the bus with Signal::Interrupt, or None
  mem,    \* what the memory controller holds
  out,    \* the most recent <<port, byte>> written to the io controller
  ticks   \* the time periods the last Execute returned

vars == <<reg, status, pc, sp, iff, irq, mem, out, ticks>>

Reg == {"a", "b", "c", "d", "e", "h", "l"}

Plus(word, n) == (word + n) % 65536
Read(addr) == IF addr \in DOMAIN mem THEN mem[addr] ELSE 0
Written(memory, addr, byte) ==
  IF addr \in DOMAIN memory THEN [memory EXCEPT ![addr] = byte]
  ELSE [a \in DOMAIN memory \cup {addr} |-> IF a = addr THEN byte ELSE memory[a]]
Write(addr, byte) == mem' = Written(mem, addr, byte)

\* Mutant: only the low byte of the address moves on to the second byte of a word.
Write16InPage(addr, word) ==
  mem' = Written(Written(mem, addr, Low(word)),
                 Uint16(Hi(addr), (Low(addr) + 1) % 256), Hi(word))

Write16(addr, word) ==
  mem' = Written(Written(mem, addr, Low(word)), Plus(addr, 1), Hi(word))

Opcode == Read(pc)
Imm == Read(Plus(pc, 1))
Imm16 == Uint16(Read(Plus(pc, 2)), Imm)

Dst == (Opcode \div 8) % 8
Src == Opcode % 8
Pair == (Opcode \div 16) % 4

\* Mutant: the fields of H and L are taken for each other.
NameSwapped == <<"b", "c", "d", "e", "l", "h", "memory", "a">>

\* The operand fields of an opcode name a register, or memory at HL.
Memory == 6
Name == <<"b", "c", "d", "e", "h", "l", "memory", "a">>
Hl == Uint16(reg["h"], reg["l"])
Operand(field) == IF field = Memory THEN Read(Hl) ELSE reg[Name[field + 1]]

SetOperand(field, byte) ==
  IF field = Memory THEN Write(Hl, byte) /\ reg' = reg
  ELSE reg' = [reg EXCEPT ![Name[field + 1]] = byte] /\ mem' = mem

\* The pair field names BC, DE, HL, and SP or PSW.
High == <<"b", "d", "h">>
Lower == <<"c", "e", "l">>
PairValue(pair) ==
  IF pair = 3 THEN sp ELSE Uint16(reg[High[pair + 1]], reg[Lower[pair + 1]])
WithPair(pair, word) ==
  [reg EXCEPT ![High[pair + 1]] = Hi(word), ![Lower[pair + 1]] = Low(word)]
SetPair(pair, word) ==
  IF pair = 3 THEN sp' = word /\ reg' = reg
  ELSE reg' = WithPair(pair, word) /\ sp' = sp

\* The condition field: NZ Z NC C PO PE P M.
Condition ==
  LET flag == <<ZeroFlag, CarryFlag, ParityFlag, SignFlag>>
  IN Test(status, flag[(Dst \div 2) + 1]) = (Dst % 2 = 1)

-----------------------------------------------------------------------------
(* Fetch-and-execute steps: they consume an interrupt the cpu ignores.     *)

Interrupted == irq # None /\ iff

Op(opcodes, length, periods) ==
  /\ ~Interrupted /\ Opcode \in opcodes
  /\ irq' = None
  /\ pc' = Plus(pc, length) /\ ticks' = periods

\* MOV of B, C, D, E, H, L or A to itself: the switch sends them to Nop, not to Mov.
MovToItself == {64, 73, 82, 91, 100, 109, 127}

Nop ==
  /\ Op({0} \cup MovToItself, 1, 4)
  /\ UNCHANGED <<reg, status, sp, iff, mem, out>>

Lxi ==
  /\ Op({1, 17, 33, 49}, 3, 10)
  /\ SetPair(Pair, Imm16)
  /\ UNCHANGED <<status, iff, mem, out>>

Stax ==
  /\ Op({2, 18}, 1, 7)
  /\ Write(PairValue(Pair), reg["a"])
  /\ UNCHANGED <<reg, status, sp, iff, out>>

Ldax ==
  /\ Op({10, 26}, 1, 7)
  /\ reg' = [reg EXCEPT !["a"] = Read(PairValue(Pair))]
  /\ UNCHANGED <<status, sp, iff, mem, out>>

InxPair ==
  /\ Op({3, 19, 35, 51}, 1, 5)
  /\ SetPair(Pair, Inx(PairValue(Pair)))
  /\ UNCHANGED <<status, iff, mem, out>>

DcxPair ==
  /\ Op({11, 27, 43, 59}, 1, 5)
  /\ SetPair(Pair, Dcx(PairValue(Pair)))
  /\ UNCHANGED <<status, iff, mem, out>>

\* Mutant: DAD sets all the flags.
DadPairFlags ==
  /\ Op({9, 25, 41, 57}, 1, 10)
  /\ LET sum == Dad(status, Hl, PairValue(Pair))
     IN reg' = WithPair(2, sum.val)
        /\ status' = ResultFlags(sum.status, Hi(sum.val))
  /\ UNCHANGED <<sp, iff, mem, out>>

DadPair ==
  /\ Op({9, 25, 41, 57}, 1, 10)
  /\ LET sum == Dad(status, Hl, PairValue(Pair))
     IN reg' = WithPair(2, sum.val) /\ status' = sum.status
  /\ UNCHANGED <<sp, iff, mem, out>>

InrDcr ==
  /\ Op({8 * d + i : d \in 0 .. 7, i \in {4, 5}}, 1, IF Dst = Memory THEN 10 ELSE 5)
  /\ LET r == IF Src = 4 THEN Inr(status, Operand(Dst))
                         ELSE Dcr(status, Operand(Dst))
     IN SetOperand(Dst, r.val) /\ status' = r.status
  /\ UNCHANGED <<sp, iff, out>>

Mvi ==
  /\ Op({8 * d + 6 : d \in 0 .. 7}, 2, IF Dst = Memory THEN 10 ELSE 7)
  /\ SetOperand(Dst, Imm)
  /\ UNCHANGED <<status, sp, iff, out>>

OnAccumulator(opcode, r) ==
  /\ Op({opcode}, 1, 4)
  /\ reg' = [reg EXCEPT !["a"] = r.val] /\ status' = r.status
  /\ UNCHANGED <<sp, iff, mem, out>>

RlcA == OnAccumulator(7, Rlc(status, reg["a"]))
RrcA == OnAccumulator(15, Rrc(status, reg["a"]))
RalA == OnAccumulator(23, Ral(status, reg["a"]))
RarA == OnAccumulator(31, Rar(status, reg["a"]))
DaaA == OnAccumulator(39, Daa(status, reg["a"]))
CmaA == OnAccumulator(47, [val |-> Cma(reg["a"]), status |-> status])

Stc == OnAccumulator(55, Rotated(status, reg["a"], TRUE))
Cmc == OnAccumulator(63, Rotated(status, reg["a"], ~Test(status, CarryFlag)))

Shld ==
  /\ Op({34}, 3, 16)
  /\ Write16(Imm16, Hl)
  /\ UNCHANGED <<reg, status, sp, iff, out>>

Lhld ==
  /\ Op({42}, 3, 16)
  /\ reg' = [reg EXCEPT !["l"] = Read(Imm16), !["h"] = Read(Plus(Imm16, 1))]
  /\ UNCHANGED <<status, sp, iff, mem, out>>

Sta ==
  /\ Op({50}, 3, 13)
  /\ Write(Imm16, reg["a"])
  /\ UNCHANGED <<reg, status, sp, iff, out>>

Lda ==
  /\ Op({58}, 3, 13)
  /\ reg' = [reg EXCEPT !["a"] = Read(Imm16)]
  /\ UNCHANGED <<status, sp, iff, mem, out>>

Mov ==
  /\ Op((64 .. 127) \ (MovToItself \cup {118}), 1, IF Memory \in {Dst, Src} THEN 7 ELSE 5)
  /\ SetOperand(Dst, Operand(Src))
  /\ UNCHANGED <<status, sp, iff, out>>

\* A release build has no stopped state: the next instruction follows.
Hlt == Op({118}, 1, 7) /\ UNCHANGED <<reg, status, sp, iff, mem, out>>

\* ADD ADC SUB SBB ANA XRA ORA CMP, by the same field also when immediate.
Arithmetic(byte) ==
  LET a == reg["a"]
      c == Bit(status, CarryFlag)
      r == CASE Dst = 0 -> Add(status, a, byte, 0, TRUE)
             [] Dst = 1 -> Add(status, a, byte, c, TRUE)
             [] Dst = 2 -> Sub(status, a, byte, 0)
             [] Dst = 3 -> Sub(status, a, byte, c)
             [] Dst = 4 -> Ana(status, a, byte)
             [] Dst = 5 -> Xra(status, a, byte)
             [] Dst = 6 -> Ora(status, a, byte)
             [] Dst = 7 -> [Sub(status, a, byte, 0) EXCEPT !.val = a]
  IN reg' = [reg EXCEPT !["a"] = r.val] /\ status' = r.status

ArithmeticRegister ==
  /\ Op(128 .. 191, 1, IF Src = Memory THEN 7 ELSE 4)
  /\ Arithmetic(Operand(Src))
  /\ UNCHANGED <<sp, iff, mem, out>>

ArithmeticImmediate ==
  /\ Op({192 + 8 * d + 6 : d \in 0 .. 7}, 2, 7)
  /\ Arithmetic(Imm)
  /\ UNCHANGED <<sp, iff, mem, out>>

Conditional(low) == {192 + 8 * d + low : d \in 0 .. 7}

Goto(opcodes, addr, periods) ==
  /\ ~Interrupted /\ Opcode \in opcodes
  /\ irq' = None
  /\ pc' = addr /\ ticks' = periods

\* Mutant: a jump not taken skips the opcode and one address byte only.
JmpOnFlagShort ==
  /\ IF Opcode = 195 \/ Condition THEN Goto(Conditional(2) \cup {195}, Imm16, 10)
     ELSE Op(Conditional(2), 2, 10)
  /\ UNCHANGED <<reg, status, sp, iff, mem, out>>

JmpOnFlag ==
  /\ IF Opcode = 195 \/ Condition THEN Goto(Conditional(2) \cup {195}, Imm16, 10)
     ELSE Op(Conditional(2), 3, 10)
  /\ UNCHANGED <<reg, status, sp, iff, mem, out>>

RetOnFlag ==
  /\ IF Opcode = 201 \/ Condition
     THEN /\ Goto(Conditional(0) \cup {201}, Uint16(Read(Plus(sp, 1)), Read(sp)),
                  IF Opcode = 201 THEN 10 ELSE 11)
          /\ sp' = Plus(sp, 2)
     ELSE Op(Conditional(0), 1, 5) /\ sp' = sp
  /\ UNCHANGED <<reg, status, iff, mem, out>>

PushWord(word) == sp' = Plus(sp, 65534) /\ Write16(Plus(sp, 65534), word)

\* Mutant: a call not taken costs as much as one taken.
CallOnFlagSlow ==
  /\ IF Opcode = 205 \/ Condition
     THEN /\ Goto(Conditional(4) \cup {205}, Imm16, 17)
          /\ PushWord(Plus(pc, 3))
     ELSE Op(Conditional(4), 3, 17) /\ UNCHANGED <<sp, mem>>
  /\ UNCHANGED <<reg, status, iff, out>>

\* Mutant: CALL leaves its own address for the return.
CallOnFlagReturnsToCall ==
  /\ IF Opcode = 205 \/ Condition
     THEN /\ Goto(Conditional(4) \cup {205}, Imm16, 17)
          /\ PushWord(pc)
     ELSE Op(Conditional(4), 3, 11) /\ UNCHANGED <<sp, mem>>
  /\ UNCHANGED <<reg, status, iff, out>>

CallOnFlag ==
  /\ IF Opcode = 205 \/ Condition
     THEN /\ Goto(Conditional(4) \cup {205}, Imm16, 17)
          /\ PushWord(Plus(pc, 3))
     ELSE Op(Conditional(4), 3, 11) /\ UNCHANGED <<sp, mem>>
  /\ UNCHANGED <<reg, status, iff, out>>

Rst ==
  /\ Goto(Conditional(7), 8 * Dst, 11)
  /\ PushWord(Plus(pc, 1))
  /\ UNCHANGED <<reg, status, iff, out>>

Push ==
  /\ Op({197, 213, 229, 245}, 1, 11)
  /\ PushWord(IF Pair = 3 THEN Uint16(reg["a"], status) ELSE PairValue(Pair))
  /\ UNCHANGED <<reg, status, iff, out>>

\* Mutant: POP PSW keeps the bits that are not flags.
PswRaw(byte) == byte

\* Mutant: POP PSW drops the auxiliary carry.
PswNoAux(byte) == Put(Put(Put(Put(byte, 5, FALSE), 3, FALSE), 1, TRUE), 4, FALSE)

\* POP PSW forces bits 1, 3 and 5 of the status register: & 0xD7 | 0x02.
Psw(byte) == Put(Put(Put(byte, 5, FALSE), 3, FALSE), 1, TRUE)

Pop ==
  /\ Op({193, 209, 225, 241}, 1, 10)
  /\ LET low == Read(sp)
         hi == Read(Plus(sp, 1))
     IN IF Pair = 3
        THEN reg' = [reg EXCEPT !["a"] = hi] /\ status' = Psw(low)
        ELSE reg' = WithPair(Pair, Uint16(hi, low)) /\ status' = status
  /\ sp' = Plus(sp, 2)
  /\ UNCHANGED <<iff, mem, out>>

Xthl ==
  /\ Op({227}, 1, 18)
  /\ reg' = [reg EXCEPT !["l"] = Read(sp), !["h"] = Read(Plus(sp, 1))]
  /\ Write16(sp, Hl)
  /\ UNCHANGED <<status, sp, iff, out>>

Pchl == Goto({233}, Hl, 5) /\ UNCHANGED <<reg, status, sp, iff, mem, out>>

Xchg ==
  /\ Op({235}, 1, 4)
  /\ reg' = [reg EXCEPT !["h"] = reg["d"], !["d"] = reg["h"],
                        !["l"] = reg["e"], !["e"] = reg["l"]]
  /\ UNCHANGED <<status, sp, iff, mem, out>>

Sphl == Op({249}, 1, 5) /\ sp' = Hl /\ UNCHANGED <<reg, status, iff, mem, out>>

DiEi ==
  /\ Op({243, 251}, 1, 4)
  /\ iff' = (Opcode = 251)
  /\ UNCHANGED <<reg, status, sp, mem, out>>

Out ==
  /\ Op({211}, 2, 10)
  /\ out' = <<Imm, reg["a"]>>
  /\ UNCHANGED <<reg, status, sp, iff, mem>>

In ==
  /\ Op({219}, 2, 10)
  /\ \E byte \in Input : reg' = [reg EXCEPT !["a"] = byte]
  /\ UNCHANGED <<status, sp, iff, mem, out>>

\* DD, ED and FD skip one byte more; none of them takes any time.
NotImplemented ==
  /\ Op({8, 16, 24, 32, 40, 48, 56, 203, 217, 221, 237, 253},
        IF Opcode \in {221, 237, 253} THEN 2 ELSE 1, 0)
  /\ UNCHANGED <<reg, status, sp, iff, mem, out>>

Instruction ==
  \/ Nop \/ Lxi \/ Stax \/ Ldax \/ InxPair \/ DcxPair \/ DadPair \/ InrDcr
  \/ Mvi \/ RlcA \/ RrcA \/ RalA \/ RarA \/ DaaA \/ CmaA \/ Stc \/ Cmc
  \/ Shld \/ Lhld \/ Sta \/ Lda \/ Mov \/ Hlt
  \/ ArithmeticRegister \/ ArithmeticImmediate \/ JmpOnFlag \/ RetOnFlag
  \/ CallOnFlag \/ Rst \/ Push \/ Pop \/ Xthl \/ Pchl \/ Xchg \/ Sphl \/ DiEi
  \/ Out \/ In \/ NotImplemented

\* Mutant: a handler starts with interrupts enabled.
AcknowledgeEnabled ==
  /\ Interrupted
  /\ irq' = None /\ iff' = iff
  /\ pc' = 8 * irq /\ ticks' = 11
  /\ PushWord(pc)
  /\ UNCHANGED <<reg, status, out>>

\* An interrupt the flip-flop lets through becomes RST irq of the instruction
\* boundary, and disables the ones after it.
Acknowledge ==
  /\ Interrupted
  /\ irq' = None /\ iff' = FALSE
  /\ pc' = 8 * irq /\ ticks' = 11
  /\ PushWord(pc)
  /\ UNCHANGED <<reg, status, out>>

Execute == Acknowledge \/ Instruction

\* The machine puts a restart on the bus, between two instructions.
Interrupt(n) ==
  /\ irq = None
  /\ irq' = n
  /\ UNCHANGED <<reg, status, pc, sp, iff, mem, out, ticks>>

Reset(addr) ==
  /\ reg = [r \in Reg |-> 0] /\ status = 2
  /\ pc = addr /\ sp = 0 /\ iff = FALSE

\* Save: the flip-flop is not part of the state of a cpu.
State == [reg |-> reg, status |-> status, pc |-> pc, sp |-> sp]

\* Mutant: a load keeps the status register.
LoadWithoutStatus(state) ==
  /\ reg' = state.reg /\ status' = status /\ pc' = state.pc /\ sp' = state.sp
  /\ UNCHANGED <<iff, irq, out, ticks>>

\* Load, of a state of this cpu; what a state lacks is refused before.
Load(state) ==
  /\ reg' = state.reg /\ status' = state.status /\ pc' = state.pc /\ sp' = state.sp
  /\ UNCHANGED <<iff, irq, out, ticks>>

-----------------------------------------------------------------------------
\* Registers are bytes, pc and sp are words that wrap, and the bits of the
\* status register that are not flags keep the values 8080.h:105 gives them.
TypeOK ==
  /\ reg \in [Reg -> Byte] /\ status \in Status
  /\ pc \in Word /\ sp \in Word /\ iff \in BOOLEAN
  /\ irq \in 0 .. 7 \cup {None}
  /\ DOMAIN mem \subseteq Word /\ \A addr \in DOMAIN mem : mem[addr] \in Byte
=============================================================================
