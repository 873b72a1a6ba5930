----------------------------- MODULE CpuProofs -----------------------------
(***************************************************************************)
(* Proofs about Cpu8080, for every content of the memory and every set of  *)
(* bytes a port may deliver.                                               *)
(***************************************************************************)
EXTENDS Cpu8080, AluProofs

-----------------------------------------------------------------------------
(* Memory.                                                                 *)

LEMMA PlusTyped ==
  ASSUME NEW word \in Word
  PROVE  \A n \in Nat : Plus(word, n) \in Word
<1>1. word \in Int
  BY WordIs
<1> QED BY <1>1, Wrapped DEF Plus

\* What the memory controller holds.
MemTyped(memory) ==
  /\ DOMAIN memory \subseteq Word
  /\ \A addr \in DOMAIN memory : memory[addr] \in Byte

LEMMA ReadTyped ==
  ASSUME TypeOK, NEW addr
  PROVE  Read(addr) \in Byte
BY DEF TypeOK, Read, Byte

LEMMA WrittenTyped ==
  ASSUME NEW memory, MemTyped(memory), NEW addr \in Word, NEW byte \in Byte
  PROVE  MemTyped(Written(memory, addr, byte))
BY DEF MemTyped, Written

LEMMA WriteTyped ==
  ASSUME TypeOK, NEW addr \in Word
  PROVE  /\ \A byte \in Byte : Write(addr, byte) => MemTyped(mem')
         /\ \A word \in Word : Write16(addr, word) => MemTyped(mem')
<1>1. MemTyped(mem)
  BY DEF TypeOK, MemTyped
<1>2. Plus(addr, 1) \in Word
  BY PlusTyped
<1> QED BY <1>1, <1>2, WrittenTyped, WordsTyped DEF Write, Write16

LEMMA PushWordTyped ==
  ASSUME TypeOK, NEW word \in Word, PushWord(word)
  PROVE  sp' \in Word /\ MemTyped(mem')
<1>1. Plus(sp, 65534) \in Word
  <2>1. sp + 65534 \in Int
    BY WordIs DEF TypeOK
  <2> QED BY <2>1, Wrapped DEF Plus
<1> QED BY <1>1, WriteTyped DEF PushWord

-----------------------------------------------------------------------------
(* Operands.                                                               *)

LEMMA FieldsTyped ==
  ASSUME TypeOK
  PROVE  /\ Opcode \in Byte /\ Imm \in Byte /\ Imm16 \in Word
         /\ Dst \in 0 .. 7 /\ Src \in 0 .. 7 /\ Pair \in 0 .. 3
<1>1. Opcode \in Byte /\ Imm \in Byte /\ Read(Plus(pc, 2)) \in Byte
  BY ReadTyped DEF Opcode, Imm
<1>2. Imm16 \in Word
  BY <1>1, Uint16Typed DEF Imm16
<1> QED BY <1>1, <1>2 DEF Dst, Src, Pair, Byte

LEMMA NameTyped ==
  ASSUME NEW field \in 0 .. 7, field # Memory
  PROVE  Name[field + 1] \in Reg
BY DEF Name, Reg, Memory

LEMMA PairNamesTyped ==
  ASSUME NEW pair \in 0 .. 3, pair # 3
  PROVE  High[pair + 1] \in Reg /\ Lower[pair + 1] \in Reg
BY DEF High, Lower, Reg

LEMMA HlTyped ==
  ASSUME TypeOK
  PROVE  Hl \in Word
BY Uint16Typed DEF TypeOK, Hl, Reg

LEMMA OperandTyped ==
  ASSUME TypeOK, NEW field \in 0 .. 7
  PROVE  Operand(field) \in Byte
BY ReadTyped, NameTyped DEF TypeOK, Operand

LEMMA SetOperandTyped ==
  ASSUME TypeOK, NEW field \in 0 .. 7, NEW byte \in Byte, SetOperand(field, byte)
  PROVE  reg' \in [Reg -> Byte] /\ MemTyped(mem')
<1>1. CASE field = Memory
  BY <1>1, HlTyped, WriteTyped DEF TypeOK, SetOperand
<1>2. CASE field # Memory
  BY <1>2, NameTyped DEF TypeOK, SetOperand, MemTyped
<1> QED BY <1>1, <1>2

LEMMA PairValueTyped ==
  ASSUME TypeOK, NEW pair \in 0 .. 3
  PROVE  PairValue(pair) \in Word
BY PairNamesTyped, Uint16Typed DEF TypeOK, PairValue

LEMMA WithPairTyped ==
  ASSUME TypeOK, NEW pair \in 0 .. 3, pair # 3, NEW word \in Word
  PROVE  WithPair(pair, word) \in [Reg -> Byte]
BY PairNamesTyped, WordsTyped DEF TypeOK, WithPair

LEMMA SetPairTyped ==
  ASSUME TypeOK, NEW pair \in 0 .. 3, NEW word \in Word, SetPair(pair, word)
  PROVE  reg' \in [Reg -> Byte] /\ sp' \in Word
BY WithPairTyped DEF TypeOK, SetPair

-----------------------------------------------------------------------------
(* The handlers.                                                           *)

\* Where the next instruction begins.
LEMMA NextTyped ==
  ASSUME TypeOK
  PROVE  \A n \in Nat : Plus(pc, n) \in Word
BY PlusTyped DEF TypeOK

\* What a step has to keep; only the machine puts something on the bus.
LEMMA Retyped ==
  ASSUME reg' \in [Reg -> Byte], status' \in Status, pc' \in Word, sp' \in Word,
         iff' \in BOOLEAN, irq' = None, MemTyped(mem')
  PROVE  TypeOK'
BY DEF TypeOK, MemTyped

LEMMA IncrementsTyped ==
  ASSUME NEW st \in Status, NEW r \in Byte
  PROVE  Result(Inr(st, r)) /\ Result(Dcr(st, r))
<1>1. 1 \in Byte /\ 255 \in Byte
  BY DEF Byte
<1> QED BY <1>1, AddTyped DEF Inr, Dcr

LEMMA OnAccumulatorTyped ==
  ASSUME TypeOK, NEW opcode, NEW r, Result(r), OnAccumulator(opcode, r)
  PROVE  TypeOK'
BY NextTyped, Retyped DEF TypeOK, MemTyped, Result, OnAccumulator, Op

LEMMA RestartTyped ==
  ASSUME NEW n \in 0 .. 7
  PROVE  8 * n \in Word
<1>1. 8 * n \in Int /\ 0 <= 8 * n /\ 8 * n <= 65535
  OBVIOUS
<1> QED BY <1>1, WordIs

\* POP PSW takes any byte for the flags.
LEMMA PswTyped == ASSUME NEW byte \in Byte PROVE Psw(byte) \in Status
BY Powers DEF Psw, Put, Num, Bit, Test, Status, Canonical, Byte

LEMMA ArithmeticTyped ==
  ASSUME TypeOK, NEW byte \in Byte, Arithmetic(byte)
  PROVE  reg' \in [Reg -> Byte] /\ status' \in Status
<1> DEFINE a == reg["a"]
           c == Bit(status, CarryFlag)
           compared == [Sub(status, a, byte, 0) EXCEPT !.val = a]
<1>1. a \in Byte /\ status \in Status /\ c \in {0, 1}
  BY BitTyped DEF TypeOK, Reg, Status, CarryFlag
<1>2. /\ Result(Add(status, a, byte, 0, TRUE)) /\ Result(Add(status, a, byte, c, TRUE))
      /\ Result(Sub(status, a, byte, 0)) /\ Result(Sub(status, a, byte, c))
      /\ Result(Ana(status, a, byte)) /\ Result(Xra(status, a, byte))
      /\ Result(Ora(status, a, byte))
  BY <1>1, AddTyped, SubTyped, BitwiseTyped
<1>3. Result(compared)
  BY <1>1, <1>2 DEF Result
<1>4. PICK r : Result(r) /\ reg' = [reg EXCEPT !["a"] = r.val] /\ status' = r.status
  <2>1. Dst = 0 \/ Dst = 1 \/ Dst = 2 \/ Dst = 3 \/ Dst = 4 \/ Dst = 5 \/ Dst = 6 \/ Dst = 7
    BY FieldsTyped
  <2> QED BY <1>2, <1>3, <2>1, Zenon DEF Arithmetic
<1> QED BY <1>4 DEF TypeOK, Result

LEMMA NopTyped == ASSUME TypeOK, Nop PROVE TypeOK'
BY NextTyped, FieldsTyped, Retyped
DEF TypeOK, MemTyped, Nop, Op

LEMMA LxiTyped == ASSUME TypeOK, Lxi PROVE TypeOK'
BY NextTyped, FieldsTyped, Retyped, SetPairTyped
DEF TypeOK, MemTyped, Lxi, Op

LEMMA StaxTyped == ASSUME TypeOK, Stax PROVE TypeOK'
BY NextTyped, FieldsTyped, Retyped, PairValueTyped, WriteTyped
DEF TypeOK, MemTyped, Stax, Op, Reg

LEMMA LdaxTyped == ASSUME TypeOK, Ldax PROVE TypeOK'
BY NextTyped, FieldsTyped, Retyped, ReadTyped
DEF TypeOK, MemTyped, Ldax, Op

LEMMA InxPairTyped == ASSUME TypeOK, InxPair PROVE TypeOK'
BY NextTyped, FieldsTyped, Retyped, PairValueTyped, WordsTyped, SetPairTyped
DEF TypeOK, MemTyped, InxPair, Op

LEMMA DcxPairTyped == ASSUME TypeOK, DcxPair PROVE TypeOK'
BY NextTyped, FieldsTyped, Retyped, PairValueTyped, WordsTyped, SetPairTyped
DEF TypeOK, MemTyped, DcxPair, Op

LEMMA DadPairTyped == ASSUME TypeOK, DadPair PROVE TypeOK'
BY NextTyped, FieldsTyped, Retyped, HlTyped, PairValueTyped, DadTyped, WithPairTyped
DEF TypeOK, MemTyped, DadPair, Op

LEMMA InrDcrTyped == ASSUME TypeOK, InrDcr PROVE TypeOK'
BY NextTyped, FieldsTyped, Retyped, OperandTyped, IncrementsTyped, SetOperandTyped
DEF TypeOK, MemTyped, InrDcr, Op, Result

LEMMA MviTyped == ASSUME TypeOK, Mvi PROVE TypeOK'
BY NextTyped, FieldsTyped, Retyped, SetOperandTyped
DEF TypeOK, MemTyped, Mvi, Op

LEMMA RlcATyped == ASSUME TypeOK, RlcA PROVE TypeOK'
BY OnAccumulatorTyped, RotationsTyped DEF TypeOK, RlcA, Reg

LEMMA RrcATyped == ASSUME TypeOK, RrcA PROVE TypeOK'
BY OnAccumulatorTyped, RotationsTyped DEF TypeOK, RrcA, Reg

LEMMA RalATyped == ASSUME TypeOK, RalA PROVE TypeOK'
BY OnAccumulatorTyped, RotationsTyped DEF TypeOK, RalA, Reg

LEMMA RarATyped == ASSUME TypeOK, RarA PROVE TypeOK'
BY OnAccumulatorTyped, RotationsTyped DEF TypeOK, RarA, Reg

LEMMA DaaATyped == ASSUME TypeOK, DaaA PROVE TypeOK'
BY OnAccumulatorTyped, DaaTyped DEF TypeOK, DaaA, Reg

LEMMA CmaATyped == ASSUME TypeOK, CmaA PROVE TypeOK'
<1>1. Cma(reg["a"]) \in Byte
  BY DEF TypeOK, Reg, Cma, Byte
<1>2. Result([val |-> Cma(reg["a"]), status |-> status])
  BY <1>1 DEF TypeOK, Result
<1> QED BY <1>2, OnAccumulatorTyped DEF CmaA

LEMMA StcTyped == ASSUME TypeOK, Stc PROVE TypeOK'
BY OnAccumulatorTyped, RotatedTyped DEF TypeOK, Stc, Reg

LEMMA CmcTyped == ASSUME TypeOK, Cmc PROVE TypeOK'
BY OnAccumulatorTyped, RotatedTyped DEF TypeOK, Cmc, Reg

LEMMA ShldTyped == ASSUME TypeOK, Shld PROVE TypeOK'
BY NextTyped, FieldsTyped, Retyped, HlTyped, WriteTyped
DEF TypeOK, MemTyped, Shld, Op

LEMMA LhldTyped == ASSUME TypeOK, Lhld PROVE TypeOK'
BY NextTyped, FieldsTyped, Retyped, ReadTyped
DEF TypeOK, MemTyped, Lhld, Op

LEMMA StaTyped == ASSUME TypeOK, Sta PROVE TypeOK'
BY NextTyped, FieldsTyped, Retyped, WriteTyped
DEF TypeOK, MemTyped, Sta, Op, Reg

LEMMA LdaTyped == ASSUME TypeOK, Lda PROVE TypeOK'
BY NextTyped, FieldsTyped, Retyped, ReadTyped
DEF TypeOK, MemTyped, Lda, Op

LEMMA MovTyped == ASSUME TypeOK, Mov PROVE TypeOK'
BY NextTyped, FieldsTyped, Retyped, OperandTyped, SetOperandTyped
DEF TypeOK, MemTyped, Mov, Op

LEMMA HltTyped == ASSUME TypeOK, Hlt PROVE TypeOK'
BY NextTyped, FieldsTyped, Retyped
DEF TypeOK, MemTyped, Hlt, Op

LEMMA ArithmeticRegisterTyped == ASSUME TypeOK, ArithmeticRegister PROVE TypeOK'
BY NextTyped, FieldsTyped, Retyped, OperandTyped, ArithmeticTyped
DEF TypeOK, MemTyped, ArithmeticRegister, Op

LEMMA ArithmeticImmediateTyped == ASSUME TypeOK, ArithmeticImmediate PROVE TypeOK'
BY NextTyped, FieldsTyped, Retyped, ArithmeticTyped
DEF TypeOK, MemTyped, ArithmeticImmediate, Op

LEMMA JmpOnFlagTyped == ASSUME TypeOK, JmpOnFlag PROVE TypeOK'
BY NextTyped, FieldsTyped, Retyped
DEF TypeOK, MemTyped, JmpOnFlag, Goto, Op

LEMMA RetOnFlagTyped == ASSUME TypeOK, RetOnFlag PROVE TypeOK'
<1>1. Uint16(Read(Plus(sp, 1)), Read(sp)) \in Word
  BY ReadTyped, Uint16Typed
<1>2. sp' \in Word
  BY PlusTyped DEF TypeOK, RetOnFlag
<1> QED
  BY <1>1, <1>2, NextTyped, Retyped DEF TypeOK, MemTyped, RetOnFlag, Goto, Op

LEMMA CallOnFlagTyped == ASSUME TypeOK, CallOnFlag PROVE TypeOK'
BY NextTyped, FieldsTyped, Retyped, PushWordTyped
DEF TypeOK, MemTyped, CallOnFlag, Goto, Op

LEMMA RstTyped == ASSUME TypeOK, Rst PROVE TypeOK'
BY NextTyped, FieldsTyped, Retyped, PushWordTyped, RestartTyped
DEF TypeOK, MemTyped, Rst, Goto

LEMMA PushTyped == ASSUME TypeOK, Push PROVE TypeOK'
BY NextTyped, FieldsTyped, Retyped, PushWordTyped, PairValueTyped, Uint16Typed
DEF TypeOK, MemTyped, Push, Op, Reg, Status

LEMMA PopTyped == ASSUME TypeOK, Pop PROVE TypeOK'
<1>1. Read(sp) \in Byte /\ Read(Plus(sp, 1)) \in Byte
  BY ReadTyped
<1>2. sp' \in Word
  BY PlusTyped DEF TypeOK, Pop
<1>3. reg' \in [Reg -> Byte] /\ status' \in Status
  <2>1. CASE Pair = 3
    BY <1>1, <2>1, PswTyped DEF TypeOK, Pop
  <2>2. CASE Pair # 3
    BY <1>1, <2>2, FieldsTyped, Uint16Typed, WithPairTyped DEF TypeOK, Pop
  <2> QED BY <2>1, <2>2
<1> QED BY <1>2, <1>3, NextTyped, Retyped DEF TypeOK, MemTyped, Pop, Op

LEMMA XthlTyped == ASSUME TypeOK, Xthl PROVE TypeOK'
<1>1. MemTyped(mem')
  BY HlTyped, WriteTyped DEF TypeOK, Xthl
<1>2. reg' \in [Reg -> Byte]
  BY ReadTyped DEF TypeOK, Xthl
<1> QED BY <1>1, <1>2, NextTyped, Retyped DEF TypeOK, Xthl, Op

LEMMA PchlTyped == ASSUME TypeOK, Pchl PROVE TypeOK'
BY NextTyped, FieldsTyped, Retyped, HlTyped
DEF TypeOK, MemTyped, Pchl, Goto

LEMMA XchgTyped == ASSUME TypeOK, Xchg PROVE TypeOK'
BY NextTyped, FieldsTyped, Retyped
DEF TypeOK, MemTyped, Xchg, Op, Reg

LEMMA SphlTyped == ASSUME TypeOK, Sphl PROVE TypeOK'
BY NextTyped, FieldsTyped, Retyped, HlTyped
DEF TypeOK, MemTyped, Sphl, Op

LEMMA DiEiTyped == ASSUME TypeOK, DiEi PROVE TypeOK'
BY NextTyped, FieldsTyped, Retyped
DEF TypeOK, MemTyped, DiEi, Op

LEMMA OutTyped == ASSUME TypeOK, Out PROVE TypeOK'
BY NextTyped, FieldsTyped, Retyped
DEF TypeOK, MemTyped, Out, Op

LEMMA InTyped == ASSUME TypeOK, In PROVE TypeOK'
<1>1. PICK byte \in Input : reg' = [reg EXCEPT !["a"] = byte]
  BY DEF In
<1>2. reg' \in [Reg -> Byte]
  BY <1>1, CpuAssumption DEF TypeOK
<1> QED BY <1>2, NextTyped, Retyped DEF TypeOK, MemTyped, In, Op

LEMMA NotImplementedTyped == ASSUME TypeOK, NotImplemented PROVE TypeOK'
BY NextTyped, FieldsTyped, Retyped
DEF TypeOK, MemTyped, NotImplemented, Op

LEMMA InstructionTyped == ASSUME TypeOK, Instruction PROVE TypeOK'
BY NopTyped, LxiTyped, StaxTyped, LdaxTyped, InxPairTyped, DcxPairTyped, DadPairTyped,
   InrDcrTyped, MviTyped, RlcATyped, RrcATyped, RalATyped, RarATyped, DaaATyped,
   CmaATyped, StcTyped, CmcTyped, ShldTyped, LhldTyped, StaTyped, LdaTyped, MovTyped,
   HltTyped, ArithmeticRegisterTyped, ArithmeticImmediateTyped, JmpOnFlagTyped,
   RetOnFlagTyped, CallOnFlagTyped, RstTyped, PushTyped, PopTyped, XthlTyped,
   PchlTyped, XchgTyped, SphlTyped, DiEiTyped, OutTyped, InTyped, NotImplementedTyped
DEF Instruction

LEMMA AcknowledgeTyped == ASSUME TypeOK, Acknowledge PROVE TypeOK'
<1>1. irq \in 0 .. 7
  BY DEF TypeOK, Acknowledge, Interrupted
<1>2. sp' \in Word /\ MemTyped(mem')
  BY PushWordTyped DEF TypeOK, Acknowledge
<1> QED BY <1>1, <1>2, RestartTyped, Retyped DEF TypeOK, Acknowledge

-----------------------------------------------------------------------------
(* A cpu in a machine: it is reset to any address with any program in      *)
(* memory, interrupted between any two instructions, and loaded with any   *)
(* state a cpu may have been saved in, the memory with it.                 *)

PowerOn == (\E addr \in Word : Reset(addr)) /\ irq = None /\ MemTyped(mem)

SavedState == [reg : [Reg -> Byte], status : Status, pc : Word, sp : Word]

Step ==
  \/ Execute
  \/ \E n \in 0 .. 7 : Interrupt(n)
  \/ \E state \in SavedState : Load(state) /\ MemTyped(mem')

CpuSpec == PowerOn /\ [][Step]_vars

\* What Save writes is a state that Load may be given.
LEMMA SavesState == ASSUME TypeOK PROVE State \in SavedState
BY DEF TypeOK, State, SavedState

\* Whatever program runs, whenever it is interrupted and whatever state is
\* loaded, registers stay bytes, pc and sp words, and the three bits of the
\* status register that are not flags constant (Execute, ProcessResult, POP PSW).
THEOREM CpuTypeCorrect == CpuSpec => []TypeOK
<1>1. PowerOn => TypeOK
  <2> SUFFICES ASSUME PowerOn PROVE TypeOK
    OBVIOUS
  <2>1. 0 \in Byte /\ 0 \in Word
    BY WordIs DEF Byte
  <2>2. 2 \in Status
    BY Powers DEF Status, Canonical, Test, Bit, Byte
  <2> QED BY <2>1, <2>2 DEF PowerOn, Reset, TypeOK, MemTyped
<1>2. TypeOK /\ [Step]_vars => TypeOK'
  <2> SUFFICES ASSUME TypeOK, [Step]_vars PROVE TypeOK'
    OBVIOUS
  <2>1. CASE Execute
    BY <2>1, InstructionTyped, AcknowledgeTyped DEF Execute
  <2>2. CASE \E n \in 0 .. 7 : Interrupt(n)
    BY <2>2 DEF Interrupt, TypeOK
  <2>3. CASE \E state \in SavedState : Load(state) /\ MemTyped(mem')
    BY <2>3 DEF Load, SavedState, TypeOK, MemTyped
  <2>4. CASE UNCHANGED vars
    BY <2>4 DEF vars, TypeOK
  <2> QED BY <2>1, <2>2, <2>3, <2>4 DEF Step
<1> QED BY <1>1, <1>2, PTL DEF CpuSpec
=============================================================================
