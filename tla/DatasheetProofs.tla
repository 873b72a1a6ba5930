--------------------------- MODULE DatasheetProofs ---------------------------
(***************************************************************************)
(* Cpu8080 keeps to the data sheet in every state: whatever the registers, *)
(* the flags and the memory hold, and whatever program runs.               *)
(***************************************************************************)
EXTENDS CpuProofs, Datasheet

Timely == Follows /\ Timed

-----------------------------------------------------------------------------
(* Length, target and duration, handler by handler.                        *)

\* The three bits of the opcode that Condition decodes pick the row of the
\* data sheet that Holds reads.
LEMMA ConditionHolds ==
  ASSUME Opcode \in Byte, Opcode >= 192
  PROVE  Holds(Opcode) <=> Condition
<1>0. CASE Dst = 0
  <2>1. Opcode - (Opcode % 8) = 192
    BY <1>0 DEF Dst, Byte
  <2> QED BY <1>0, <2>1 DEF Holds, Condition, Test
<1>1. CASE Dst = 1
  <2>1. Opcode - (Opcode % 8) = 200
    BY <1>1 DEF Dst, Byte
  <2> QED BY <1>1, <2>1 DEF Holds, Condition, Test
<1>2. CASE Dst = 2
  <2>1. Opcode - (Opcode % 8) = 208
    BY <1>2 DEF Dst, Byte
  <2> QED BY <1>2, <2>1 DEF Holds, Condition, Test
<1>3. CASE Dst = 3
  <2>1. Opcode - (Opcode % 8) = 216
    BY <1>3 DEF Dst, Byte
  <2> QED BY <1>3, <2>1 DEF Holds, Condition, Test
<1>4. CASE Dst = 4
  <2>1. Opcode - (Opcode % 8) = 224
    BY <1>4 DEF Dst, Byte
  <2> QED BY <1>4, <2>1 DEF Holds, Condition, Test
<1>5. CASE Dst = 5
  <2>1. Opcode - (Opcode % 8) = 232
    BY <1>5 DEF Dst, Byte
  <2> QED BY <1>5, <2>1 DEF Holds, Condition, Test
<1>6. CASE Dst = 6
  <2>1. Opcode - (Opcode % 8) = 240
    BY <1>6 DEF Dst, Byte
  <2> QED BY <1>6, <2>1 DEF Holds, Condition, Test
<1>7. CASE Dst = 7
  <2>1. Opcode - (Opcode % 8) = 248
    BY <1>7 DEF Dst, Byte
  <2> QED BY <1>7, <2>1 DEF Holds, Condition, Test
<1>8. Dst = 0 \/ Dst = 1 \/ Dst = 2 \/ Dst = 3 \/ Dst = 4 \/ Dst = 5 \/ Dst = 6 \/ Dst = 7
  BY DEF Dst, Byte
<1> QED BY <1>0, <1>1, <1>2, <1>3, <1>4, <1>5, <1>6, <1>7, <1>8

LEMMA NopTimely == ASSUME Opcode \in Byte, Nop PROVE Timely
BY DEF Timely, Follows, Timed, MovToItself, NopDuration, Duration, Nop, Op, Length,
       Conditionals, Restarts, Jumps, Undefined, Periods

LEMMA LxiTimely == ASSUME Opcode \in Byte, Lxi PROVE Timely
BY DEF Timely, Follows, Timed, MovToItself, NopDuration, Duration, Lxi, Op, Length,
       Conditionals, Restarts, Jumps, Undefined, Periods

LEMMA StaxTimely == ASSUME Opcode \in Byte, Stax PROVE Timely
BY DEF Timely, Follows, Timed, MovToItself, NopDuration, Duration, Stax, Op, Length,
       Conditionals, Restarts, Jumps, Undefined, Periods

LEMMA LdaxTimely == ASSUME Opcode \in Byte, Ldax PROVE Timely
BY DEF Timely, Follows, Timed, MovToItself, NopDuration, Duration, Ldax, Op, Length,
       Conditionals, Restarts, Jumps, Undefined, Periods

LEMMA InxPairTimely == ASSUME Opcode \in Byte, InxPair PROVE Timely
BY DEF Timely, Follows, Timed, MovToItself, NopDuration, Duration, InxPair, Op,
       Length, Conditionals, Restarts, Jumps, Undefined, Periods

LEMMA DcxPairTimely == ASSUME Opcode \in Byte, DcxPair PROVE Timely
BY DEF Timely, Follows, Timed, MovToItself, NopDuration, Duration, DcxPair, Op,
       Length, Conditionals, Restarts, Jumps, Undefined, Periods

LEMMA MviTimely == ASSUME Opcode \in Byte, Mvi PROVE Timely
BY DEF Timely, Follows, Timed, MovToItself, NopDuration, Duration, Mvi, Op, Length,
       Conditionals, Restarts, Jumps, Undefined, Periods, Dst, Memory, Byte

LEMMA ShldTimely == ASSUME Opcode \in Byte, Shld PROVE Timely
BY DEF Timely, Follows, Timed, MovToItself, NopDuration, Duration, Shld, Op, Length,
       Conditionals, Restarts, Jumps, Undefined, Periods

LEMMA LhldTimely == ASSUME Opcode \in Byte, Lhld PROVE Timely
BY DEF Timely, Follows, Timed, MovToItself, NopDuration, Duration, Lhld, Op, Length,
       Conditionals, Restarts, Jumps, Undefined, Periods

LEMMA StaTimely == ASSUME Opcode \in Byte, Sta PROVE Timely
BY DEF Timely, Follows, Timed, MovToItself, NopDuration, Duration, Sta, Op, Length,
       Conditionals, Restarts, Jumps, Undefined, Periods

LEMMA LdaTimely == ASSUME Opcode \in Byte, Lda PROVE Timely
BY DEF Timely, Follows, Timed, MovToItself, NopDuration, Duration, Lda, Op, Length,
       Conditionals, Restarts, Jumps, Undefined, Periods

LEMMA MovTimely == ASSUME Opcode \in Byte, Mov PROVE Timely
BY DEF Timely, Follows, Timed, MovToItself, NopDuration, Duration, Mov, Op, Length,
       Conditionals, Restarts, Jumps, Undefined, Periods, Dst, Src, Memory, Byte

LEMMA HltTimely == ASSUME Opcode \in Byte, Hlt PROVE Timely
BY DEF Timely, Follows, Timed, MovToItself, NopDuration, Duration, Hlt, Op, Length,
       Conditionals, Restarts, Jumps, Undefined, Periods

LEMMA JmpOnFlagTimely == ASSUME Opcode \in Byte, JmpOnFlag PROVE Timely
BY ConditionHolds
DEF JmpOnFlag, Timely, Follows, Timed, MovToItself, NopDuration, Duration, Length,
    Conditionals, Restarts, Jumps, Undefined, Periods, Target, Goto, Op, Conditional,
    Byte

LEMMA RetOnFlagTimely == ASSUME Opcode \in Byte, RetOnFlag PROVE Timely
BY ConditionHolds
DEF RetOnFlag, Timely, Follows, Timed, MovToItself, NopDuration, Duration, Length,
    Conditionals, Restarts, Jumps, Undefined, Periods, Target, Goto, Op, Conditional,
    Byte

LEMMA CallOnFlagTimely == ASSUME Opcode \in Byte, CallOnFlag PROVE Timely
BY ConditionHolds
DEF CallOnFlag, Timely, Follows, Timed, MovToItself, NopDuration, Duration, Length,
    Conditionals, Restarts, Jumps, Undefined, Periods, Target, Goto, Op, Conditional,
    Byte

LEMMA RstTimely == ASSUME Opcode \in Byte, Rst PROVE Timely
BY DEF Timely, Follows, Timed, MovToItself, NopDuration, Duration, Rst, Goto,
       Conditional, Length, Conditionals, Restarts, Jumps, Undefined, Periods, Dst

LEMMA PushTimely == ASSUME Opcode \in Byte, Push PROVE Timely
BY DEF Timely, Follows, Timed, MovToItself, NopDuration, Duration, Push, Op, Length,
       Conditionals, Restarts, Jumps, Undefined, Periods

LEMMA XthlTimely == ASSUME Opcode \in Byte, Xthl PROVE Timely
BY DEF Timely, Follows, Timed, MovToItself, NopDuration, Duration, Xthl, Op, Length,
       Conditionals, Restarts, Jumps, Undefined, Periods

LEMMA PchlTimely == ASSUME Opcode \in Byte, Pchl PROVE Timely
BY DEF Timely, Follows, Timed, MovToItself, NopDuration, Duration, Pchl, Goto,
       Conditional, Length, Conditionals, Restarts, Jumps, Undefined, Periods

LEMMA XchgTimely == ASSUME Opcode \in Byte, Xchg PROVE Timely
BY DEF Timely, Follows, Timed, MovToItself, NopDuration, Duration, Xchg, Op, Length,
       Conditionals, Restarts, Jumps, Undefined, Periods

LEMMA SphlTimely == ASSUME Opcode \in Byte, Sphl PROVE Timely
BY DEF Timely, Follows, Timed, MovToItself, NopDuration, Duration, Sphl, Op, Length,
       Conditionals, Restarts, Jumps, Undefined, Periods

LEMMA DiEiTimely == ASSUME Opcode \in Byte, DiEi PROVE Timely
BY DEF Timely, Follows, Timed, MovToItself, NopDuration, Duration, DiEi, Op, Length,
       Conditionals, Restarts, Jumps, Undefined, Periods

LEMMA OutTimely == ASSUME Opcode \in Byte, Out PROVE Timely
BY DEF Timely, Follows, Timed, MovToItself, NopDuration, Duration, Out, Op, Length,
       Conditionals, Restarts, Jumps, Undefined, Periods

LEMMA InTimely == ASSUME Opcode \in Byte, In PROVE Timely
BY DEF Timely, Follows, Timed, MovToItself, NopDuration, Duration, In, Op, Length,
       Conditionals, Restarts, Jumps, Undefined, Periods

LEMMA NotImplementedTimely == ASSUME Opcode \in Byte, NotImplemented PROVE Timely
BY DEF Timely, Follows, Timed, MovToItself, NopDuration, Duration, NotImplemented, Op,
       Length, Conditionals, Restarts, Jumps, Undefined, Periods

LEMMA DadPairTimely == ASSUME Opcode \in Byte, DadPair PROVE Timely
BY DEF Timely, Follows, Timed, MovToItself, NopDuration, Duration, DadPair, Op,
       Length, Conditionals, Restarts, Jumps, Undefined, Periods

LEMMA InrDcrTimely == ASSUME Opcode \in Byte, InrDcr PROVE Timely
BY DEF Timely, Follows, Timed, MovToItself, NopDuration, Duration, InrDcr, Op, Length,
       Conditionals, Restarts, Jumps, Undefined, Periods, Dst, Src, Memory, Byte

LEMMA RlcATimely == ASSUME Opcode \in Byte, RlcA PROVE Timely
BY DEF Timely, Follows, Timed, MovToItself, NopDuration, Duration, RlcA,
       OnAccumulator, Op, Length, Conditionals, Restarts, Jumps, Undefined, Periods

LEMMA RrcATimely == ASSUME Opcode \in Byte, RrcA PROVE Timely
BY DEF Timely, Follows, Timed, MovToItself, NopDuration, Duration, RrcA,
       OnAccumulator, Op, Length, Conditionals, Restarts, Jumps, Undefined, Periods

LEMMA RalATimely == ASSUME Opcode \in Byte, RalA PROVE Timely
BY DEF Timely, Follows, Timed, MovToItself, NopDuration, Duration, RalA,
       OnAccumulator, Op, Length, Conditionals, Restarts, Jumps, Undefined, Periods

LEMMA RarATimely == ASSUME Opcode \in Byte, RarA PROVE Timely
BY DEF Timely, Follows, Timed, MovToItself, NopDuration, Duration, RarA,
       OnAccumulator, Op, Length, Conditionals, Restarts, Jumps, Undefined, Periods

LEMMA DaaATimely == ASSUME Opcode \in Byte, DaaA PROVE Timely
BY DEF Timely, Follows, Timed, MovToItself, NopDuration, Duration, DaaA,
       OnAccumulator, Op, Length, Conditionals, Restarts, Jumps, Undefined, Periods

LEMMA CmaATimely == ASSUME Opcode \in Byte, CmaA PROVE Timely
BY DEF Timely, Follows, Timed, MovToItself, NopDuration, Duration, CmaA,
       OnAccumulator, Op, Length, Conditionals, Restarts, Jumps, Undefined, Periods

LEMMA StcTimely == ASSUME Opcode \in Byte, Stc PROVE Timely
BY DEF Timely, Follows, Timed, MovToItself, NopDuration, Duration, Stc, OnAccumulator,
       Op, Length, Conditionals, Restarts, Jumps, Undefined, Periods

LEMMA CmcTimely == ASSUME Opcode \in Byte, Cmc PROVE Timely
BY DEF Timely, Follows, Timed, MovToItself, NopDuration, Duration, Cmc, OnAccumulator,
       Op, Length, Conditionals, Restarts, Jumps, Undefined, Periods

LEMMA ArithmeticRegisterTimely == ASSUME Opcode \in Byte, ArithmeticRegister PROVE Timely
BY DEF Timely, Follows, Timed, MovToItself, NopDuration, Duration, ArithmeticRegister,
       Op, Length, Conditionals, Restarts, Jumps, Undefined, Periods, Src, Memory,
       Byte

LEMMA ArithmeticImmediateTimely == ASSUME Opcode \in Byte, ArithmeticImmediate PROVE Timely
BY DEF Timely, Follows, Timed, MovToItself, NopDuration, Duration,
       ArithmeticImmediate, Op, Length, Conditionals, Restarts, Jumps, Undefined,
       Periods

LEMMA PopTimely == ASSUME Opcode \in Byte, Pop PROVE Timely
BY DEF Timely, Follows, Timed, MovToItself, NopDuration, Duration, Pop, Op, Length,
       Conditionals, Restarts, Jumps, Undefined, Periods

LEMMA InstructionTimely == ASSUME Opcode \in Byte, Instruction PROVE Timely
BY NopTimely, LxiTimely, StaxTimely, LdaxTimely, InxPairTimely, DcxPairTimely,
   MviTimely, ShldTimely, LhldTimely, StaTimely, LdaTimely, MovTimely, HltTimely,
   JmpOnFlagTimely, RetOnFlagTimely, CallOnFlagTimely, RstTimely, PushTimely,
   XthlTimely, PchlTimely, XchgTimely, SphlTimely, DiEiTimely, OutTimely, InTimely,
   NotImplementedTimely, DadPairTimely, InrDcrTimely, RlcATimely, RrcATimely,
   RalATimely, RarATimely, DaaATimely, CmaATimely, StcTimely, CmcTimely,
   ArithmeticRegisterTimely, ArithmeticImmediateTimely, PopTimely
DEF Instruction

LEMMA AcknowledgeTimely == ASSUME Acknowledge PROVE Timely
BY DEF Acknowledge, Timely, Follows, Timed, Duration

-----------------------------------------------------------------------------
(* Flags, operation by operation.                                          *)

\* An operation on the carry alone.
LEMMA CarryPreserves ==
  ASSUME TypeOK, NEW b, status' = Put(status, CarryFlag, b),
         CarryFlag \in MayChange(Opcode), ~Interrupted
  PROVE  Preserves
BY PutKeeps DEF TypeOK, Preserves, Flag

LEMMA DadPairPreserves == ASSUME TypeOK, DadPair PROVE Preserves
BY CarryPreserves DEF DadPair, Dad, Op, MayChange

LEMMA RlcAPreserves == ASSUME TypeOK, RlcA PROVE Preserves
BY CarryPreserves DEF RlcA, OnAccumulator, Rlc, Rotated, Op, MayChange

LEMMA RrcAPreserves == ASSUME TypeOK, RrcA PROVE Preserves
BY CarryPreserves DEF RrcA, OnAccumulator, Rrc, Rotated, Op, MayChange

LEMMA RalAPreserves == ASSUME TypeOK, RalA PROVE Preserves
BY CarryPreserves DEF RalA, OnAccumulator, Ral, Rotated, Op, MayChange

LEMMA RarAPreserves == ASSUME TypeOK, RarA PROVE Preserves
BY CarryPreserves DEF RarA, OnAccumulator, Rar, Rotated, Op, MayChange

LEMMA StcPreserves == ASSUME TypeOK, Stc PROVE Preserves
<1> DEFINE b == TRUE
<1>1. status' = Put(status, CarryFlag, b)
  BY DEF Stc, OnAccumulator, Rotated
<1>2. CarryFlag \in MayChange(Opcode) /\ ~Interrupted
  BY DEF Stc, OnAccumulator, Op, MayChange
<1> HIDE DEF b
<1> QED BY <1>1, <1>2, CarryPreserves

LEMMA CmcPreserves == ASSUME TypeOK, Cmc PROVE Preserves
BY CarryPreserves DEF Cmc, OnAccumulator, Rotated, Op, MayChange

LEMMA DaaAPreserves == ASSUME DaaA PROVE Preserves
BY DEF DaaA, OnAccumulator, Op, MayChange, Preserves

LEMMA ArithmeticRegisterPreserves == ASSUME ArithmeticRegister PROVE Preserves
BY DEF ArithmeticRegister, Op, MayChange, Preserves

LEMMA ArithmeticImmediatePreserves == ASSUME ArithmeticImmediate PROVE Preserves
BY DEF ArithmeticImmediate, Op, MayChange, Preserves

LEMMA PopPreserves == ASSUME Pop PROVE Preserves
BY DEF Pop, Pair, Op, MayChange, Preserves

\* INR and DCR do not touch the carry.
LEMMA IncrementsKeep ==
  ASSUME NEW st \in Status, NEW r
  PROVE  /\ Test(Inr(st, r).status, CarryFlag) = Test(st, CarryFlag)
         /\ Test(Dcr(st, r).status, CarryFlag) = Test(st, CarryFlag)
<1>1. ASSUME NEW rhs, NEW half
      PROVE  Test(ResultFlags(Put(st, AuxCarryFlag, half), rhs), CarryFlag)
             = Test(st, CarryFlag)
  <2>1. Put(st, AuxCarryFlag, half) \in Status
    BY PutTyped DEF Flag
  <2>2. Test(Put(st, AuxCarryFlag, half), CarryFlag) = Test(st, CarryFlag)
    BY PutKeeps DEF Flag, AuxCarryFlag, CarryFlag
  <2> QED BY <2>1, <2>2, ResultFlagsKeep
<1> QED BY <1>1, Zenon DEF Inr, Dcr, Add

LEMMA InrDcrPreserves == ASSUME TypeOK, InrDcr PROVE Preserves
<1>1. Test(status', CarryFlag) = Test(status, CarryFlag)
  BY IncrementsKeep DEF TypeOK, InrDcr
<1>2. ~Interrupted /\ MayChange(Opcode) = Flag \ {CarryFlag}
  BY DEF InrDcr, Op, MayChange
<1> QED BY <1>1, <1>2 DEF Preserves

\* The handlers that leave the status register alone.
LEMMA OthersPreserve ==
  ASSUME status' = status
  PROVE  Preserves
BY DEF Preserves

LEMMA InstructionPreserves == ASSUME TypeOK, Instruction PROVE Preserves
<1>1. ASSUME Nop \/ Lxi \/ Stax \/ Ldax \/ InxPair \/ DcxPair \/ Mvi \/ Shld
      PROVE  Preserves
  BY <1>1, OthersPreserve
  DEF Nop, Lxi, Stax, Ldax, InxPair, DcxPair, Mvi, Shld
<1>2. ASSUME Lhld \/ Sta \/ Lda \/ Mov \/ Hlt \/ JmpOnFlag \/ RetOnFlag \/ CallOnFlag
      PROVE  Preserves
  BY <1>2, OthersPreserve
  DEF Lhld, Sta, Lda, Mov, Hlt, JmpOnFlag, RetOnFlag, CallOnFlag
<1>3. ASSUME Rst \/ Push \/ Xthl \/ Pchl \/ Xchg \/ Sphl \/ DiEi \/ Out
      PROVE  Preserves
  BY <1>3, OthersPreserve
  DEF Rst, Push, Xthl, Pchl, Xchg, Sphl, DiEi, Out
<1>4. ASSUME In \/ NotImplemented \/ CmaA
      PROVE  Preserves
  BY <1>4, OthersPreserve
  DEF In, NotImplemented, CmaA, OnAccumulator
<1> QED
  BY <1>1, <1>2, <1>3, <1>4, DadPairPreserves, RlcAPreserves, RrcAPreserves,
     RalAPreserves, RarAPreserves, StcPreserves, CmcPreserves, DaaAPreserves,
     ArithmeticRegisterPreserves, ArithmeticImmediatePreserves, PopPreserves,
     InrDcrPreserves
  DEF Instruction

LEMMA AcknowledgePreserves == ASSUME Acknowledge PROVE Preserves
BY OthersPreserve DEF Acknowledge

-----------------------------------------------------------------------------
(* The stack.                                                              *)

\* Wrapping down by two and up again.
LEMMA StackSteps ==
  ASSUME NEW at \in Word
  PROVE  /\ Plus(at, 65534) \in Word /\ Plus(at, 1) \in Word /\ Plus(at, 1) # at
<1>1. at \in Int /\ 0 <= at /\ at <= 65535
  BY WordIs
<1>2. at + 65534 \in Int
  BY <1>1
<1>3. Plus(at, 1) # at
  BY <1>1 DEF Plus
<1> QED BY <1>1, <1>2, <1>3, Wrapped, PlusTyped DEF Plus

\* A word is put together of its bytes.
LEMMA WordOfBytes == ASSUME NEW word \in Word PROVE Uint16(Hi(word), Low(word)) = word
<1>1. word \in Int
  BY WordIs
<1> QED BY <1>1 DEF Uint16, Hi, Low

\* What is read after writing a byte.
LEMMA WrittenIs ==
  ASSUME NEW memory, NEW addr, NEW byte
  PROVE  /\ addr \in DOMAIN Written(memory, addr, byte)
         /\ Written(memory, addr, byte)[addr] = byte
         /\ \A a \in DOMAIN memory : a \in DOMAIN Written(memory, addr, byte)
         /\ \A a \in DOMAIN memory \ {addr} : Written(memory, addr, byte)[a] = memory[a]
BY DEF Written

\* A word that is pushed lies on top of the stack, and nothing else is written.
LEMMA PushLeaves ==
  ASSUME TypeOK, NEW word \in Word, PushWord(word)
  PROVE  /\ sp' = Plus(sp, 65534) /\ Top' = word
         /\ \A addr \in DOMAIN mem \ {sp', Plus(sp', 1)} : mem'[addr] = mem[addr]
<1> DEFINE at == Plus(sp, 65534)
           next == Plus(at, 1)
           first == Written(mem, at, Low(word))
<1>1. at \in Word /\ next # at
  BY StackSteps DEF TypeOK
<1>2. sp' = at /\ Plus(sp', 1) = next /\ mem' = Written(first, next, Hi(word))
  BY DEF PushWord, Write16
<1> HIDE DEF at, next
<1>3. /\ at \in DOMAIN first /\ first[at] = Low(word)
      /\ \A a \in DOMAIN mem : a \in DOMAIN first
      /\ \A a \in DOMAIN mem \ {at} : first[a] = mem[a]
  BY WrittenIs
<1> HIDE DEF first
<1>4. /\ next \in DOMAIN mem' /\ mem'[next] = Hi(word)
      /\ \A a \in DOMAIN first : a \in DOMAIN mem'
      /\ \A a \in DOMAIN first \ {next} : mem'[a] = first[a]
  BY <1>2, WrittenIs
<1>5. at \in DOMAIN mem' /\ mem'[at] = Low(word)
  BY <1>1, <1>3, <1>4
<1>6. \A addr \in DOMAIN mem \ {at, next} : mem'[addr] = mem[addr]
  BY <1>3, <1>4
<1>7. Read(Plus(sp, 1))' = Hi(word) /\ Read(sp)' = Low(word)
  BY <1>2, <1>4, <1>5 DEF Read
<1>8. Top' = word
  BY <1>7, WordOfBytes DEF Top
<1> QED BY <1>2, <1>6, <1>8 DEF at

\* The opcodes below those of calls, returns and stack instructions.
LEMMA BelowStack ==
  ASSUME Opcode \in 0 .. 191, ~Interrupted, Opcode \in SetsSp \/ sp' = sp
  PROVE  Stacks
BY DEF Stacks, Calling, Returning, Conditionals, Restarts, Pushes, Pops

\* The opcodes among them that are none of these.
LEMMA BesideStack ==
  ASSUME Opcode \in {192 + 8 * d + low : d \in 0 .. 7, low \in {2, 6}}
                    \cup {195, 203, 211, 217, 219, 221, 227}
                    \cup {233, 235, 237, 243, 249, 251, 253},
         ~Interrupted, Opcode = 249 \/ sp' = sp
  PROVE  Stacks
BY DEF Stacks, Calling, Returning, Conditionals, Restarts, Pushes, Pops, SetsSp

\* The address of the interrupted instruction.
LEMMA AcknowledgeStacks == ASSUME TypeOK, Acknowledge PROVE Stacks
<1>1. PushWord(pc) /\ pc \in Word /\ Interrupted
  BY DEF Acknowledge, TypeOK
<1> QED BY <1>1, PushLeaves DEF Stacks, Leaves, Left

\* The address behind the restart.
LEMMA RstStacks == ASSUME TypeOK, Rst PROVE Stacks
<1>1. PushWord(Plus(pc, 1)) /\ ~Interrupted /\ Opcode \in Restarts
  BY DEF Rst, Goto, Conditional, Restarts
<1>2. Plus(pc, 1) \in Word
  BY PlusTyped DEF TypeOK
<1> QED BY <1>1, <1>2, PushLeaves DEF Stacks, Leaves, Left

\* The address behind the call, if it is taken.
LEMMA CallOnFlagStacks == ASSUME TypeOK, CallOnFlag PROVE Stacks
<1>1. Opcode \in Byte /\ Opcode \in {205} \cup {196 + 8 * i : i \in 0 .. 7} /\ ~Interrupted
  BY FieldsTyped DEF CallOnFlag, Goto, Op, Conditional
<1>2. /\ Opcode \notin Restarts \cup Pushes \cup Pops \cup {201} /\ Opcode % 8 # 0
      /\ Calling <=> Opcode = 205 \/ Condition
  BY <1>1, ConditionHolds
  DEF Restarts, Pushes, Pops, Calling, Conditionals, Byte
<1>3. CASE Opcode = 205 \/ Condition
  <2>1. PushWord(Plus(pc, 3)) /\ Plus(pc, 3) \in Word
    BY <1>3, PlusTyped DEF CallOnFlag, TypeOK
  <2> QED BY <1>1, <1>2, <1>3, <2>1, PushLeaves DEF Stacks, Leaves, Left
<1>4. CASE ~(Opcode = 205 \/ Condition)
  BY <1>1, <1>2, <1>4 DEF CallOnFlag, Stacks, Returning
<1> QED BY <1>3, <1>4

\* The return address, if the return is taken.
LEMMA RetOnFlagStacks == ASSUME TypeOK, RetOnFlag PROVE Stacks
<1>1. Opcode \in Byte /\ Opcode \in {201} \cup {192 + 8 * i : i \in 0 .. 7} /\ ~Interrupted
  BY FieldsTyped DEF RetOnFlag, Goto, Op, Conditional
<1>2. /\ Opcode \notin Restarts \cup Pushes \cup Pops \cup {205} /\ Opcode % 8 # 4
      /\ Returning <=> Opcode = 201 \/ Condition
  BY <1>1, ConditionHolds
  DEF Restarts, Pushes, Pops, Returning, Conditionals, Byte
<1>3. CASE Opcode = 201 \/ Condition
  <2>1. pc' = Top /\ sp' = Plus(sp, 2) /\ mem' = mem
    BY <1>3 DEF RetOnFlag, Goto, Top
  <2> QED BY <1>1, <1>2, <1>3, <2>1 DEF Stacks, Takes, Calling
<1>4. CASE ~(Opcode = 201 \/ Condition)
  BY <1>1, <1>2, <1>4 DEF RetOnFlag, Stacks, Calling
<1> QED BY <1>3, <1>4

\* The pair that the opcode names.
LEMMA PushStacks == ASSUME TypeOK, Push PROVE Stacks
<1> DEFINE word == IF Pair = 3 THEN Uint16(reg["a"], status) ELSE PairValue(Pair)
<1>1. Opcode \in Pushes /\ ~Interrupted /\ PushWord(word)
  BY DEF Push, Op, Pushes
<1>2. word = Stacked(Opcode, reg, status)
  BY <1>1 DEF Pushes, Pair, PairValue, Stacked, High, Lower
<1>3. word \in Word
  <2>1. \A r \in Reg : reg[r] \in Byte
    BY DEF TypeOK
  <2>2. status \in Byte
    BY DEF TypeOK, Status
  <2> QED BY <1>2, <2>1, <2>2, Uint16Typed DEF Stacked, Reg
<1>4. Opcode \notin Restarts /\ ~Calling
  BY <1>1 DEF Pushes, Restarts, Calling, Conditionals
<1> HIDE DEF word
<1> QED BY <1>1, <1>2, <1>3, <1>4, PushLeaves DEF Stacks, Leaves, Left

\* A register that was pushed comes back as it was.
LEMMA PswKeeps == ASSUME NEW byte \in Byte, Canonical(byte) PROVE Psw(byte) = byte
<1> DEFINE clear == FALSE
           set == TRUE
           first == Put(byte, 5, clear)
           second == Put(first, 3, clear)
<1>1. byte \in Int /\ Bit(byte, 5) = 0 /\ Bit(byte, 3) = 0 /\ Bit(byte, 1) = 1
  <2>1. Bit(byte, 5) \in {0, 1} /\ Bit(byte, 3) \in {0, 1}
    BY BitTyped
  <2> QED BY <2>1 DEF Canonical, Test, Byte
<1>2. Num(clear) = 0 /\ Num(set) = 1
  BY DEF Num
<1>3. 2^5 \in Int /\ 2^3 \in Int /\ 2^1 \in Int
  BY Powers
<1> HIDE DEF clear, set
<1>4. first = byte
  BY <1>1, <1>2, <1>3 DEF Put
<1>5. second = byte
  BY <1>1, <1>2, <1>3, <1>4 DEF Put
<1>6. Psw(byte) = Put(second, 1, set)
  BY Zenon DEF Psw, clear, set
<1> HIDE DEF first, second
<1> QED BY <1>1, <1>2, <1>3, <1>5, <1>6 DEF Put

\* The pair, and of PSW what a push may have left.
LEMMA PopStacks == ASSUME TypeOK, Pop PROVE Stacks
<1> DEFINE low == Read(sp)
           hi == Read(Plus(sp, 1))
<1>1. Opcode \in Pops /\ ~Interrupted /\ sp' = Plus(sp, 2) /\ mem' = mem
  BY DEF Pop, Op, Pops
<1>2. Opcode \notin Restarts \cup Pushes /\ ~Calling /\ ~Returning
  BY <1>1 DEF Pops, Pushes, Restarts, Calling, Returning, Conditionals
<1>3. low \in Byte /\ hi \in Byte /\ Top = Uint16(hi, low) /\ reg \in [Reg -> Byte]
  BY ReadTyped DEF Top, TypeOK
<1> HIDE DEF low, hi
<1>4. Hi(Top) = hi /\ Low(Top) = low
  <2>1. Top = 256 * hi + low
    BY <1>3 DEF Uint16
  <2> QED BY <1>3, <2>1 DEF Hi, Low, Byte
<1>5. CASE Opcode = 241
  <2>1. Pair = 3
    BY <1>5 DEF Pair
  <2>2. reg' = [reg EXCEPT !["a"] = hi] /\ status' = Psw(low)
    BY <2>1 DEF Pop, low, hi
  <2>3. reg'["a"] = hi
    BY <1>3, <2>2 DEF Reg
  <2>4. ASSUME Canonical(Low(Top)) PROVE Stacked(Opcode, reg', status') = Top
    <3>1. status' = low
      BY <1>3, <1>4, <2>2, <2>4, PswKeeps
    <3> QED BY <1>3, <1>5, <2>3, <3>1 DEF Stacked
  <2> QED BY <1>1, <1>2, <1>5, <2>4 DEF Stacks, Takes
<1>6. CASE Opcode # 241
  <2>1. Opcode \in {193, 209, 225} /\ Pair \in {0, 1, 2}
    BY <1>1, <1>6 DEF Pops, Pair
  <2>2. reg' = WithPair(Pair, Top)
    BY <1>3, <2>1 DEF Pop, low, hi
  <2>3. Stacked(Opcode, reg', status') = Uint16(hi, low)
    BY <1>3, <1>4, <2>1, <2>2 DEF WithPair, Stacked, Pair, High, Lower, Reg
  <2> QED BY <1>1, <1>2, <1>3, <2>3 DEF Stacks, Takes
<1> QED BY <1>5, <1>6

\* The handlers whose opcodes have nothing to do with the stack.
LEMMA OthersStack ==
  ASSUME Opcode \in Byte, Instruction
  PROVE  Stacks \/ RetOnFlag \/ CallOnFlag \/ Rst \/ Push \/ Pop
<1>1. ASSUME Nop \/ Stax \/ Ldax \/ Shld \/ Lhld \/ Sta \/ Lda \/ Hlt PROVE Stacks
  BY <1>1, BelowStack DEF Nop, MovToItself, Stax, Ldax, Shld, Lhld, Sta, Lda, Hlt, Op
<1>2. ASSUME DadPair \/ InrDcr \/ Mvi \/ Mov \/ ArithmeticRegister PROVE Stacks
  BY <1>2, BelowStack DEF DadPair, InrDcr, Mvi, Mov, ArithmeticRegister, Op
<1>3. ASSUME RlcA \/ RrcA \/ RalA \/ RarA \/ DaaA \/ CmaA \/ Stc \/ Cmc PROVE Stacks
  <2>1. ASSUME NEW opcode \in 0 .. 191, NEW r, OnAccumulator(opcode, r) PROVE Stacks
    BY <2>1, BelowStack DEF OnAccumulator, Op
  <2>2. 7 \in 0 .. 191 /\ 15 \in 0 .. 191 /\ 23 \in 0 .. 191 /\ 31 \in 0 .. 191
        /\ 39 \in 0 .. 191 /\ 47 \in 0 .. 191 /\ 55 \in 0 .. 191 /\ 63 \in 0 .. 191
    OBVIOUS
  <2> QED BY <1>3, <2>1, <2>2, Zenon DEF RlcA, RrcA, RalA, RarA, DaaA, CmaA, Stc, Cmc
<1>4. ASSUME Lxi \/ InxPair \/ DcxPair PROVE Stacks
  BY <1>4, BelowStack DEF Lxi, InxPair, DcxPair, SetPair, Pair, SetsSp, Op
<1>5. ASSUME ArithmeticImmediate \/ Xthl \/ Pchl \/ Xchg \/ Sphl \/ DiEi \/ Out \/ In
      PROVE  Stacks
  BY <1>5, BesideStack
  DEF ArithmeticImmediate, Xthl, Pchl, Xchg, Sphl, DiEi, Out, In, Op, Goto
<1>6. ASSUME JmpOnFlag PROVE Stacks
  BY <1>6, BesideStack DEF JmpOnFlag, Goto, Op, Conditional
<1>7. ASSUME NotImplemented PROVE Stacks
  BY <1>7, BelowStack, BesideStack DEF NotImplemented, Op
<1> QED BY <1>1, <1>2, <1>3, <1>4, <1>5, <1>6, <1>7 DEF Instruction

-----------------------------------------------------------------------------
(* What an instruction leaves alone.                                       *)

LEMMA UnwrittenSpares == ASSUME mem' = mem PROVE SparesMemory
BY DEF SparesMemory, Read

\* A byte that is stored is all that is written.
LEMMA WriteSpares ==
  ASSUME NEW at \in Stored, NEW byte, Write(at, byte)
  PROVE  SparesMemory
<1>1. ASSUME NEW addr, addr # at PROVE Read(addr)' = Read(addr)
  BY <1>1 DEF Read, Write, Written
<1> QED BY <1>1 DEF SparesMemory

LEMMA Write16Spares ==
  ASSUME NEW at \in Stored, Plus(at, 1) \in Stored, NEW word, Write16(at, word)
  PROVE  SparesMemory
<1> DEFINE first == Written(mem, at, Low(word))
           next == Plus(at, 1)
<1>1. ASSUME NEW addr, addr # at
      PROVE  (IF addr \in DOMAIN first THEN first[addr] ELSE 0) = Read(addr)
  BY <1>1 DEF Read, Written
<1>2. mem' = Written(first, next, Hi(word))
  BY DEF Write16
<1> HIDE DEF first, next
<1>3. ASSUME NEW addr, addr # next
      PROVE  Read(addr)' = IF addr \in DOMAIN first THEN first[addr] ELSE 0
  BY <1>2, <1>3 DEF Read, Written
<1>4. next \in Stored
  BY DEF next
<1> QED BY <1>1, <1>3, <1>4 DEF SparesMemory

\* The row of an opcode names the destination that its field encodes.
LEMMA RowNames ==
  ASSUME Opcode \in 0 .. 127, Opcode # 118, Opcode < 64 => Opcode % 8 \in {4, 5, 6},
         Dst # Memory
  PROVE  Changed(Opcode) = {Name[Dst + 1]}
<1>1. Row(Opcode) = 8 * Dst \/ Row(Opcode) = 64 + 8 * Dst
  BY DEF Row, Dst
<1>2. Dst \in {0, 1, 2, 3, 4, 5, 7}
  BY DEF Dst, Memory
<1>3. (Opcode < 64 /\ Opcode % 8 \in {4, 5, 6}) \/ Opcode \in (64 .. 127) \ {118}
  OBVIOUS
<1> QED BY <1>1, <1>2, <1>3 DEF Changed, Name

\* The handlers that set the accumulator.
LEMMA AccumulatorSpares ==
  ASSUME TypeOK, ~Interrupted, NEW byte, reg' = [reg EXCEPT !["a"] = byte],
         "a" \in Changed(Opcode) \/ byte = reg["a"]
  PROVE  SparesRegisters
<1>1. ASSUME NEW r \in Reg, r # "a" PROVE reg'[r] = reg[r]
  BY <1>1 DEF TypeOK
<1>2. reg'["a"] = byte
  BY DEF TypeOK, Reg
<1> QED BY <1>1, <1>2 DEF SparesRegisters

\* The handlers that set a register their opcode encodes, or a byte at HL.
LEMMA OperandSpares ==
  ASSUME TypeOK, Opcode \in 0 .. 127, Opcode # 118, Opcode < 64 => Opcode % 8 \in {4, 5, 6},
         ~Interrupted, NEW byte, SetOperand(Dst, byte)
  PROVE  SparesRegisters /\ SparesMemory
<1>1. CASE Dst = Memory
  <2>1. Opcode \in {52, 53, 54, 119} \cup (112 .. 117)
    BY <1>1 DEF Dst, Memory
  <2>2. Hl \in Stored
    BY <2>1 DEF Stored, Calling, Conditionals, Restarts, Pushes
  <2>3. reg' = reg /\ Write(Hl, byte)
    BY <1>1 DEF SetOperand
  <2> QED BY <2>2, <2>3, WriteSpares DEF SparesRegisters
<1>2. CASE Dst # Memory
  <2>1. mem' = mem /\ reg' = [reg EXCEPT ![Name[Dst + 1]] = byte]
    BY <1>2 DEF SetOperand
  <2>2. Changed(Opcode) = {Name[Dst + 1]}
    BY <1>2, RowNames
  <2> QED BY <2>1, <2>2, UnwrittenSpares DEF TypeOK, SparesRegisters
<1> QED BY <1>1, <1>2

\* The handlers that set a pair.
LEMMA PairSpares ==
  ASSUME TypeOK, ~Interrupted, NEW pair \in 0 .. 2, NEW word,
         reg' = WithPair(pair, word),
         {High[pair + 1], Lower[pair + 1]} \subseteq Changed(Opcode)
  PROVE  SparesRegisters
<1> DEFINE high == High[pair + 1]
           lower == Lower[pair + 1]
<1>1. reg' = [reg EXCEPT ![high] = Hi(word), ![lower] = Low(word)]
  BY DEF WithPair
<1>2. high \in Changed(Opcode) /\ lower \in Changed(Opcode)
  OBVIOUS
<1> HIDE DEF high, lower
<1>3. ASSUME NEW r \in Reg, r # high, r # lower PROVE reg'[r] = reg[r]
  BY <1>1, <1>3 DEF TypeOK
<1> QED BY <1>2, <1>3 DEF SparesRegisters

LEMMA StoresSpare ==
  ASSUME Stax \/ Shld \/ Sta
  PROVE  SparesRegisters /\ SparesMemory
<1>1. SparesRegisters
  BY DEF Stax, Shld, Sta, SparesRegisters
<1>2. CASE Stax
  <2>1. PairValue(Pair) \in Stored /\ Write(PairValue(Pair), reg["a"])
    BY <1>2 DEF Stax, Op, Pair, PairValue, High, Lower, Stored, Calling, Conditionals,
                Restarts, Pushes
  <2> QED BY <1>1, <2>1, WriteSpares
<1>3. CASE Shld
  <2>1. Imm16 \in Stored /\ Plus(Imm16, 1) \in Stored /\ Write16(Imm16, Hl)
    BY <1>3 DEF Shld, Op, Stored, Calling, Conditionals, Restarts, Pushes
  <2> QED BY <1>1, <2>1, Write16Spares
<1>4. CASE Sta
  <2>1. Imm16 \in Stored /\ Write(Imm16, reg["a"])
    BY <1>4 DEF Sta, Op, Stored, Calling, Conditionals, Restarts, Pushes
  <2> QED BY <1>1, <2>1, WriteSpares
<1> QED BY <1>2, <1>3, <1>4

LEMMA XthlSpares == ASSUME TypeOK, Xthl PROVE SparesRegisters /\ SparesMemory
<1>1. Opcode = 227 /\ ~Interrupted
  BY DEF Xthl, Op
<1>2. sp \in Stored /\ Plus(sp, 1) \in Stored /\ Write16(sp, Hl)
  BY <1>1 DEF Xthl, Stored, Calling, Conditionals, Restarts, Pushes
<1>3. SparesRegisters
  BY <1>1 DEF Xthl, TypeOK, SparesRegisters, Changed
<1> QED BY <1>2, <1>3, Write16Spares

\* What is pushed is stored below the stack pointer.
LEMMA PushSpares ==
  ASSUME TypeOK, Interrupted \/ Calling \/ Opcode \in Restarts \cup Pushes,
         NEW word, PushWord(word), reg' = reg
  PROVE  SparesRegisters /\ SparesMemory
<1>1. Plus(Plus(sp, 65534), 1) = Plus(sp, 65535)
  <2>1. sp \in Int
    BY WordIs DEF TypeOK
  <2> QED BY <2>1 DEF Plus
<1>2. Plus(sp, 65534) \in Stored /\ Plus(Plus(sp, 65534), 1) \in Stored
  BY <1>1 DEF Stored
<1> QED BY <1>2, Write16Spares DEF PushWord, SparesRegisters

LEMMA CallsSpare ==
  ASSUME TypeOK, Acknowledge \/ Rst \/ Push \/ CallOnFlag
  PROVE  SparesRegisters /\ SparesMemory
<1>1. CASE Acknowledge
  BY <1>1, PushSpares DEF Acknowledge
<1>2. CASE Rst
  <2>1. Opcode \in Restarts
    BY <1>2 DEF Rst, Goto, Conditional, Restarts
  <2> QED BY <1>2, <2>1, PushSpares DEF Rst
<1>3. CASE Push
  BY <1>3, PushSpares DEF Push, Op, Pushes
<1>4. CASE CallOnFlag
  <2>1. Opcode \in Byte /\ Opcode \in {205} \cup {196 + 8 * i : i \in 0 .. 7}
    BY <1>4, FieldsTyped DEF CallOnFlag, Goto, Op, Conditional
  <2>2. Calling <=> Opcode = 205 \/ Condition
    BY <2>1, ConditionHolds DEF Calling, Conditionals, Byte
  <2>3. reg' = reg
    BY <1>4 DEF CallOnFlag
  <2>4. CASE Opcode = 205 \/ Condition
    BY <1>4, <2>2, <2>3, <2>4, PushSpares DEF CallOnFlag
  <2>5. CASE ~(Opcode = 205 \/ Condition)
    BY <1>4, <2>3, <2>5, UnwrittenSpares DEF CallOnFlag, SparesRegisters
  <2> QED BY <2>4, <2>5
<1> QED BY <1>1, <1>2, <1>3, <1>4

LEMMA AccumulatorsSpare ==
  ASSUME TypeOK, RlcA \/ RrcA \/ RalA \/ RarA \/ DaaA \/ CmaA \/ Stc \/ Cmc
  PROVE  SparesRegisters /\ SparesMemory
<1>1. ASSUME NEW opcode \in {7, 15, 23, 31, 39, 47}, NEW r, OnAccumulator(opcode, r)
      PROVE  SparesRegisters /\ SparesMemory
  <2>1. "a" \in Changed(Opcode)
    BY <1>1 DEF OnAccumulator, Op, Changed
  <2> QED BY <1>1, <2>1, AccumulatorSpares, UnwrittenSpares DEF OnAccumulator, Op
<1>2. ASSUME NEW opcode, NEW st, NEW b, OnAccumulator(opcode, Rotated(st, reg["a"], b))
      PROVE  SparesRegisters /\ SparesMemory
  <2>1. reg' = [reg EXCEPT !["a"] = reg["a"]] /\ mem' = mem /\ ~Interrupted
    BY <1>2 DEF OnAccumulator, Rotated, Op
  <2> QED BY <2>1, AccumulatorSpares, UnwrittenSpares
<1>3. Stc \/ Cmc => SparesRegisters /\ SparesMemory
  BY <1>2, Zenon DEF Stc, Cmc
<1> QED BY <1>1, <1>3, Zenon DEF RlcA, RrcA, RalA, RarA, DaaA, CmaA

LEMMA ArithmeticSpares ==
  ASSUME TypeOK, ArithmeticRegister \/ ArithmeticImmediate
  PROVE  SparesRegisters /\ SparesMemory
<1>1. PICK byte : Arithmetic(byte)
  BY Zenon DEF ArithmeticRegister, ArithmeticImmediate
<1>2. \E v : reg' = [reg EXCEPT !["a"] = v] /\ (Dst = 7 => v = reg["a"])
  <2>1. CASE Dst = 7
    <3> DEFINE compared == [Sub(status, reg["a"], byte, 0) EXCEPT !.val = reg["a"]]
    <3>1. compared.val = reg["a"]
      BY DEF Sub, Add
    <3>2. reg' = [reg EXCEPT !["a"] = compared.val]
      <4>1. Dst # 0 /\ Dst # 1 /\ Dst # 2 /\ Dst # 3 /\ Dst # 4 /\ Dst # 5 /\ Dst # 6
        BY <2>1
      <4> QED BY <1>1, <2>1, <4>1, Zenon DEF Arithmetic
    <3> QED BY <3>1, <3>2
  <2>2. CASE Dst # 7
    BY <1>1, <2>2, Zenon DEF Arithmetic
  <2> QED BY <2>1, <2>2
<1>3. Dst # 7 => "a" \in Changed(Opcode)
  BY DEF ArithmeticRegister, ArithmeticImmediate, Op, Dst, Changed
<1>4. mem' = mem /\ ~Interrupted
  BY DEF ArithmeticRegister, ArithmeticImmediate, Op
<1>5. PICK v : reg' = [reg EXCEPT !["a"] = v] /\ (Dst = 7 => v = reg["a"])
  BY <1>2
<1> QED BY <1>3, <1>4, <1>5, AccumulatorSpares, UnwrittenSpares

LEMMA LoadsSpare ==
  ASSUME TypeOK, Ldax \/ Lhld \/ Lda \/ In \/ Xchg
  PROVE  SparesRegisters /\ SparesMemory
<1>1. mem' = mem /\ ~Interrupted
  BY DEF Ldax, Lhld, Lda, In, Xchg, Op
<1>2. CASE Ldax \/ Lda \/ In
  <2>1. "a" \in Changed(Opcode)
    BY <1>2 DEF Ldax, Lda, In, Op, Changed
  <2> QED BY <1>1, <1>2, <2>1, AccumulatorSpares, UnwrittenSpares DEF Ldax, Lda, In
<1>3. CASE Lhld \/ Xchg
  BY <1>1, <1>3, UnwrittenSpares DEF Lhld, Xchg, Op, Changed, SparesRegisters, TypeOK
<1> QED BY <1>2, <1>3

LEMMA PairsSpare ==
  ASSUME TypeOK, Lxi \/ InxPair \/ DcxPair \/ DadPair
  PROVE  SparesRegisters /\ SparesMemory
<1>1. mem' = mem /\ ~Interrupted
  BY DEF Lxi, InxPair, DcxPair, DadPair, Op
<1>2. CASE DadPair
  <2> DEFINE sum == Dad(status, Hl, PairValue(Pair))
  <2>1. reg' = WithPair(2, sum.val)
    BY <1>2 DEF DadPair
  <2> HIDE DEF sum
  <2>2. {High[3], Lower[3]} \subseteq Changed(Opcode)
    <3>1. Opcode \in {9, 25, 41, 57}
      BY <1>2 DEF DadPair, Op
    <3>2. Changed(Opcode) = {"h", "l"}
      BY <3>1 DEF Changed
    <3> QED BY <3>2 DEF High, Lower
  <2> QED BY <1>1, <2>1, <2>2, PairSpares, UnwrittenSpares
<1>3. CASE Lxi \/ InxPair \/ DcxPair
  <2>1. PICK word : SetPair(Pair, word)
    BY <1>3 DEF Lxi, InxPair, DcxPair
  <2>2. Pair \in 0 .. 3
    BY <1>3 DEF Lxi, InxPair, DcxPair, Op, Pair
  <2>3. CASE Pair = 3
    BY <1>1, <2>1, <2>3, UnwrittenSpares DEF SetPair, SparesRegisters
  <2>4. CASE Pair # 3
    <3>1. {High[Pair + 1], Lower[Pair + 1]} \subseteq Changed(Opcode)
      BY <1>3, <2>4 DEF Lxi, InxPair, DcxPair, Op, Pair, Changed, High, Lower
    <3>2. Pair \in 0 .. 2 /\ reg' = WithPair(Pair, word)
      BY <2>1, <2>2, <2>4 DEF SetPair
    <3> QED BY <1>1, <3>1, <3>2, PairSpares, UnwrittenSpares
  <2> QED BY <2>3, <2>4
<1> QED BY <1>2, <1>3

LEMMA PopSpares == ASSUME TypeOK, Pop PROVE SparesRegisters /\ SparesMemory
<1>1. mem' = mem /\ Opcode \in {193, 209, 225, 241} /\ ~Interrupted
  BY DEF Pop, Op
<1>2. CASE Opcode = 241
  <2>1. Pair = 3 /\ "a" \in Changed(Opcode)
    BY <1>2 DEF Pair, Changed
  <2> QED BY <1>1, <2>1, AccumulatorSpares, UnwrittenSpares DEF Pop
<1>3. CASE Opcode # 241
  <2>1. Pair \in 0 .. 2 /\ {High[Pair + 1], Lower[Pair + 1]} \subseteq Changed(Opcode)
    BY <1>1, <1>3 DEF Pair, Changed, High, Lower
  <2>2. PICK word : reg' = WithPair(Pair, word)
    BY <2>1 DEF Pop
  <2> QED BY <1>1, <2>1, <2>2, PairSpares, UnwrittenSpares
<1> QED BY <1>2, <1>3

LEMMA OperandsSpare ==
  ASSUME TypeOK, InrDcr \/ Mvi \/ Mov
  PROVE  SparesRegisters /\ SparesMemory
<1>1. /\ Opcode \in 0 .. 127 /\ Opcode # 118 /\ ~Interrupted
      /\ Opcode < 64 => Opcode % 8 \in {4, 5, 6}
  BY DEF InrDcr, Mvi, Mov, Op
<1>2. PICK byte : SetOperand(Dst, byte)
  <2>1. CASE InrDcr
    <3> DEFINE r == IF Src = 4 THEN Inr(status, Operand(Dst)) ELSE Dcr(status, Operand(Dst))
    <3>1. SetOperand(Dst, r.val)
      BY <2>1 DEF InrDcr
    <3> HIDE DEF r
    <3> QED BY <3>1
  <2>2. CASE Mvi \/ Mov
    BY <2>2, Zenon DEF Mvi, Mov
  <2> QED BY <2>1, <2>2
<1> QED BY <1>1, <1>2, OperandSpares

\* Every handler, and the acknowledgement of an interrupt.
LEMMA ExecuteSpares == ASSUME TypeOK, Execute PROVE SparesRegisters /\ SparesMemory
<1>1. ASSUME \/ Nop \/ Hlt \/ JmpOnFlag \/ RetOnFlag \/ Pchl \/ Sphl \/ DiEi \/ Out
             \/ NotImplemented
      PROVE  SparesRegisters /\ SparesMemory
  <2>1. reg' = reg /\ mem' = mem
    BY <1>1 DEF Nop, Hlt, JmpOnFlag, RetOnFlag, Pchl, Sphl, DiEi, Out, NotImplemented
  <2> QED BY <2>1, UnwrittenSpares DEF SparesRegisters
<1> QED
  BY <1>1, StoresSpare, XthlSpares, CallsSpare, AccumulatorsSpare, ArithmeticSpares,
     LoadsSpare, PairsSpare, PopSpares, OperandsSpare
  DEF Execute, Instruction

-----------------------------------------------------------------------------
(* Every step of a cpu in a machine.                                       *)

LEMMA StepsKeepToDatasheet ==
  ASSUME TypeOK, Execute
  PROVE  Follows /\ Timed /\ Preserves /\ Stacks
<1>1. Opcode \in Byte
  BY FieldsTyped
<1>2. Stacks
  BY <1>1, AcknowledgeStacks, OthersStack, RetOnFlagStacks, CallOnFlagStacks, RstStacks,
     PushStacks, PopStacks
  DEF Execute
<1> QED
  BY <1>1, <1>2, InstructionTimely, AcknowledgeTimely, InstructionPreserves,
     AcknowledgePreserves
  DEF Execute, Timely

\* In every state of every program, pc moves on by the length the data sheet
\* gives (across the end of the address space too), to the target of a jump,
\* call or return that is taken, or to a restart (the handlers of 8080.cpp).
THEOREM InstructionsFollow == CpuSpec => FollowsProgram
<1>1. TypeOK /\ [Step]_vars => [Execute => Follows]_vars
  BY StepsKeepToDatasheet
<1> QED BY <1>1, CpuTypeCorrect, PTL DEF CpuSpec, FollowsProgram

\* In every state of every program, the time that Execute returns, which paces the
\* clock and the interrupts, is the data sheet's, except for a MOV of a register to
\* itself: that one always takes the 4 periods of Nop (8080.cpp:477-540, 1260).
THEOREM InstructionsTimed == CpuSpec => TakesPeriods
<1>1. TypeOK /\ [Step]_vars => [Execute => Timed]_vars
  BY StepsKeepToDatasheet
<1> QED BY <1>1, CpuTypeCorrect, PTL DEF CpuSpec, TakesPeriods

\* In every state of every program, the handlers change no flag but those of
\* the data sheet: a comparison may be followed by moves, loads, stores,
\* increments of a pair and calls before its carry is tested.
THEOREM FlagsKept == CpuSpec => FlagsPreserved
<1>1. TypeOK /\ [Step]_vars => [Execute => Preserves]_vars
  BY StepsKeepToDatasheet
<1> QED BY <1>1, CpuTypeCorrect, PTL DEF CpuSpec, FlagsPreserved

\* In every state of every program, what an interrupt, a call or a PUSH leaves
\* on the stack is what the next RET or POP takes, and nothing else is written or
\* moves the stack (PushWord's callers, POP and RET in 8080.cpp).
THEOREM StackIsKept == CpuSpec => StackKept
<1>1. TypeOK /\ [Step]_vars => [Execute => Stacks]_vars
  BY StepsKeepToDatasheet
<1> QED BY <1>1, CpuTypeCorrect, PTL DEF CpuSpec, StackKept

\* In every state of every program, an instruction changes no register and no
\* byte but those of the data sheet, and an interrupt only the two bytes it pushes
\* (every handler of 8080.cpp): a handler gives back what it saves, and what it
\* does not save is only lost if one of its instructions is there to set it.
THEOREM OthersAreSpared == CpuSpec => OthersSpared
<1>1. TypeOK /\ [Step]_vars => [Execute => SparesRegisters /\ SparesMemory]_vars
  BY ExecuteSpares
<1> QED BY <1>1, CpuTypeCorrect, PTL DEF CpuSpec, OthersSpared
=============================================================================
