----------------------------- MODULE AluProofs -----------------------------
(***************************************************************************)
(* Lemmas about Alu, for all operands: every operation yields a byte and a *)
(* status register, and what putting a flag does to it.                    *)
(***************************************************************************)
EXTENDS Alu, TLAPS

\* What an operation that sets flags yields.
Result(r) == r.val \in Byte /\ r.status \in Status

-----------------------------------------------------------------------------
(* Bits.                                                                   *)

LEMMA Powers ==
  /\ 2^0 = 1 /\ 2^1 = 2 /\ 2^2 = 4 /\ 2^3 = 8
  /\ 2^4 = 16 /\ 2^5 = 32 /\ 2^6 = 64 /\ 2^7 = 128
OBVIOUS

LEMMA PowersOf ==
  ASSUME NEW i
  PROVE  /\ i = 0 => 2^i = 1
         /\ i = 1 => 2^i = 2
         /\ i = 2 => 2^i = 4
         /\ i = 3 => 2^i = 8
         /\ i = 4 => 2^i = 16
         /\ i = 5 => 2^i = 32
         /\ i = 6 => 2^i = 64
         /\ i = 7 => 2^i = 128
<1>0. ASSUME i = 0 PROVE 2^i = 1
  BY <1>0
<1>1. ASSUME i = 1 PROVE 2^i = 2
  BY <1>1
<1>2. ASSUME i = 2 PROVE 2^i = 4
  BY <1>2
<1>3. ASSUME i = 3 PROVE 2^i = 8
  BY <1>3
<1>4. ASSUME i = 4 PROVE 2^i = 16
  BY <1>4
<1>5. ASSUME i = 5 PROVE 2^i = 32
  BY <1>5
<1>6. ASSUME i = 6 PROVE 2^i = 64
  BY <1>6
<1>7. ASSUME i = 7 PROVE 2^i = 128
  BY <1>7
<1> QED BY <1>0, <1>1, <1>2, <1>3, <1>4, <1>5, <1>6, <1>7

LEMMA Power ==
  ASSUME NEW i \in 0 .. 7
  PROVE  2^i \in {1, 2, 4, 8, 16, 32, 64, 128}
<1>1. i = 0 \/ i = 1 \/ i = 2 \/ i = 3 \/ i = 4 \/ i = 5 \/ i = 6 \/ i = 7
  OBVIOUS
<1> QED BY <1>1, PowersOf

LEMMA FlagPower ==
  ASSUME NEW i \in Flag
  PROVE  2^i \in {1, 4, 16, 64, 128}
BY PowersOf DEF Flag, CarryFlag, ParityFlag, AuxCarryFlag, ZeroFlag, SignFlag

LEMMA BitTyped ==
  ASSUME NEW x \in Byte, NEW i \in 0 .. 7
  PROVE  Bit(x, i) \in {0, 1}
<1>1. \A p \in {1, 2, 4, 8, 16, 32, 64, 128} : (x \div p) % 2 \in {0, 1}
  BY DEF Byte
<1> QED BY <1>1, Power DEF Bit

\* Replacing the bit of a flag changes none of the constant bits.
LEMMA PutTyped ==
  ASSUME NEW st \in Status, NEW i \in Flag, NEW b
  PROVE  Put(st, i, b) \in Status
<1> DEFINE n == Num(b)
           p == 2^i
           y == Put(st, i, b)
<1>1. st \in 0 .. 255 /\ n \in {0, 1} /\ p \in {1, 4, 16, 64, 128}
  BY FlagPower DEF Status, Byte, Num
<1>2. y = st + (n - ((st \div p) % 2)) * p
  BY DEF Put, Bit
<1> HIDE DEF n, p, y
<1>3. /\ y \in 0 .. 255
      /\ (y \div 2) % 2 = (st \div 2) % 2
      /\ (y \div 8) % 2 = (st \div 8) % 2
      /\ (y \div 32) % 2 = (st \div 32) % 2
  <2>1. CASE p = 1
    BY <1>1, <1>2, <2>1
  <2>2. CASE p = 4
    BY <1>1, <1>2, <2>2
  <2>3. CASE p = 16
    BY <1>1, <1>2, <2>3
  <2>4. CASE p = 64
    BY <1>1, <1>2, <2>4
  <2>5. CASE p = 128
    BY <1>1, <1>2, <2>5
  <2> QED BY <1>1, <2>1, <2>2, <2>3, <2>4, <2>5
<1>4. /\ Test(y, 1) = Test(st, 1) /\ Test(y, 3) = Test(st, 3) /\ Test(y, 5) = Test(st, 5)
  BY <1>3, Powers DEF Test, Bit
<1>5. y \in Status
  BY <1>3, <1>4 DEF Status, Canonical, Byte
<1> QED BY <1>5 DEF y

LEMMA ResultFlagsTyped ==
  ASSUME NEW st \in Status, NEW val
  PROVE  ResultFlags(st, val) \in Status
BY PutTyped DEF ResultFlags, Flag, Test, Parity

LEMMA FlagPowers ==
  ASSUME NEW i \in Flag
  PROVE  /\ i = 0 <=> 2^i = 1
         /\ i = 2 <=> 2^i = 4
         /\ i = 4 <=> 2^i = 16
         /\ i = 6 <=> 2^i = 64
         /\ i = 7 <=> 2^i = 128
BY PowersOf DEF Flag, CarryFlag, ParityFlag, AuxCarryFlag, ZeroFlag, SignFlag

LEMMA DistinctPowers ==
  ASSUME NEW i \in Flag, NEW j \in Flag, i # j
  PROVE  2^i # 2^j
<1>1. i \in {0, 2, 4, 6, 7} /\ j \in {0, 2, 4, 6, 7}
  BY DEF Flag, CarryFlag, ParityFlag, AuxCarryFlag, ZeroFlag, SignFlag
<1> DEFINE p == 2^i
           q == 2^j
<1>2. /\ i = 0 <=> p = 1
      /\ i = 2 <=> p = 4
      /\ i = 4 <=> p = 16
      /\ i = 6 <=> p = 64
      /\ i = 7 <=> p = 128
  BY FlagPowers
<1>3. /\ j = 0 <=> q = 1
      /\ j = 2 <=> q = 4
      /\ j = 4 <=> q = 16
      /\ j = 6 <=> q = 64
      /\ j = 7 <=> q = 128
  BY FlagPowers
<1> HIDE DEF p, q
<1>4. p # q
  BY <1>1, <1>2, <1>3
<1> QED BY <1>4 DEF p, q

\* A flag that is put is there, and the carry is the lowest bit.
LEMMA PutSets ==
  ASSUME NEW st \in Status, NEW i \in Flag, NEW b \in BOOLEAN
  PROVE  /\ Bit(Put(st, i, b), i) = Num(b)
         /\ Test(Put(st, i, b), i) = b
<1> DEFINE n == Num(b)
           p == 2^i
           y == Put(st, i, b)
<1>1. st \in 0 .. 255 /\ n \in {0, 1} /\ p \in {1, 4, 16, 64, 128}
  BY FlagPower DEF Status, Byte, Num
<1>2. y = st + (n - ((st \div p) % 2)) * p
  BY DEF Put, Bit
<1>3. Bit(y, i) = (y \div p) % 2
  BY DEF Bit
<1>4. (n = 1) = b
  BY DEF Num
<1> HIDE DEF n, p, y
<1>5. (y \div p) % 2 = n
  <2>1. CASE p = 1
    BY <1>1, <1>2, <2>1
  <2>2. CASE p = 4
    BY <1>1, <1>2, <2>2
  <2>3. CASE p = 16
    BY <1>1, <1>2, <2>3
  <2>4. CASE p = 64
    BY <1>1, <1>2, <2>4
  <2>5. CASE p = 128
    BY <1>1, <1>2, <2>5
  <2> QED BY <1>1, <2>1, <2>2, <2>3, <2>4, <2>5
<1>6. Bit(y, i) = n
  BY <1>3, <1>5
<1>7. Test(y, i) = b
  BY <1>4, <1>6 DEF Test
<1> QED BY <1>6, <1>7 DEF y, n

\* Putting one flag changes no other.
LEMMA PutKeeps ==
  ASSUME NEW st \in Status, NEW i \in Flag, NEW j \in Flag, i # j, NEW b
  PROVE  Test(Put(st, i, b), j) = Test(st, j)
<1> DEFINE n == Num(b)
           p == 2^i
           q == 2^j
           y == Put(st, i, b)
<1>a. st \in 0 .. 255 /\ n \in {0, 1}
  BY DEF Status, Byte, Num
<1>b. y = st + (n - ((st \div p) % 2)) * p
  BY DEF Put, Bit
<1>c. p \in {1, 4, 16, 64, 128} /\ q \in {1, 4, 16, 64, 128} /\ p # q
  BY DistinctPowers, FlagPower
<1>d. (y \div q) % 2 = (st \div q) % 2 => Test(y, j) = Test(st, j)
  BY DEF Test, Bit
<1> HIDE DEF n, p, q
<1>g. y = Put(st, i, b)
  OBVIOUS
<1> HIDE DEF y
<1>e. (y \div q) % 2 = (st \div q) % 2
  <2>1. CASE p = 1
    <3>1. \A r \in {1, 4, 16, 64, 128} \ {1} : (y \div r) % 2 = (st \div r) % 2
      BY <1>a, <1>b, <2>1
    <3> QED BY <1>c, <2>1, <3>1
  <2>2. CASE p = 4
    <3>1. \A r \in {1, 4, 16, 64, 128} \ {4} : (y \div r) % 2 = (st \div r) % 2
      BY <1>a, <1>b, <2>2
    <3> QED BY <1>c, <2>2, <3>1
  <2>3. CASE p = 16
    <3>1. \A r \in {1, 4, 16, 64, 128} \ {16} : (y \div r) % 2 = (st \div r) % 2
      BY <1>a, <1>b, <2>3
    <3> QED BY <1>c, <2>3, <3>1
  <2>4. CASE p = 64
    <3>1. \A r \in {1, 4, 16, 64, 128} \ {64} : (y \div r) % 2 = (st \div r) % 2
      BY <1>a, <1>b, <2>4
    <3> QED BY <1>c, <2>4, <3>1
  <2>5. CASE p = 128
    <3>1. \A r \in {1, 4, 16, 64, 128} \ {128} : (y \div r) % 2 = (st \div r) % 2
      BY <1>a, <1>b, <2>5
    <3> QED BY <1>c, <2>5, <3>1
  <2> QED BY <1>c, <2>1, <2>2, <2>3, <2>4, <2>5
<1> QED BY <1>d, <1>e, <1>g

\* The flags of a result are neither of the carries.
LEMMA ResultFlagsKeep ==
  ASSUME NEW st \in Status, NEW val
  PROVE  /\ Test(ResultFlags(st, val), CarryFlag) = Test(st, CarryFlag)
         /\ Test(ResultFlags(st, val), AuxCarryFlag) = Test(st, AuxCarryFlag)
BY PutTyped, PutKeeps
DEF ResultFlags, Flag, CarryFlag, AuxCarryFlag, ZeroFlag, SignFlag, ParityFlag

-----------------------------------------------------------------------------
(* Operations.                                                             *)

\* A sum is a byte, whatever happens to the carry.
LEMMA AddTyped ==
  ASSUME NEW st \in Status, NEW lhs \in Byte, NEW rhs \in Byte, NEW carry \in {0, 1},
         NEW setCarry \in BOOLEAN
  PROVE  Result(Add(st, lhs, rhs, carry, setCarry))
<1>1. (lhs + rhs + carry) % 256 \in Byte
  BY DEF Byte
<1>2. (IF setCarry THEN Put(st, CarryFlag, lhs + rhs + carry > 255) ELSE st) \in Status
  <2>1. Put(st, CarryFlag, lhs + rhs + carry > 255) \in Status
    BY PutTyped, Zenon DEF Flag
  <2> QED BY <2>1, Zenon
<1>3. \A s \in Status, b \in BOOLEAN : Put(s, AuxCarryFlag, b) \in Status
  BY PutTyped DEF Flag
<1> DEFINE st1 == IF setCarry THEN Put(st, CarryFlag, lhs + rhs + carry > 255) ELSE st
           val == (lhs + rhs + carry) % 256
           half == (lhs % 16) + (rhs % 16) + carry > 15
<1>4. Add(st, lhs, rhs, carry, setCarry)
        = [val |-> val, status |-> ResultFlags(Put(st1, AuxCarryFlag, half), val)]
  BY DEF Add
<1>5. half \in BOOLEAN /\ val \in Byte /\ st1 \in Status
  BY <1>1, <1>2
<1> HIDE DEF st1, val, half
<1>6. ResultFlags(Put(st1, AuxCarryFlag, half), val) \in Status
  BY <1>3, <1>5, ResultFlagsTyped
<1> QED BY <1>4, <1>5, <1>6 DEF Result

LEMMA SubTyped ==
  ASSUME NEW st \in Status, NEW a \in Byte, NEW r \in Byte, NEW borrow \in {0, 1}
  PROVE  Result(Sub(st, a, r, borrow))
<1> DEFINE sum == Add(st, a, 255 - r, 1 - borrow, TRUE)
<1>1. Result(sum)
  <2> DEFINE complement == 255 - r
             carry == 1 - borrow
  <2>1. complement \in Byte /\ carry \in {0, 1}
    BY DEF Byte
  <2> HIDE DEF complement, carry
  <2>2. Result(Add(st, a, complement, carry, TRUE))
    BY <2>1, AddTyped
  <2> QED BY <2>2 DEF complement, carry
<1>2. DOMAIN sum = {"val", "status"}
  BY DEF Add
<1>3. Sub(st, a, r, borrow)
        = [sum EXCEPT !.status = Put(sum.status, CarryFlag, ~Test(sum.status, CarryFlag))]
  BY DEF Sub
<1> HIDE DEF sum
<1> QED BY <1>1, <1>2, <1>3, PutTyped DEF Result, Flag, Test

LEMMA FromBitsTyped ==
  ASSUME NEW bit, \A i \in 0 .. 7 : bit[i] \in {0, 1}
  PROVE  FromBits(bit) \in Byte
BY DEF FromBits, Byte

LEMMA LogicTyped ==
  ASSUME NEW st \in Status, NEW val \in Byte, NEW aux \in BOOLEAN
  PROVE  Result(Logic(st, val, aux))
BY PutTyped, ResultFlagsTyped DEF Logic, Result, Flag

LEMMA BitwiseTyped ==
  ASSUME NEW st \in Status, NEW a \in Byte, NEW r \in Byte
  PROVE  Result(Ana(st, a, r)) /\ Result(Xra(st, a, r)) /\ Result(Ora(st, a, r))
<1>1. \A i \in 0 .. 7 : Bit(a, i) \in {0, 1} /\ Bit(r, i) \in {0, 1}
  BY BitTyped
<1>2. FromBits([i \in 0 .. 7 |-> Bit(a, i) * Bit(r, i)]) \in Byte
  <2>1. \A i \in 0 .. 7 : Bit(a, i) * Bit(r, i) \in {0, 1}
    BY <1>1
  <2> QED BY <2>1, FromBitsTyped
<1>3. FromBits([i \in 0 .. 7 |-> (Bit(a, i) + Bit(r, i)) % 2]) \in Byte
  <2>1. \A i \in 0 .. 7 : (Bit(a, i) + Bit(r, i)) % 2 \in {0, 1}
    BY <1>1
  <2> QED BY <2>1, FromBitsTyped
<1>4. FromBits([i \in 0 .. 7 |-> Num(Test(a, i) \/ Test(r, i))]) \in Byte
  <2>1. \A i \in 0 .. 7 : Num(Test(a, i) \/ Test(r, i)) \in {0, 1}
    BY DEF Num
  <2> QED BY <2>1, FromBitsTyped
<1> QED BY <1>2, <1>3, <1>4, LogicTyped DEF Ana, Xra, Ora, Test

LEMMA RotatedTyped ==
  ASSUME NEW st \in Status, NEW val \in Byte, NEW carry
  PROVE  Result(Rotated(st, val, carry))
BY PutTyped DEF Rotated, Result, Flag

LEMMA RotationsTyped ==
  ASSUME NEW st \in Status, NEW a \in Byte
  PROVE  Result(Rlc(st, a)) /\ Result(Rrc(st, a)) /\ Result(Ral(st, a)) /\ Result(Rar(st, a))
<1>1. \A n \in {0, 1} : ((2 * a) % 256) + n \in Byte /\ a \div 2 + 128 * n \in Byte
  BY DEF Byte
<1>2. Bit(a, 7) \in {0, 1} /\ Bit(a, 0) \in {0, 1} /\ Bit(st, CarryFlag) \in {0, 1}
  BY BitTyped DEF Status, CarryFlag
<1>3. /\ ((2 * a) % 256) + Bit(a, 7) \in Byte
      /\ a \div 2 + 128 * Bit(a, 0) \in Byte
      /\ ((2 * a) % 256) + Bit(st, CarryFlag) \in Byte
      /\ a \div 2 + 128 * Bit(st, CarryFlag) \in Byte
  BY <1>1, <1>2
<1> QED BY <1>3, RotatedTyped DEF Rlc, Rrc, Ral, Rar

LEMMA DaaTyped ==
  ASSUME NEW st \in Status, NEW a \in Byte
  PROVE  Result(Daa(st, a))
<1> DEFINE low == IF a % 16 > 9 \/ Test(st, AuxCarryFlag) THEN 6 ELSE 0
           high == \/ a \div 16 > 9
                   \/ Test(st, CarryFlag)
                   \/ a \div 16 >= 9 /\ a % 16 > 9
           adjust == low + (IF high THEN 96 ELSE 0)
           st1 == IF high THEN Put(st, CarryFlag, TRUE) ELSE st
<1>1. adjust \in Byte
  BY DEF Byte
<1>2. st1 \in Status
  BY PutTyped DEF Flag
<1>3. Daa(st, a) = Add(st1, a, adjust, 0, FALSE)
  BY DEF Daa
<1> HIDE DEF adjust, st1
<1> QED BY <1>1, <1>2, <1>3, AddTyped

-----------------------------------------------------------------------------
(* Words.                                                                  *)

\* The provers cannot compute with so wide a range: this is all they need of it.
LEMMA WordIs == ASSUME NEW x PROVE x \in Word <=> x \in Int /\ 0 <= x /\ x <= 65535
<1> DEFINE top == 65535
           Below == x <= top
<1>1. top \in Int
  OBVIOUS
<1>2. Word = 0 .. top
  BY DEF Word
<1>3. Below <=> x <= 65535
  OBVIOUS
<1> HIDE DEF top
<1>4. x \in 0 .. top <=> x \in Int /\ 0 <= x /\ Below
  BY <1>1
<1> HIDE DEF Below
<1> QED BY <1>2, <1>3, <1>4, SMT

LEMMA Wrapped == ASSUME NEW x \in Int PROVE x % 65536 \in Word
<1>1. x % 65536 \in Int /\ 0 <= x % 65536 /\ x % 65536 <= 65535
  OBVIOUS
<1> QED BY <1>1, WordIs

LEMMA WordsTyped ==
  ASSUME NEW word \in Word
  PROVE  /\ Hi(word) \in Byte /\ Low(word) \in Byte
         /\ Inx(word) \in Word /\ Dcx(word) \in Word
<1>1. word \in Int /\ 0 <= word /\ word <= 65535
  BY WordIs
<1>2. Hi(word) \in Byte /\ Low(word) \in Byte
  BY <1>1 DEF Hi, Low, Byte
<1> QED BY <1>1, <1>2, Wrapped DEF Inx, Dcx

LEMMA Uint16Typed ==
  ASSUME NEW hi \in Byte, NEW low \in Byte
  PROVE  Uint16(hi, low) \in Word
<1>1. 256 * hi + low \in Int /\ 0 <= 256 * hi + low /\ 256 * hi + low <= 65535
  BY DEF Byte
<1> QED BY <1>1, WordIs DEF Uint16

LEMMA DadTyped ==
  ASSUME NEW st \in Status, NEW hl \in Word, NEW word \in Word
  PROVE  Dad(st, hl, word).val \in Word /\ Dad(st, hl, word).status \in Status
<1> DEFINE carry == hl + word > 65535
<1>1. (hl + word) % 65536 \in Word
  BY WordIs, Wrapped
<1>2. Dad(st, hl, word) = [val |-> (hl + word) % 65536, status |-> Put(st, CarryFlag, carry)]
  BY DEF Dad
<1> HIDE DEF carry
<1> QED BY <1>1, <1>2, PutTyped DEF Flag
=============================================================================
