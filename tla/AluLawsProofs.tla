--------------------------- MODULE AluLawsProofs ---------------------------
(***************************************************************************)
(* The laws of AluLaws, for every pair of bytes, every value of the status *)
(* register and every pair of words.                                       *)
(***************************************************************************)
EXTENDS AluLaws, AluProofs

Typed == x \in Byte /\ y \in Byte /\ status \in Status

\* The operands stay bytes and the status register stays canonical.
LEMMA AlwaysTyped == Spec => []Typed
<1>1. Init => Typed
  BY LawsAssumption DEF Init, Typed, Byte
<1>2. Typed /\ [Next]_vars => Typed'
  BY DEF Typed, Next, vars, Byte
<1> QED BY <1>1, <1>2, PTL DEF Spec

-----------------------------------------------------------------------------
(* Parity.                                                                 *)

\* The bits of a number are its binary digits.
LEMMA BitsAre ==
  ASSUME NEW n \in Int
  PROVE  /\ Bit(n, 0) = n % 2 /\ Bit(n, 1) = (n \div 2) % 2
         /\ Bit(n, 2) = (n \div 4) % 2 /\ Bit(n, 3) = (n \div 8) % 2
         /\ Bit(n, 4) = (n \div 16) % 2 /\ Bit(n, 5) = (n \div 32) % 2
         /\ Bit(n, 6) = (n \div 64) % 2 /\ Bit(n, 7) = (n \div 128) % 2
BY Powers DEF Bit

\* Halving a byte takes its lowest bit off the number of its ones.
LEMMA OnesHalves ==
  ASSUME NEW n \in Byte
  PROVE  /\ n \div 2 \in Byte
         /\ Ones(n) = (n % 2) + Ones(n \div 2)
         /\ Ones(n) \in Nat
<1> DEFINE m == n \div 2
<1>1. n \in Int /\ n \in 0 .. 255
  BY DEF Byte
<1>2. m \in Int /\ m \in 0 .. 127
  BY <1>1
<1>3. /\ m % 2 = (n \div 2) % 2 /\ (m \div 2) % 2 = (n \div 4) % 2
      /\ (m \div 4) % 2 = (n \div 8) % 2 /\ (m \div 8) % 2 = (n \div 16) % 2
      /\ (m \div 16) % 2 = (n \div 32) % 2 /\ (m \div 32) % 2 = (n \div 64) % 2
      /\ (m \div 64) % 2 = (n \div 128) % 2
  BY <1>1, SMTT(30)
<1>4. (m \div 128) % 2 = 0
  BY <1>2
<1> HIDE DEF m
<1>5. /\ Bit(m, 0) = Bit(n, 1) /\ Bit(m, 1) = Bit(n, 2) /\ Bit(m, 2) = Bit(n, 3)
      /\ Bit(m, 3) = Bit(n, 4) /\ Bit(m, 4) = Bit(n, 5) /\ Bit(m, 5) = Bit(n, 6)
      /\ Bit(m, 6) = Bit(n, 7) /\ Bit(m, 7) = 0 /\ Bit(n, 0) = n % 2
  <2>1. /\ Bit(n, 0) = n % 2 /\ Bit(n, 1) = (n \div 2) % 2
        /\ Bit(n, 2) = (n \div 4) % 2 /\ Bit(n, 3) = (n \div 8) % 2
        /\ Bit(n, 4) = (n \div 16) % 2 /\ Bit(n, 5) = (n \div 32) % 2
        /\ Bit(n, 6) = (n \div 64) % 2 /\ Bit(n, 7) = (n \div 128) % 2
    BY <1>1, BitsAre
  <2>2. /\ Bit(m, 0) = m % 2 /\ Bit(m, 1) = (m \div 2) % 2
        /\ Bit(m, 2) = (m \div 4) % 2 /\ Bit(m, 3) = (m \div 8) % 2
        /\ Bit(m, 4) = (m \div 16) % 2 /\ Bit(m, 5) = (m \div 32) % 2
        /\ Bit(m, 6) = (m \div 64) % 2 /\ Bit(m, 7) = (m \div 128) % 2
    BY <1>2, BitsAre
  <2>3. Bit(m, 0) = Bit(n, 1) /\ Bit(m, 1) = Bit(n, 2) /\ Bit(m, 2) = Bit(n, 3)
    BY <1>3, <2>1, <2>2
  <2>4. Bit(m, 3) = Bit(n, 4) /\ Bit(m, 4) = Bit(n, 5) /\ Bit(m, 5) = Bit(n, 6)
    BY <1>3, <2>1, <2>2
  <2>5. Bit(m, 6) = Bit(n, 7) /\ Bit(m, 7) = 0
    BY <1>3, <1>4, <2>1, <2>2
  <2> QED BY <2>1, <2>3, <2>4, <2>5
<1>6. \A i \in 0 .. 7 : Bit(n, i) \in {0, 1}
  BY BitTyped
<1>7. Ones(n) = (n % 2) + Ones(m) /\ Ones(n) \in Nat
  BY <1>1, <1>5, <1>6 DEF Ones
<1>8. m \in Byte
  BY <1>2 DEF Byte
<1> QED BY <1>7, <1>8 DEF m

\* ... so its parity is that of its half, turned by an odd byte.
LEMMA ParityHalves ==
  ASSUME NEW n \in Byte
  PROVE  /\ Parity(0)
         /\ Parity(n) <=> ((n % 2 = 0) <=> Parity(n \div 2))
<1>1. n \in Int /\ 0 \in Byte /\ n \div 2 \in Byte
  BY OnesHalves DEF Byte
<1>2. Ones(n) = (n % 2) + Ones(n \div 2) /\ Ones(n \div 2) \in Nat
  BY <1>1, OnesHalves
<1>3. Parity(n) <=> ((n % 2 = 0) <=> Parity(n \div 2))
  BY <1>1, <1>2 DEF Parity
<1>4. Ones(0) = 0
  BY BitsAre DEF Ones
<1> QED BY <1>3, <1>4 DEF Parity

\* The parity of a byte is that of its halves, down to none.
LEMMA EvenOnesIs == EvenOnes = [n \in Byte |-> n = 0 \/ (n % 2 = 0) = EvenOnes[n \div 2]]
<1> DEFINE Recurses(f) == f = [n \in Byte |-> n = 0 \/ (n % 2 = 0) = f[n \div 2]]
           parity == [n \in Byte |-> Parity(n)]
<1>1. ASSUME NEW n \in Byte PROVE Parity(n) = (n = 0 \/ (n % 2 = 0) = Parity(n \div 2))
  <2>1. Parity(n) <=> (n = 0 \/ ((n % 2 = 0) <=> Parity(n \div 2)))
    BY ParityHalves
  <2>2. Parity(n) \in BOOLEAN /\ Parity(n \div 2) \in BOOLEAN
    BY DEF Parity
  <2> QED BY <2>1, <2>2, Zenon
<1>2. ASSUME NEW n \in Byte PROVE parity[n \div 2] = Parity(n \div 2)
  BY OnesHalves
<1>3. ASSUME NEW n \in Byte PROVE Parity(n) = (n = 0 \/ (n % 2 = 0) = parity[n \div 2])
  BY <1>1, <1>2, Zenon
<1>4. Recurses(parity)
  BY <1>3, Zenon
<1>5. EvenOnes = CHOOSE f : Recurses(f)
  BY Zenon DEF EvenOnes
<1> HIDE DEF parity
<1>6. Recurses(CHOOSE f : Recurses(f))
  BY <1>4, Zenon
<1> QED BY <1>5, <1>6, Zenon

\* The parity the code counts is the one the laws define by halving.
LEMMA EvenOnesParity == \A n \in Byte : EvenOnes[n] = Parity(n)
<1> DEFINE Right(n) == EvenOnes[n] = Parity(n)
<1>1. ASSUME NEW n \in Byte, n = 0 \/ Right(n \div 2) PROVE Right(n)
  <2>1. EvenOnes[n] = (n = 0 \/ (n % 2 = 0) = EvenOnes[n \div 2])
    BY EvenOnesIs, Zenon
  <2>2. Parity(n) <=> ((n % 2 = 0) <=> Parity(n \div 2))
    BY ParityHalves
  <2>3. Parity(0)
    BY ParityHalves
  <2>4. Parity(n) \in BOOLEAN /\ Parity(n \div 2) \in BOOLEAN
    BY DEF Parity
  <2>5. CASE n = 0
    BY <2>1, <2>3, <2>5, Zenon DEF Parity
  <2>6. CASE n # 0
    <3>1. EvenOnes[n \div 2] = Parity(n \div 2)
      BY <1>1, <2>6
    <3> QED BY <2>1, <2>2, <2>4, <2>6, <3>1, Zenon
  <2> QED BY <2>5, <2>6
<1> HIDE DEF Right
<1>2. \A n \in Byte : n \in 0 .. 255 /\ n \div 2 \in Byte
  BY OnesHalves DEF Byte
<1>3. \A n \in 0 .. 1 : Right(n)
  BY <1>1 DEF Byte
<1>4. \A n \in 0 .. 3 : Right(n)
  BY <1>1, <1>3 DEF Byte
<1>5. \A n \in 0 .. 7 : Right(n)
  BY <1>1, <1>4 DEF Byte
<1>6. \A n \in 0 .. 15 : Right(n)
  BY <1>1, <1>5 DEF Byte
<1>7. \A n \in 0 .. 31 : Right(n)
  BY <1>1, <1>6 DEF Byte
<1>8. \A n \in 0 .. 63 : Right(n)
  BY <1>1, <1>7 DEF Byte
<1>9. \A n \in 0 .. 127 : Right(n)
  BY <1>1, <1>8 DEF Byte
<1>10. \A n \in 0 .. 255 : Right(n)
  BY <1>1, <1>9 DEF Byte
<1> QED BY <1>10 DEF Right, Byte

-----------------------------------------------------------------------------
(* What the operations yield.                                              *)

\* The flags of a result describe it, and leave the carries as they were.
LEMMA ResultDescribes ==
  ASSUME NEW st \in Status, NEW val \in Byte
  PROVE  /\ Describes([val |-> val, status |-> ResultFlags(st, val)])
         /\ ResultFlags(st, val) \in Status
         /\ Bit(ResultFlags(st, val), CarryFlag) = Bit(st, CarryFlag)
         /\ Test(ResultFlags(st, val), AuxCarryFlag) = Test(st, AuxCarryFlag)
<1> DEFINE st1 == Put(st, ZeroFlag, val = 0)
           sign == Test(val, 7)
           st2 == Put(st1, SignFlag, sign)
           even == Parity(val)
           st3 == Put(st2, ParityFlag, even)
           r == [val |-> val, status |-> st3]
<1>1. /\ ZeroFlag \in Flag /\ SignFlag \in Flag /\ ParityFlag \in Flag
      /\ CarryFlag \in Flag /\ AuxCarryFlag \in Flag
      /\ SignFlag # ZeroFlag /\ ParityFlag # ZeroFlag /\ ParityFlag # SignFlag
  BY DEF Flag, CarryFlag, AuxCarryFlag, ZeroFlag, SignFlag, ParityFlag
<1>2. ResultFlags(st, val) = st3
  BY DEF ResultFlags
<1>3. (val = 0) \in BOOLEAN /\ sign \in BOOLEAN /\ even \in BOOLEAN
  BY DEF Test, Parity
<1> HIDE DEF sign, even
<1>4. st1 \in Status /\ Test(st1, ZeroFlag) = (val = 0)
  BY <1>1, <1>3, PutTyped, PutSets, Zenon
<1> HIDE DEF st1
<1>5. st2 \in Status /\ Test(st2, SignFlag) = sign
  BY <1>1, <1>3, <1>4, PutTyped, PutSets, Zenon
<1>6. Test(st2, ZeroFlag) = (val = 0)
  <2>1. Test(st2, ZeroFlag) = Test(st1, ZeroFlag)
    BY <1>1, <1>4, PutKeeps
  <2> QED BY <1>4, <2>1, Zenon
<1> HIDE DEF st2
<1>7. st3 \in Status /\ Test(st3, ParityFlag) = even
  BY <1>1, <1>3, <1>5, PutTyped, PutSets, Zenon
<1>8. Test(st3, ZeroFlag) = (val = 0) /\ Test(st3, SignFlag) = sign
  <2>1. Test(st3, ZeroFlag) = Test(st2, ZeroFlag) /\ Test(st3, SignFlag) = Test(st2, SignFlag)
    BY <1>1, <1>5, PutKeeps
  <2> QED BY <1>5, <1>6, <2>1, Zenon
<1>9. sign = (val >= 128)
  <2>1. val \in Int /\ val \in 0 .. 255
    BY DEF Byte
  <2>2. (val \div 128) % 2 = 1 <=> val >= 128
    BY <2>1
  <2>3. Bit(val, 7) = (val \div 128) % 2
    BY <2>1, BitsAre
  <2>4. (Bit(val, 7) = 1) = (val >= 128)
    BY <2>2, <2>3
  <2> QED BY <2>4, Zenon DEF Test, sign
<1>11. even = EvenOnes[val]
  BY EvenOnesParity, Zenon DEF even
<1> HIDE DEF st3
<1>12. Canonical(st3)
  BY <1>7 DEF Status
<1>13. r.val = val /\ r.status = st3
  OBVIOUS
<1>14. Describes(r)
  BY <1>7, <1>8, <1>9, <1>11, <1>12, <1>13, Zenon DEF Describes
<1>15. /\ Test(st3, CarryFlag) = Test(st, CarryFlag)
       /\ Test(st3, AuxCarryFlag) = Test(st, AuxCarryFlag)
  BY <1>2, ResultFlagsKeep
<1>16. Bit(st3, CarryFlag) = Bit(st, CarryFlag)
  <2>1. Bit(st3, CarryFlag) \in {0, 1} /\ Bit(st, CarryFlag) \in {0, 1}
    BY <1>7, BitTyped DEF Status, CarryFlag
  <2> QED BY <1>15, <2>1 DEF Test
<1> QED BY <1>2, <1>7, <1>14, <1>15, <1>16

\* Addition: the sum modulo 256, the carry of the byte and that of its low digit.
Added(r, st, lhs, rhs, carry, setCarry) ==
  /\ r = [val |-> r.val, status |-> r.status]
  /\ Describes(r) /\ r.val \in Byte /\ r.status \in Status
  /\ r.val = (lhs + rhs + carry) % 256
  /\ setCarry => Carry(r.status) = Num(lhs + rhs + carry > 255)
  /\ ~setCarry => Carry(r.status) = Carry(st)
  /\ Test(r.status, AuxCarryFlag) = ((lhs % 16) + (rhs % 16) + carry > 15)

LEMMA AddIs ==
  ASSUME NEW st \in Status, NEW lhs \in Byte, NEW rhs \in Byte, NEW carry \in {0, 1},
         NEW setCarry \in BOOLEAN
  PROVE  Added(Add(st, lhs, rhs, carry, setCarry), st, lhs, rhs, carry, setCarry)
<1> DEFINE val == (lhs + rhs + carry) % 256
           over == lhs + rhs + carry > 255
           half == (lhs % 16) + (rhs % 16) + carry > 15
           st1 == IF setCarry THEN Put(st, CarryFlag, over) ELSE st
           st2 == Put(st1, AuxCarryFlag, half)
           r == Add(st, lhs, rhs, carry, setCarry)
<1>1. r = [val |-> val, status |-> ResultFlags(st2, val)]
  BY DEF Add
<1>2. val \in Byte /\ over \in BOOLEAN /\ half \in BOOLEAN
  BY DEF Byte
<1>3. CarryFlag \in Flag /\ AuxCarryFlag \in Flag /\ AuxCarryFlag # CarryFlag
  BY DEF Flag, CarryFlag, AuxCarryFlag, ZeroFlag, SignFlag, ParityFlag
<1> HIDE DEF val, over, half, r
<1>4. /\ st1 \in Status
      /\ setCarry => Bit(st1, CarryFlag) = Num(over)
      /\ ~setCarry => Bit(st1, CarryFlag) = Bit(st, CarryFlag)
  <2>1. Put(st, CarryFlag, over) \in Status
    BY <1>3, PutTyped
  <2>2. Bit(Put(st, CarryFlag, over), CarryFlag) = Num(over)
    BY <1>2, <1>3, PutSets, Zenon
  <2>3. CASE setCarry
    BY <2>1, <2>2, <2>3, Zenon
  <2>4. CASE ~setCarry
    BY <2>4, Zenon
  <2> QED BY <2>3, <2>4
<1> HIDE DEF st1
<1>5. st2 \in Status
  BY <1>3, <1>4, PutTyped
<1>6. Test(st2, AuxCarryFlag) = half
  BY <1>2, <1>3, <1>4, PutSets, Zenon
<1>7. Bit(st2, CarryFlag) = Bit(st1, CarryFlag)
  <2>1. Test(st2, CarryFlag) = Test(st1, CarryFlag)
    BY <1>3, <1>4, PutKeeps
  <2>2. Bit(st2, CarryFlag) \in {0, 1} /\ Bit(st1, CarryFlag) \in {0, 1}
    BY <1>4, <1>5, BitTyped DEF Status, CarryFlag
  <2> QED BY <2>1, <2>2 DEF Test
<1> HIDE DEF st2
<1> DEFINE st3 == ResultFlags(st2, val)
<1>8. /\ Describes([val |-> val, status |-> st3]) /\ st3 \in Status
      /\ Bit(st3, CarryFlag) = Bit(st2, CarryFlag)
      /\ Test(st3, AuxCarryFlag) = Test(st2, AuxCarryFlag)
  BY <1>2, <1>5, ResultDescribes, Zenon
<1> HIDE DEF st3
<1>9. r = [val |-> val, status |-> st3]
  BY <1>1 DEF st3
<1>10. r.val = val /\ r.status = st3 /\ r = [val |-> r.val, status |-> r.status]
  BY <1>9
<1>11. /\ setCarry => Carry(r.status) = Num(over)
       /\ ~setCarry => Carry(r.status) = Carry(st)
  BY <1>4, <1>7, <1>8, <1>10, Zenon DEF Carry
<1>12. Test(r.status, AuxCarryFlag) = half
  BY <1>6, <1>8, <1>10, Zenon
<1>13. Added(r, st, lhs, rhs, carry, setCarry)
  BY <1>2, <1>8, <1>9, <1>10, <1>11, <1>12, Zenon DEF Added, val, over, half
<1> QED BY <1>13 DEF r

\* Subtraction: the difference modulo 256, the borrow of the byte, and whether
\* the low digit needed none.
Subtracted(r, st, a, b, borrow) ==
  /\ r = [val |-> r.val, status |-> r.status]
  /\ Describes(r) /\ r.val \in Byte /\ r.status \in Status
  /\ r.val = (a - b - borrow + 256) % 256
  /\ Carry(r.status) = Num(a < b + borrow)
  /\ Test(r.status, AuxCarryFlag) = (a % 16 >= (b % 16) + borrow)

LEMMA SubIs ==
  ASSUME NEW st \in Status, NEW a \in Byte, NEW b \in Byte, NEW borrow \in {0, 1}
  PROVE  Subtracted(Sub(st, a, b, borrow), st, a, b, borrow)
<1> DEFINE rhs == 255 - b
           c == 1 - borrow
           set == TRUE
           sum == Add(st, a, rhs, c, set)
           below == ~Test(sum.status, CarryFlag)
           r == Sub(st, a, b, borrow)
<1>1. rhs \in Byte /\ c \in {0, 1} /\ set \in BOOLEAN /\ set
  BY DEF Byte
<1>2. /\ a + rhs + c = a - b - borrow + 256
      /\ a + rhs + c > 255 <=> ~(a < b + borrow)
      /\ ((a % 16) + (rhs % 16) + c > 15) = (a % 16 >= (b % 16) + borrow)
  BY DEF Byte
<1>3. r = [sum EXCEPT !.status = Put(@, CarryFlag, below)]
  BY DEF Sub
<1> HIDE DEF rhs, c, set, below, r
<1>4. /\ sum = [val |-> sum.val, status |-> sum.status]
      /\ Describes(sum) /\ sum.val \in Byte /\ sum.status \in Status
      /\ sum.val = (a + rhs + c) % 256
      /\ Carry(sum.status) = Num(a + rhs + c > 255)
      /\ Test(sum.status, AuxCarryFlag) = ((a % 16) + (rhs % 16) + c > 15)
  <2>1. Added(sum, st, a, rhs, c, set)
    BY <1>1, AddIs
  <2> HIDE DEF sum
  <2> QED BY <1>1, <2>1, Zenon DEF Added
<1> DEFINE st1 == Put(sum.status, CarryFlag, below)
<1>5. CarryFlag \in Flag /\ \A i \in Flag \ {CarryFlag} : i \in Flag /\ CarryFlag # i
  BY DEF Flag
<1>6. below \in BOOLEAN
  BY DEF below
<1>7. st1 \in Status
  BY <1>4, <1>5, PutTyped
<1>8. Bit(st1, CarryFlag) = Num(below)
  BY <1>4, <1>5, <1>6, PutSets, ZenonT(40)
<1>9. ASSUME NEW i \in Flag \ {CarryFlag} PROVE Test(st1, i) = Test(sum.status, i)
  <2> DEFINE before == sum.status
  <2>1. i \in Flag /\ CarryFlag # i /\ before \in Status /\ CarryFlag \in Flag
    BY <1>4, <1>5
  <2> HIDE DEF before
  <2>2. Test(Put(before, CarryFlag, below), i) = Test(before, i)
    BY <2>1, PutKeeps
  <2> QED BY <2>2 DEF before
<1> HIDE DEF sum, st1
<1>10. r = [val |-> sum.val, status |-> st1]
  BY <1>3, <1>4 DEF st1
<1>11. r.val = sum.val /\ r.status = st1 /\ r = [val |-> r.val, status |-> r.status]
  BY <1>10
<1>12. /\ ZeroFlag \in Flag \ {CarryFlag} /\ SignFlag \in Flag \ {CarryFlag}
       /\ ParityFlag \in Flag \ {CarryFlag} /\ AuxCarryFlag \in Flag \ {CarryFlag}
  BY DEF Flag, CarryFlag, AuxCarryFlag, ZeroFlag, SignFlag, ParityFlag
<1>13. Describes(r)
  <2>1. Canonical(st1)
    BY <1>7 DEF Status
  <2> QED BY <1>4, <1>9, <1>11, <1>12, <2>1, Zenon DEF Describes
<1>14. below <=> a < b + borrow
  BY <1>2, <1>4 DEF below, Test, Carry, Num
<1>15. Num(below) = Num(a < b + borrow)
  BY <1>14 DEF Num
<1>16. Test(r.status, AuxCarryFlag) = (a % 16 >= (b % 16) + borrow)
  BY <1>2, <1>4, <1>9, <1>11, <1>12, Zenon
<1>17. Subtracted(r, st, a, b, borrow)
  BY <1>2, <1>4, <1>7, <1>8, <1>11, <1>13, <1>15, <1>16, Zenon DEF Carry, Subtracted
<1> QED BY <1>17 DEF r

\* The carry is a bit.
LEMMA CarryTyped ==
  ASSUME NEW st \in Status
  PROVE  Carry(st) \in {0, 1} /\ (Test(st, CarryFlag) <=> Carry(st) = 1)
BY BitTyped DEF Carry, Test, Status, CarryFlag

-----------------------------------------------------------------------------
(* The laws.                                                               *)

\* ADD, ADC, SUB, SBB and CMP.
LEMMA Sums == Typed => SumsRight
<1> SUFFICES ASSUME Typed, NEW c \in {0, Carry(status)}
             PROVE  LET sum == Add(status, x, y, c, TRUE)
                        diff == Sub(status, x, y, c)
                    IN /\ Describes(sum) /\ Describes(diff)
                       /\ sum.val = IF x + y + c < 256 THEN x + y + c ELSE x + y + c - 256
                       /\ Test(sum.status, CarryFlag) = (x + y + c >= 256)
                       /\ Test(sum.status, AuxCarryFlag) = ((x % 16) + (y % 16) + c >= 16)
                       /\ diff.val = IF x - y - c >= 0 THEN x - y - c ELSE x - y - c + 256
                       /\ Test(diff.status, CarryFlag) = (x < y + c)
                       /\ Test(diff.status, AuxCarryFlag) = (x % 16 >= (y % 16) + c)
  BY DEF SumsRight
<1> DEFINE set == TRUE
           sum == Add(status, x, y, c, set)
           diff == Sub(status, x, y, c)
<1>1. /\ x \in Byte /\ y \in Byte /\ status \in Status /\ c \in {0, 1}
      /\ set \in BOOLEAN /\ set
  BY CarryTyped DEF Typed
<1>2. sum = Add(status, x, y, c, TRUE)
  OBVIOUS
<1> HIDE DEF set
<1>3. Added(sum, status, x, y, c, set) /\ Subtracted(diff, status, x, y, c)
  BY <1>1, AddIs, SubIs
<1> HIDE DEF sum, diff
<1>4. /\ Describes(sum) /\ sum.status \in Status
      /\ sum.val = (x + y + c) % 256
      /\ Carry(sum.status) = Num(x + y + c > 255)
      /\ Test(sum.status, AuxCarryFlag) = ((x % 16) + (y % 16) + c > 15)
  BY <1>1, <1>3, Zenon DEF Added
<1>5. /\ Describes(diff) /\ diff.status \in Status
      /\ diff.val = (x - y - c + 256) % 256
      /\ Carry(diff.status) = Num(x < y + c)
      /\ Test(diff.status, AuxCarryFlag) = (x % 16 >= (y % 16) + c)
  BY <1>3, Zenon DEF Subtracted
<1>6. sum.val = IF x + y + c < 256 THEN x + y + c ELSE x + y + c - 256
  BY <1>1, <1>4 DEF Byte
<1>7. diff.val = IF x - y - c >= 0 THEN x - y - c ELSE x - y - c + 256
  BY <1>1, <1>5 DEF Byte
<1>8. (Bit(sum.status, CarryFlag) = 1) = (x + y + c >= 256)
  BY <1>1, <1>4 DEF Num, Byte, Carry
<1>9. (Bit(diff.status, CarryFlag) = 1) = (x < y + c)
  BY <1>1, <1>5 DEF Num, Byte, Carry
<1>10. ((x % 16) + (y % 16) + c > 15) = ((x % 16) + (y % 16) + c >= 16)
  BY <1>1 DEF Byte
<1>11. /\ Test(sum.status, CarryFlag) = (x + y + c >= 256)
       /\ Test(diff.status, CarryFlag) = (x < y + c)
  BY <1>8, <1>9, Zenon DEF Test
<1> QED BY <1>4, <1>5, <1>6, <1>7, <1>10, <1>11, Zenon DEF sum, diff, set

\* For every status register, carry in and pair of bytes, sums and differences
\* are those of the integers, and the carries say where they left byte and digit.
THEOREM SumsAreRight == Spec => []SumsRight
BY AlwaysTyped, Sums, PTL

\* INR and DCR.
LEMMA Counters == Typed => CountersRight
<1> SUFFICES ASSUME Typed PROVE CountersRight
  OBVIOUS
<1> DEFINE clear == FALSE
           up == Inr(status, x)
           down == Dcr(up.status, up.val)
<1>1. /\ x \in Byte /\ 1 \in Byte /\ 255 \in Byte /\ status \in Status /\ 0 \in {0, 1}
      /\ clear \in BOOLEAN /\ ~clear
  BY DEF Typed, Byte
<1>2. up = Add(status, x, 1, 0, clear) /\ down = Add(up.status, up.val, 255, 0, clear)
  BY DEF Inr, Dcr
<1> HIDE DEF clear, up, down
<1>3. Added(up, status, x, 1, 0, clear)
  BY <1>1, <1>2, AddIs
<1>4. /\ Describes(up) /\ up.status \in Status /\ up.val \in Byte
      /\ up.val = (x + 1 + 0) % 256 /\ Carry(up.status) = Carry(status)
  BY <1>1, <1>3, Zenon DEF Added
<1>5. Added(down, up.status, up.val, 255, 0, clear)
  BY <1>1, <1>2, <1>4, AddIs
<1>6. /\ Describes(down) /\ down.val = (up.val + 255 + 0) % 256
      /\ Carry(down.status) = Carry(up.status)
  BY <1>1, <1>5, Zenon DEF Added
<1>7. up.val = IF x = 255 THEN 0 ELSE x + 1
  BY <1>1, <1>4, SMTT(30) DEF Byte
<1>8. down.val = x
  BY <1>1, <1>6, <1>7 DEF Byte
<1> QED BY <1>4, <1>6, <1>7, <1>8, Zenon DEF CountersRight, up, down

\* For every status register and byte, INR and DCR undo each other and leave
\* the carry alone.
THEOREM CountersAreRight == Spec => []CountersRight
BY AlwaysTyped, Counters, PTL

\* Putting the carry replaces the lowest bit.
LEMMA PutCarry ==
  ASSUME NEW st \in Int, NEW b \in BOOLEAN
  PROVE  /\ Put(st, CarryFlag, b) \in Int
         /\ Carry(Put(st, CarryFlag, b)) = Num(b)
         /\ Put(st, CarryFlag, b) - Num(b) = st - Carry(st)
<1> DEFINE n == Num(b)
           put == Put(st, CarryFlag, b)
<1>1. CarryFlag = 0
  BY DEF CarryFlag
<1>2. 2^CarryFlag = 1
  BY <1>1, PowersOf
<1>3. Bit(st, CarryFlag) = st % 2
  BY <1>1, BitsAre
<1>4. n \in {0, 1}
  BY DEF Num
<1>5. put = st + (n - Bit(st, CarryFlag)) * 2^CarryFlag
  BY Zenon DEF Put
<1> HIDE DEF n, put
<1>6. put = st + (n - (st % 2)) * 1
  BY <1>2, <1>3, <1>5
<1>7. put \in Int /\ put % 2 = n /\ put - n = st - (st % 2)
  BY <1>4, <1>6
<1>8. Carry(put) = n
  BY <1>1, <1>7, BitsAre DEF Carry
<1>9. put - n = st - Carry(st)
  BY <1>3, <1>7 DEF Carry
<1> QED BY <1>7, <1>8, <1>9, Zenon DEF put, n

\* RLC, RRC, RAL and RAR.
LEMMA Rotations == Typed => RotationsRight
<1> SUFFICES ASSUME Typed PROVE RotationsRight
  OBVIOUS
<1> DEFINE c == Carry(status)
           high == (x \div 128) % 2
           left == Ral(status, x)
           back == Rar(left.status, left.val)
           rlc == Rlc(status, x)
           round == Rrc(rlc.status, rlc.val)
<1>1. x \in 0 .. 255 /\ x \in Int /\ status \in Int /\ c \in {0, 1}
  BY CarryTyped DEF Typed, Status, Byte
<1>2. \A n \in Int : Test(n, 7) \in BOOLEAN /\ Test(n, 0) \in BOOLEAN
  BY DEF Test
<1>3. ASSUME NEW n \in Int
      PROVE  Num(Test(n, 7)) = (n \div 128) % 2 /\ Num(Test(n, 0)) = n % 2
  <2>1. Bit(n, 0) = n % 2 /\ Bit(n, 7) = (n \div 128) % 2
    BY BitsAre
  <2>2. n % 2 \in {0, 1} /\ (n \div 128) % 2 \in {0, 1}
    OBVIOUS
  <2> QED BY <2>1, <2>2 DEF Num, Test
<1>4. high \in {0, 1}
  BY <1>1
<1> DEFINE bit == Test(x, 7)
<1>5. left.val = ((2 * x) % 256) + c /\ left.status = Put(status, CarryFlag, bit)
  BY DEF Ral, Rotated, Carry
<1>6. bit \in BOOLEAN /\ Num(bit) = high
  BY <1>1, <1>2, <1>3
<1> HIDE DEF bit, high
<1>7. left.status \in Int /\ Carry(left.status) = high /\ left.status - high = status - c
  BY <1>1, <1>5, <1>6, PutCarry
<1>8. rlc.val = ((2 * x) % 256) + high /\ rlc.status \in Int /\ Carry(rlc.status) = high
  <2>1. rlc.val = ((2 * x) % 256) + Bit(x, 7) /\ rlc.status = Put(status, CarryFlag, bit)
    BY DEF Rlc, Rotated, bit
  <2>2. Bit(x, 7) = high
    BY <1>1, BitsAre DEF high
  <2> QED BY <1>1, <1>6, <2>1, <2>2, PutCarry
<1> HIDE DEF left, rlc, c
<1>9. left.val \in 0 .. 255 /\ rlc.val \in 0 .. 255
  BY <1>1, <1>4, <1>5, <1>8
<1>10. 256 * high + left.val = ((2 * (256 * c + x)) % 512) + (2 * (256 * c + x)) \div 512
  BY <1>1, <1>5 DEF high
<1>11. back = [val |-> x, status |-> status]
  <2> DEFINE low == Test(left.val, 0)
  <2>1. back = [val |-> left.val \div 2 + 128 * Carry(left.status),
                status |-> Put(left.status, CarryFlag, low)]
    BY DEF Rar, Rotated, Carry
  <2>2. left.val \in Int /\ left.val % 2 = c /\ left.val \div 2 = x % 128
    BY <1>1, <1>5, <1>9
  <2>3. low \in BOOLEAN /\ Num(low) = c
    BY <1>2, <1>3, <2>2
  <2> HIDE DEF low, back
  <2>4. Put(left.status, CarryFlag, low) \in Int
        /\ Put(left.status, CarryFlag, low) - Num(low) = left.status - Carry(left.status)
    BY <1>7, <2>3, PutCarry
  <2>5. Put(left.status, CarryFlag, low) = status
    BY <1>1, <1>7, <2>3, <2>4
  <2>6. (x % 128) + 128 * high = x
    BY <1>1 DEF high
  <2> QED BY <1>7, <2>1, <2>2, <2>5, <2>6
<1>12. round.val = x /\ Carry(round.status) = Bit(rlc.val, 0)
  <2> DEFINE low == Test(rlc.val, 0)
  <2>1. round = [val |-> rlc.val \div 2 + 128 * Bit(rlc.val, 0),
                 status |-> Put(rlc.status, CarryFlag, low)]
    BY DEF Rrc, Rotated
  <2>2. rlc.val \in Int /\ rlc.val % 2 = high /\ rlc.val \div 2 = x % 128
    BY <1>1, <1>4, <1>8, <1>9
  <2>3. Bit(rlc.val, 0) = high /\ low \in BOOLEAN /\ Num(low) = high
    BY <1>2, <1>3, <2>2, BitsAre
  <2> HIDE DEF low, round
  <2>4. Carry(Put(rlc.status, CarryFlag, low)) = Num(low)
    BY <1>8, <2>3, PutCarry
  <2>5. (x % 128) + 128 * high = x
    BY <1>1 DEF high
  <2> QED BY <2>1, <2>2, <2>3, <2>4, <2>5
<1>13. rlc.val = (2 * x) % 255 \/ x = 255
  BY <1>1, <1>8 DEF high
<1>14. left.status - Carry(left.status) = status - c
  BY <1>7
<1>15. 256 * Carry(left.status) + left.val
         = ((2 * (256 * c + x)) % 512) + (2 * (256 * c + x)) \div 512
  BY <1>7, <1>10
<1> HIDE DEF back, round
<1> QED
  BY <1>11, <1>12, <1>13, <1>14, <1>15, Zenon
     DEF RotationsRight, c, left, back, rlc, round

\* For every status register and byte the rotations turn nine and eight bits,
\* each pair is inverse, and no flag but the carry moves.
THEOREM RotationsAreRight == Spec => []RotationsRight
BY AlwaysTyped, Rotations, PTL

\* INX, DCX and DAD.
LEMMA Pairs == Typed => PairsRight
<1> SUFFICES ASSUME Typed PROVE PairsRight
  OBVIOUS
<1> DEFINE word == Uint16(x, y)
<1>1. /\ x \in 0 .. 255 /\ y \in 0 .. 255 /\ x \in Int /\ y \in Int
      /\ word = 256 * x + y /\ word \in Int /\ status \in Int
  BY DEF Typed, Uint16, Status, Byte
<1>2. 0 <= word /\ word <= 65535
  BY <1>1
<1>3. Hi(word) = x /\ Low(word) = y
  BY <1>1 DEF Hi, Low
<1> HIDE DEF word
<1>4. Inx(word) = IF word = 65535 THEN 0 ELSE word + 1
  BY <1>1, <1>2 DEF Inx
<1>5. Dcx(word) = IF word = 0 THEN 65535 ELSE word - 1
  BY <1>1, <1>2 DEF Dcx
<1>6. Dcx(Inx(word)) = word
  BY <1>1, <1>2, <1>4 DEF Dcx
<1>7. Inx(Dcx(word)) = word
  BY <1>1, <1>2, <1>5 DEF Inx
<1>8. ASSUME NEW other \in Words
      PROVE  /\ Dad(status, word, other).val + 65536 * Carry(Dad(status, word, other).status)
                  = word + other
             /\ Dad(status, word, other).status - Carry(Dad(status, word, other).status)
                  = status - Carry(status)
  <2> DEFINE sum == Dad(status, word, other)
             over == word + other > 65535
             st == Put(status, CarryFlag, over)
  <2>1. other \in Int /\ 0 <= other /\ other <= 65535
    BY LawsAssumption, WordIs
  <2>2. sum = [val |-> (word + other) % 65536, status |-> st]
    BY DEF Dad
  <2> DEFINE n == Num(over)
  <2>3. over \in BOOLEAN /\ n = (word + other) \div 65536 /\ n \in {0, 1}
    BY <1>1, <1>2, <2>1 DEF Num
  <2> HIDE DEF over
  <2>4. st \in Int /\ Carry(st) = n /\ st - n = status - Carry(status)
    BY <1>1, <2>3, PutCarry
  <2> HIDE DEF sum, st, n
  <2>5. /\ sum.val = (word + other) % 65536 /\ sum.status = st
        /\ Carry(sum.status) = n
    BY <2>2, <2>4
  <2>6. ((word + other) % 65536) + 65536 * ((word + other) \div 65536) = word + other
    BY <1>1, <2>1
  <2>7. sum.val + 65536 * Carry(sum.status) = word + other
    BY <2>3, <2>4, <2>5, <2>6
  <2>8. sum.status - Carry(sum.status) = status - Carry(status)
    BY <2>4, <2>5
  <2>9. sum = Dad(status, word, other)
    BY DEF sum
  <2> QED BY <2>7, <2>8, <2>9
<1>9. word = Uint16(x, y)
  BY DEF word
<1> QED BY <1>3, <1>4, <1>6, <1>7, <1>8, <1>9 DEF PairsRight

\* For every status register and pair of words register pairs wrap at 16 bits,
\* and DAD carries out of bit 15 and moves no other flag.
THEOREM PairsAreRight == Spec => []PairsRight
BY AlwaysTyped, Pairs, PTL

-----------------------------------------------------------------------------
(* Bitwise operations.                                                     *)

\* A byte is the sum of its binary digits.
LEMMA ByteIsBits ==
  ASSUME NEW n \in Byte
  PROVE  /\ n = Bit(n, 0) + 2 * Bit(n, 1) + 4 * Bit(n, 2) + 8 * Bit(n, 3)
                 + 16 * Bit(n, 4) + 32 * Bit(n, 5) + 64 * Bit(n, 6) + 128 * Bit(n, 7)
         /\ \A i \in 0 .. 7 : Bit(255 - n, i) = 1 - Bit(n, i)
         /\ Bit(n, 3) = 1 <=> n % 16 >= 8
<1> DEFINE m == 255 - n
<1>1. n \in 0 .. 255 /\ n \in Int /\ m \in Int
  BY DEF Byte
<1>2. /\ Bit(n, 0) = n % 2 /\ Bit(n, 1) = (n \div 2) % 2
      /\ Bit(n, 2) = (n \div 4) % 2 /\ Bit(n, 3) = (n \div 8) % 2
      /\ Bit(n, 4) = (n \div 16) % 2 /\ Bit(n, 5) = (n \div 32) % 2
      /\ Bit(n, 6) = (n \div 64) % 2 /\ Bit(n, 7) = (n \div 128) % 2
  BY <1>1, BitsAre
<1>3. /\ Bit(m, 0) = m % 2 /\ Bit(m, 1) = (m \div 2) % 2
      /\ Bit(m, 2) = (m \div 4) % 2 /\ Bit(m, 3) = (m \div 8) % 2
      /\ Bit(m, 4) = (m \div 16) % 2 /\ Bit(m, 5) = (m \div 32) % 2
      /\ Bit(m, 6) = (m \div 64) % 2 /\ Bit(m, 7) = (m \div 128) % 2
  BY <1>1, BitsAre
<1>4. /\ m % 2 = 1 - (n % 2) /\ (m \div 2) % 2 = 1 - ((n \div 2) % 2)
      /\ (m \div 4) % 2 = 1 - ((n \div 4) % 2) /\ (m \div 8) % 2 = 1 - ((n \div 8) % 2)
      /\ (m \div 16) % 2 = 1 - ((n \div 16) % 2) /\ (m \div 32) % 2 = 1 - ((n \div 32) % 2)
      /\ (m \div 64) % 2 = 1 - ((n \div 64) % 2)
      /\ (m \div 128) % 2 = 1 - ((n \div 128) % 2)
  BY <1>1
<1>5. /\ n = (n % 2) + 2 * (n \div 2)
      /\ n \div 2 = ((n \div 2) % 2) + 2 * (n \div 4)
      /\ n \div 4 = ((n \div 4) % 2) + 2 * (n \div 8)
      /\ n \div 8 = ((n \div 8) % 2) + 2 * (n \div 16)
      /\ n \div 16 = ((n \div 16) % 2) + 2 * (n \div 32)
      /\ n \div 32 = ((n \div 32) % 2) + 2 * (n \div 64)
      /\ n \div 64 = ((n \div 64) % 2) + 2 * (n \div 128)
      /\ n \div 128 = (n \div 128) % 2
  BY <1>1
<1>6. (n \div 8) % 2 = 1 <=> n % 16 >= 8
  BY <1>1
<1> HIDE DEF m
<1>7. n = Bit(n, 0) + 2 * Bit(n, 1) + 4 * Bit(n, 2) + 8 * Bit(n, 3)
            + 16 * Bit(n, 4) + 32 * Bit(n, 5) + 64 * Bit(n, 6) + 128 * Bit(n, 7)
  BY <1>1, <1>2, <1>5
<1>8. ASSUME NEW i \in 0 .. 7 PROVE Bit(m, i) = 1 - Bit(n, i)
  <2>1. i = 0 \/ i = 1 \/ i = 2 \/ i = 3 \/ i = 4 \/ i = 5 \/ i = 6 \/ i = 7
    OBVIOUS
  <2> QED BY <1>1, <1>2, <1>3, <1>4, <2>1
<1> QED BY <1>2, <1>6, <1>7, <1>8 DEF m

\* A logical operation: the result, no carry, and the auxiliary carry it asks for.
Logical(r, val, aux) ==
  /\ Describes(r) /\ r.val = val /\ Carry(r.status) = 0
  /\ Test(r.status, AuxCarryFlag) = aux

LEMMA LogicIs ==
  ASSUME NEW st \in Status, NEW val \in Byte, NEW aux \in BOOLEAN
  PROVE  Logical(Logic(st, val, aux), val, aux)
<1> DEFINE clear == FALSE
           st1 == Put(st, CarryFlag, clear)
           st2 == Put(st1, AuxCarryFlag, aux)
           st3 == ResultFlags(st2, val)
           r == Logic(st, val, aux)
<1>1. r = [val |-> val, status |-> st3]
  BY DEF Logic
<1>2. CarryFlag \in Flag /\ AuxCarryFlag \in Flag /\ AuxCarryFlag # CarryFlag
  BY DEF Flag, CarryFlag, AuxCarryFlag, ZeroFlag, SignFlag, ParityFlag
<1>3. clear \in BOOLEAN /\ Num(clear) = 0
  BY DEF Num
<1> HIDE DEF clear, r
<1>4. st1 \in Status /\ Bit(st1, CarryFlag) = 0
  <2>1. st1 \in Status
    BY <1>2, PutTyped
  <2>2. Bit(st1, CarryFlag) = Num(clear)
    BY <1>2, <1>3, PutSets, Zenon
  <2> QED BY <1>3, <2>1, <2>2, Zenon
<1> HIDE DEF st1
<1>5. st2 \in Status
  BY <1>2, <1>4, PutTyped
<1>6. Test(st2, AuxCarryFlag) = aux
  BY <1>2, <1>4, PutSets, Zenon
<1>7. Bit(st2, CarryFlag) = 0
  <2>1. Test(st2, CarryFlag) = Test(st1, CarryFlag)
    BY <1>2, <1>4, PutKeeps
  <2>2. Bit(st2, CarryFlag) \in {0, 1}
    BY <1>5, BitTyped DEF Status, CarryFlag
  <2> QED BY <1>4, <2>1, <2>2 DEF Test
<1> HIDE DEF st2
<1>8. /\ Describes([val |-> val, status |-> st3])
      /\ Bit(st3, CarryFlag) = Bit(st2, CarryFlag)
      /\ Test(st3, AuxCarryFlag) = Test(st2, AuxCarryFlag)
  BY <1>5, ResultDescribes, Zenon
<1> HIDE DEF st3
<1>9. r.val = val /\ r.status = st3
  BY <1>1
<1>10. Logical(r, val, aux)
  BY <1>1, <1>6, <1>7, <1>8, <1>9, Zenon DEF Logical, Carry
<1> QED BY <1>10 DEF r

\* Digits that add up bit by bit add up.
LEMMA DigitsAdd ==
  ASSUME NEW f \in [0 .. 7 -> {0, 1}], NEW g \in [0 .. 7 -> {0, 1}],
         NEW h \in [0 .. 7 -> 0 .. 2], \A i \in 0 .. 7 : f[i] + g[i] = h[i]
  PROVE  FromBits(f) + FromBits(g) = FromBits(h)
<1>1. \A i \in 0 .. 7 : f[i] \in Int /\ g[i] \in Int /\ h[i] \in Int
  OBVIOUS
<1>2. /\ f[0] + g[0] = h[0] /\ f[1] + g[1] = h[1] /\ f[2] + g[2] = h[2] /\ f[3] + g[3] = h[3]
      /\ f[4] + g[4] = h[4] /\ f[5] + g[5] = h[5] /\ f[6] + g[6] = h[6] /\ f[7] + g[7] = h[7]
  OBVIOUS
<1> QED BY <1>1, <1>2 DEF FromBits

\* The binary digits of n.
Digits(n) == [i \in 0 .. 7 |-> Bit(n, i)]

\* Taking a byte apart and putting it together.
LEMMA FromDigits ==
  ASSUME NEW n \in Byte
  PROVE  FromBits(Digits(n)) = n /\ Digits(n) \in [0 .. 7 -> {0, 1}]
<1>1. FromBits(Digits(n))
        = Bit(n, 0) + 2 * Bit(n, 1) + 4 * Bit(n, 2) + 8 * Bit(n, 3)
            + 16 * Bit(n, 4) + 32 * Bit(n, 5) + 64 * Bit(n, 6) + 128 * Bit(n, 7)
  BY DEF FromBits, Digits
<1>2. Digits(n) \in [0 .. 7 -> {0, 1}]
  BY BitTyped DEF Digits
<1> QED BY <1>1, <1>2, ByteIsBits

\* What the bitwise operations make of two bytes.
AndBits(a, b) == [i \in 0 .. 7 |-> Bit(a, i) * Bit(b, i)]
OrBits(a, b) == [i \in 0 .. 7 |-> Num(Test(a, i) \/ Test(b, i))]
XorBits(a, b) == [i \in 0 .. 7 |-> (Bit(a, i) + Bit(b, i)) % 2]

LEMMA BitwiseIs ==
  ASSUME NEW a \in Byte, NEW b \in Byte
  PROVE  /\ FromBits(AndBits(a, b)) + FromBits(OrBits(a, b)) = a + b
         /\ FromBits(XorBits(a, b)) + FromBits(AndBits(a, b)) = FromBits(OrBits(a, b))
         /\ FromBits(AndBits(a, b)) + FromBits(AndBits(a, 255 - b)) = a
         /\ FromBits(AndBits(a, b)) \in Byte /\ FromBits(OrBits(a, b)) \in Byte
         /\ FromBits(XorBits(a, b)) \in Byte /\ FromBits(AndBits(a, 255 - b)) \in Byte
<1> DEFINE and == AndBits(a, b)
           or == OrBits(a, b)
           xor == XorBits(a, b)
           rest == AndBits(a, 255 - b)
           both == [i \in 0 .. 7 |-> Bit(a, i) + Bit(b, i)]
<1>1. ASSUME NEW i \in 0 .. 7
      PROVE  /\ and[i] \in {0, 1} /\ or[i] \in {0, 1}
             /\ xor[i] \in {0, 1} /\ rest[i] \in {0, 1}
             /\ and[i] + or[i] = both[i] /\ both[i] = Bit(a, i) + Bit(b, i)
             /\ both[i] \in 0 .. 2
             /\ xor[i] + and[i] = or[i]
             /\ and[i] + rest[i] = Bit(a, i)
  <2> DEFINE p == Bit(a, i)
             q == Bit(b, i)
  <2>1. p \in {0, 1} /\ q \in {0, 1} /\ Bit(255 - b, i) = 1 - q
    BY BitTyped, ByteIsBits
  <2>2. Num(Test(a, i) \/ Test(b, i)) = IF p = 1 \/ q = 1 THEN 1 ELSE 0
    BY DEF Num, Test
  <2> HIDE DEF p, q
  <2>3. /\ and[i] = p * q /\ or[i] = (IF p = 1 \/ q = 1 THEN 1 ELSE 0)
        /\ xor[i] = (p + q) % 2 /\ rest[i] = p * (1 - q) /\ both[i] = p + q
    BY <2>1, <2>2 DEF p, q, AndBits, OrBits, XorBits
  <2> HIDE DEF both, and, or, xor, rest
  <2>4. CASE p = 0 /\ q = 0
    BY <2>3, <2>4 DEF p, q
  <2>5. CASE p = 0 /\ q = 1
    BY <2>3, <2>5 DEF p, q
  <2>6. CASE p = 1 /\ q = 0
    BY <2>3, <2>6 DEF p, q
  <2>7. CASE p = 1 /\ q = 1
    BY <2>3, <2>7 DEF p, q
  <2> QED BY <2>1, <2>4, <2>5, <2>6, <2>7
<1>2. /\ and \in [0 .. 7 -> {0, 1}] /\ or \in [0 .. 7 -> {0, 1}] /\ xor \in [0 .. 7 -> {0, 1}]
      /\ rest \in [0 .. 7 -> {0, 1}] /\ both \in [0 .. 7 -> 0 .. 2]
  BY <1>1 DEF AndBits, OrBits, XorBits
<1> HIDE DEF both, and, or, xor, rest
<1>3. FromBits(and) + FromBits(or) = FromBits(both)
  BY <1>1, <1>2, DigitsAdd
<1>4. FromBits(xor) + FromBits(and) = FromBits(or)
  <2>1. or \in [0 .. 7 -> 0 .. 2]
    BY <1>2
  <2> QED BY <1>1, <1>2, <2>1, DigitsAdd
<1>5. FromBits(both) = FromBits(Digits(a)) + FromBits(Digits(b))
  <2>1. \A i \in 0 .. 7 : Digits(a)[i] + Digits(b)[i] = both[i]
    BY <1>1 DEF Digits
  <2> QED BY <1>2, <2>1, FromDigits, DigitsAdd
<1>6. FromBits(and) + FromBits(rest) = FromBits(Digits(a))
  <2>1. \A i \in 0 .. 7 : and[i] + rest[i] = Digits(a)[i]
    BY <1>1 DEF Digits
  <2>2. Digits(a) \in [0 .. 7 -> 0 .. 2]
    BY FromDigits
  <2> QED BY <1>2, <2>1, <2>2, DigitsAdd
<1>7. /\ FromBits(and) \in Byte /\ FromBits(or) \in Byte /\ FromBits(xor) \in Byte
      /\ FromBits(rest) \in Byte
  BY <1>1, FromBitsTyped
<1> QED BY <1>3, <1>4, <1>5, <1>6, <1>7, FromDigits DEF and, or, xor, rest

\* ANA, XRA and ORA.
LEMMA Logics == Typed => LogicRight
<1> SUFFICES ASSUME Typed PROVE LogicRight
  OBVIOUS
<1> DEFINE clear == FALSE
           other == 255 - y
           ands == FromBits(AndBits(x, y))
           ors == FromBits(OrBits(x, y))
           xors == FromBits(XorBits(x, y))
           rests == FromBits(AndBits(x, other))
           half == Test(x, 3) \/ Test(y, 3)
           restHalf == Test(x, 3) \/ Test(other, 3)
           and == Ana(status, x, y)
           or == Ora(status, x, y)
           xor == Xra(status, x, y)
           rest == Ana(status, x, other)
<1>1. /\ x \in Byte /\ y \in Byte /\ status \in Status
      /\ clear \in BOOLEAN /\ ~clear
      /\ half \in BOOLEAN /\ restHalf \in BOOLEAN /\ Cma(y) = other
  BY DEF Typed, Test, Cma
<1>2. /\ ands + ors = x + y
      /\ xors + ands = ors
      /\ ands + rests = x
      /\ ands \in Byte /\ ors \in Byte /\ xors \in Byte
      /\ rests \in Byte
  BY <1>1, BitwiseIs
<1>3. /\ and = Logic(status, ands, half)
      /\ or = Logic(status, ors, clear)
      /\ xor = Logic(status, xors, clear)
      /\ rest = Logic(status, rests, restHalf)
  BY DEF Ana, Ora, Xra, AndBits, OrBits, XorBits
<1>4. half = ((x % 16) >= 8 \/ (y % 16) >= 8)
  <2>1. half <=> ((x % 16) >= 8 \/ (y % 16) >= 8)
    BY <1>1, ByteIsBits DEF Test
  <2> QED BY <1>1, <2>1
<1> HIDE DEF clear, other, ands, ors, xors, rests, half, restHalf, and, or, xor, rest
<1>5. /\ Logical(and, ands, half) /\ Logical(or, ors, clear)
      /\ Logical(xor, xors, clear) /\ Logical(rest, rests, restHalf)
  BY <1>1, <1>2, <1>3, LogicIs
<1>6. /\ Describes(and) /\ Describes(or) /\ Describes(xor)
      /\ and.val = ands /\ or.val = ors /\ xor.val = xors
      /\ rest.val = rests
      /\ Carry(and.status) = 0 /\ Carry(or.status) = 0 /\ Carry(xor.status) = 0
      /\ Test(and.status, AuxCarryFlag) = half
      /\ Test(or.status, AuxCarryFlag) = clear /\ Test(xor.status, AuxCarryFlag) = clear
  BY <1>5, Zenon DEF Logical
<1>7. and.val + or.val = x + y /\ and.val + rest.val = x
  BY <1>2, <1>6, Zenon
<1>8. xor.val = or.val - and.val
  <2>1. xors = ors - ands
    BY <1>2 DEF Byte
  <2> QED BY <1>6, <2>1, Zenon
<1>9. /\ ~Test(or.status, AuxCarryFlag) /\ ~Test(xor.status, AuxCarryFlag)
      /\ Test(and.status, AuxCarryFlag) = ((x % 16) >= 8 \/ (y % 16) >= 8)
  BY <1>1, <1>4, <1>6, Zenon
<1>10. rest = Ana(status, x, Cma(y))
  BY <1>1, Zenon DEF rest
<1>11. \A r \in {and, or, xor} : Carry(r.status) = 0
  BY <1>6, Zenon
<1> QED
  BY <1>6, <1>7, <1>8, <1>9, <1>10, <1>11, Zenon DEF LogicRight, and, or, xor

\* For every status register and pair of bytes AND and OR split the sum, XOR is
\* their difference, and only AND sets the auxiliary carry.
THEOREM LogicIsRight == Spec => []LogicRight
BY AlwaysTyped, Logics, PTL

-----------------------------------------------------------------------------
(* Decimal arithmetic.                                                     *)

\* The decimal byte of n, the hundred in the carry.
Adjusted(r, n) == Describes(r) /\ r.val = Bcd(n % 100) /\ Carry(r.status) = n \div 100

\* DAA turns a binary sum of decimal digits, t tens and l ones, into decimal: the
\* carry and the auxiliary carry tell what the byte and its low digit cannot hold.
LEMMA DaaAdjusts ==
  ASSUME NEW st \in Status, NEW t \in 0 .. 18, NEW l \in 0 .. 19, NEW a \in Byte,
         a = (16 * t + l) % 256,
         Carry(st) = Num(16 * t + l > 255),
         Test(st, AuxCarryFlag) = (l > 15)
  PROVE  Adjusted(Daa(st, a), 10 * t + l)
<1> DEFINE tens == IF l > 9 THEN t + 1 ELSE t
           ones == IF l > 9 THEN l - 10 ELSE l
           low == IF a % 16 > 9 \/ Test(st, AuxCarryFlag) THEN 6 ELSE 0
           high == \/ a \div 16 > 9
                   \/ Test(st, CarryFlag)
                   \/ a \div 16 >= 9 /\ a % 16 > 9
           set == TRUE
           clear == FALSE
           st1 == IF high THEN Put(st, CarryFlag, set) ELSE st
           rhs == low + (IF high THEN 96 ELSE 0)
           r == Daa(st, a)
<1>1. t \in Int /\ l \in Int /\ 0 <= t /\ t <= 18 /\ 0 <= l /\ l <= 19
  OBVIOUS
<1>2. /\ 10 * t + l = 10 * tens + ones
      /\ 16 * t + l + (IF l > 9 THEN 6 ELSE 0) = 16 * tens + ones
      /\ tens \in 0 .. 19 /\ ones \in 0 .. 9
  BY <1>1
<1>3. a % 16 = l % 16 /\ a \div 16 = (t + l \div 16) % 16
  BY <1>1
<1>4. low = IF l > 9 THEN 6 ELSE 0
  <2>1. a % 16 > 9 \/ l > 15 <=> l > 9
    BY <1>1, <1>3
  <2> QED BY <2>1
<1>5. Test(st, CarryFlag) <=> t + l \div 16 > 15
  <2>1. Test(st, CarryFlag) <=> 16 * t + l > 255
    BY CarryTyped DEF Num
  <2> QED BY <1>1, <2>1
<1>6. high <=> tens > 9
  BY <1>1, <1>3, <1>5
<1>7. /\ set \in BOOLEAN /\ Num(set) = 1 /\ clear \in BOOLEAN /\ ~clear
      /\ 0 \in {0, 1} /\ CarryFlag \in Flag
  BY DEF Num, Flag
<1>8. r = Add(st1, a, rhs, 0, clear)
  BY DEF Daa
<1> HIDE DEF low, set, clear, r
<1>9. rhs = (IF l > 9 THEN 6 ELSE 0) + (IF tens > 9 THEN 96 ELSE 0)
  <2> HIDE DEF high, tens
  <2> QED BY <1>4, <1>6
<1>10. st1 \in Status /\ Carry(st1) = IF tens > 9 THEN 1 ELSE 0
  <2>1. CASE tens > 9
    <3>1. Put(st, CarryFlag, set) \in Status
      BY <1>7, PutTyped
    <3>2. Bit(Put(st, CarryFlag, set), CarryFlag) = Num(set)
      BY <1>7, PutSets, Zenon
    <3>3. st1 = Put(st, CarryFlag, set)
      BY <1>6, <2>1, Zenon
    <3> HIDE DEF st1, tens
    <3> QED BY <1>7, <2>1, <3>1, <3>2, <3>3 DEF Carry
  <2>2. CASE ~(tens > 9)
    <3>1. st1 = st
      BY <1>6, <2>2, Zenon
    <3>2. ~Test(st, CarryFlag)
      BY <1>6, <2>2
    <3>3. Carry(st) = 0
      BY <3>2, CarryTyped
    <3> HIDE DEF st1, tens
    <3> QED BY <2>2, <3>1, <3>3
  <2> QED BY <2>1, <2>2
<1> HIDE DEF high, st1, tens, ones, rhs
<1>11. rhs \in Byte
  BY <1>9 DEF Byte
<1>12. Added(r, st1, a, rhs, 0, clear)
  BY <1>7, <1>8, <1>10, <1>11, AddIs
<1>13. Describes(r) /\ r.val = (a + rhs + 0) % 256 /\ Carry(r.status) = Carry(st1)
  BY <1>7, <1>12, Zenon DEF Added
<1> DEFINE digit == IF tens > 9 THEN tens - 10 ELSE tens
           n == 10 * t + l
<1>14. /\ digit \in 0 .. 9 /\ n % 100 = 10 * digit + ones
       /\ n \div 100 = IF tens > 9 THEN 1 ELSE 0
  BY <1>2
<1>15. Bcd(n % 100) = 16 * digit + ones
  <2> DEFINE m == n % 100
  <2>1. m = 10 * digit + ones
    BY <1>14
  <2> HIDE DEF m, digit
  <2>2. m \div 10 = digit /\ m % 10 = ones
    BY <1>2, <1>14, <2>1
  <2> QED BY <2>2 DEF Bcd, m
<1>16. (a + rhs + 0) % 256 = 16 * digit + ones
  <2> DEFINE raw == 16 * t + l
             fix == IF l > 9 THEN 6 ELSE 0
  <2>1. raw \in Int /\ a = raw % 256 /\ raw + fix = 16 * tens + ones /\ fix \in Int
    BY <1>1, <1>2
  <2>2. rhs = fix + (IF tens > 9 THEN 96 ELSE 0)
    BY <1>9
  <2> HIDE DEF raw, fix
  <2>3. (a + rhs + 0) % 256 = (raw + rhs) % 256
    BY <1>11, <2>1 DEF Byte
  <2>4. raw + rhs = 16 * tens + ones + (IF tens > 9 THEN 96 ELSE 0)
    BY <1>2, <2>1, <2>2
  <2> QED BY <1>2, <2>3, <2>4
<1>17. Adjusted(r, n)
  BY <1>10, <1>13, <1>14, <1>15, <1>16, ZenonT(40) DEF Adjusted
<1> QED BY <1>17 DEF r

\* The two digits of a decimal byte.
LEMMA BcdIs ==
  ASSUME NEW n \in Byte, n < 100
  PROVE  /\ Bcd(n) \in Byte /\ Bcd(n) <= 153
         /\ Bcd(n) = 16 * (n \div 10) + (n % 10) /\ Bcd(n) % 16 = n % 10
         /\ n \div 10 \in 0 .. 9 /\ n % 10 \in 0 .. 9
         /\ n = 10 * (n \div 10) + (n % 10)
BY DEF Bcd, Byte

\* DAA after an addition and after the ten's complement sequence.
LEMMA Decimals == Typed => DecimalRight
<1> SUFFICES ASSUME Typed, x < 100, y < 100
             PROVE  DecimalRight
  BY Zenon DEF DecimalRight
<1> DEFINE c == Carry(status)
           set == TRUE
           px == Bcd(x)
           py == Bcd(y)
           sum == Add(status, px, py, c, set)
           decimal == Daa(sum.status, sum.val)
           nines == Add(status, 153, 0, c, set)
           complement == Sub(nines.status, nines.val, py, 0)
           raw == Add(complement.status, complement.val, px, 0, set)
           rest == Daa(raw.status, raw.val)
           xt == x \div 10
           xl == x % 10
           yt == y \div 10
           yl == y % 10
<1>1. /\ x \in Byte /\ y \in Byte /\ x \in Int /\ y \in Int
      /\ status \in Status /\ c \in {0, 1} /\ set \in BOOLEAN /\ set /\ 153 \in Byte /\ 0 \in Byte /\ 0 \in {0, 1}
  BY CarryTyped DEF Typed, Byte
<1>2. /\ status \in Status /\ c \in {0, 1} /\ set \in BOOLEAN
      /\ px \in Byte /\ py \in Byte /\ 153 \in Byte /\ 0 \in Byte
  BY <1>1, BcdIs
<1>3. /\ px \in Byte /\ px <= 153 /\ px = 16 * xt + xl /\ px % 16 = xl
      /\ xt \in 0 .. 9 /\ xl \in 0 .. 9 /\ x = 10 * xt + xl
      /\ py \in Byte /\ py <= 153 /\ py = 16 * yt + yl /\ py % 16 = yl
      /\ yt \in 0 .. 9 /\ yl \in 0 .. 9 /\ y = 10 * yt + yl
  BY <1>1, BcdIs
<1>4. /\ sum = Add(status, px, py, c, set) /\ nines = Add(status, 153, 0, c, set)
      /\ complement = Sub(nines.status, nines.val, py, 0)
      /\ raw = Add(complement.status, complement.val, px, 0, set)
  OBVIOUS
<1> HIDE DEF c, set, px, py, sum, nines, complement, raw, xt, xl, yt, yl
<1>5. Adjusted(decimal, x + y + c)
  <2> DEFINE t == xt + yt
             l == xl + yl + c
             st == sum.status
             a == sum.val
  <2>1. Added(sum, status, px, py, c, set)
    <3>1. Added(Add(status, px, py, c, set), status, px, py, c, set)
      BY <1>2, AddIs
    <3> QED BY <1>4, <3>1, Zenon
  <2>2. /\ st \in Status /\ a \in Byte /\ a = (px + py + c) % 256
        /\ Carry(st) = Num(px + py + c > 255)
        /\ Test(st, AuxCarryFlag) = ((px % 16) + (py % 16) + c > 15)
    BY <1>1, <2>1, Zenon DEF Added
  <2>3. /\ t \in 0 .. 18 /\ l \in 0 .. 19 /\ 16 * t + l = px + py + c
        /\ l = (px % 16) + (py % 16) + c /\ 10 * t + l = x + y + c
    BY <1>1, <1>3
  <2> HIDE DEF t, l, st, a
  <2>4. /\ a = (16 * t + l) % 256 /\ Carry(st) = Num(16 * t + l > 255)
        /\ Test(st, AuxCarryFlag) = (l > 15)
    BY <2>2, <2>3, Zenon
  <2>5. Adjusted(Daa(st, a), 10 * t + l)
    BY <2>2, <2>3, <2>4, DaaAdjusts, Zenon
  <2> QED BY <2>3, <2>5, Zenon DEF st, a
<1>6. Adjusted(rest, x + 99 + c - y)
  <2> DEFINE t == xt + 9 - yt
             l == xl + 9 - yl + c
             st == raw.status
             a == raw.val
             b == complement.val
  <2>1. Added(nines, status, 153, 0, c, set)
    <3>1. Added(Add(status, 153, 0, c, set), status, 153, 0, c, set)
      BY <1>2, AddIs
    <3> QED BY <1>4, <3>1, Zenon
  <2>2. nines.status \in Status /\ nines.val \in Byte /\ nines.val = (153 + 0 + c) % 256
    BY <2>1, Zenon DEF Added
  <2>3. nines.val = 153 + c
    BY <1>1, <2>2
  <2>4. Subtracted(complement, nines.status, nines.val, py, 0)
    <3> DEFINE s == nines.status
               n == nines.val
    <3> HIDE DEF s, n
    <3>1. s \in Status /\ n \in Byte
      BY <2>2, Zenon DEF s, n
    <3>2. Subtracted(Sub(s, n, py, 0), s, n, py, 0)
      BY <1>1, <1>3, <3>1, SubIs
    <3> QED BY <1>4, <3>2, Zenon DEF s, n
  <2>5. /\ complement.status \in Status /\ b \in Byte
        /\ b = (nines.val - py - 0 + 256) % 256
    BY <2>4, Zenon DEF Subtracted
  <2> DEFINE top == nines.val
  <2>6. b = 153 + c - py
    <3>1. b = (top - py - 0 + 256) % 256 /\ top = 153 + c
      BY <2>3, <2>5
    <3> HIDE DEF b, top
    <3>2. py \in Int /\ 0 <= py /\ py <= 153
      BY <1>3 DEF Byte
    <3> QED BY <1>1, <3>1, <3>2
  <2> HIDE DEF b
  <2>7. Added(raw, complement.status, b, px, 0, set)
    <3> DEFINE s == complement.status
    <3> HIDE DEF s
    <3>1. s \in Status /\ b \in Byte
      BY <2>5, Zenon DEF s
    <3>2. Added(Add(s, b, px, 0, set), s, b, px, 0, set)
      BY <1>1, <1>3, <3>1, AddIs
    <3>3. raw = Add(s, b, px, 0, set)
      BY <1>4, Zenon DEF s, b
    <3> QED BY <3>2, <3>3, Zenon DEF s
  <2>8. /\ st \in Status /\ a \in Byte /\ a = (b + px + 0) % 256
        /\ Carry(st) = Num(b + px + 0 > 255)
        /\ Test(st, AuxCarryFlag) = ((b % 16) + (px % 16) + 0 > 15)
    BY <1>1, <2>7, Zenon DEF Added
  <2>9. b % 16 = 9 - yl + c
    BY <1>1, <1>3, <2>6
  <2>10. /\ t \in 0 .. 18 /\ l \in 0 .. 19 /\ 16 * t + l = b + px + 0
         /\ l = (b % 16) + (px % 16) + 0 /\ 10 * t + l = x + 99 + c - y
    BY <1>1, <1>3, <2>6, <2>9
  <2> HIDE DEF t, l, st, a
  <2>11. /\ a = (16 * t + l) % 256 /\ Carry(st) = Num(16 * t + l > 255)
         /\ Test(st, AuxCarryFlag) = (l > 15)
    BY <2>8, <2>10, Zenon
  <2>12. Adjusted(Daa(st, a), 10 * t + l)
    BY <2>8, <2>10, <2>11, DaaAdjusts, Zenon
  <2> QED BY <2>10, <2>12, Zenon DEF st, a
<1> HIDE DEF decimal, rest
<1>7. /\ Describes(decimal) /\ Describes(rest)
      /\ decimal.val = Bcd((x + y + c) % 100)
      /\ Carry(decimal.status) = (x + y + c) \div 100
      /\ rest.val = Bcd((x + 99 + c - y) % 100)
      /\ Carry(rest.status) = (x + 99 + c - y) \div 100
  BY <1>5, <1>6, Zenon DEF Adjusted
<1> QED
  BY <1>7, Zenon
     DEF DecimalRight, c, set, px, py, sum, decimal, nines, complement, raw, rest

\* For every status register and pair of decimal bytes, DAA after ADC adds them
\* and after the ten's complement sequence subtracts them, the carry being the
\* hundred.
THEOREM DecimalIsRight == Spec => []DecimalRight
BY AlwaysTyped, Decimals, PTL
=============================================================================
