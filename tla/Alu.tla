-------------------------------- MODULE Alu --------------------------------
(***************************************************************************)
(* src/Cpu/source/8080.cpp: the arithmetic and logic of the Intel 8080, as *)
(* functions of the operands and the status register.  A register is a     *)
(* byte, a register pair a word; the status register is a byte of which    *)
(* bits 0, 2, 4, 6 and 7 are flags (8080.h:102-107).  Every operation that *)
(* sets flags yields the record [val, status].                             *)
(***************************************************************************)
EXTENDS Integers

Byte == 0 .. 255
Word == 0 .. 65535

CarryFlag == 0
ParityFlag == 2
AuxCarryFlag == 4
ZeroFlag == 6
SignFlag == 7
Flag == {CarryFlag, ParityFlag, AuxCarryFlag, ZeroFlag, SignFlag}

Bit(x, i) == (x \div 2^i) % 2
Test(x, i) == Bit(x, i) = 1
Num(b) == IF b THEN 1 ELSE 0
Put(x, i, b) == x + (Num(b) - Bit(x, i)) * 2^i

\* Bits 1, 3 and 5 of the status register are constant: S Z 0 AC 0 P 1 C.
Canonical(st) == Test(st, 1) /\ ~Test(st, 3) /\ ~Test(st, 5)
Status == {st \in Byte : Canonical(st)}

\* The byte whose i-th bit is bit[i].
FromBits(bit) ==
  bit[0] + 2 * bit[1] + 4 * bit[2] + 8 * bit[3]
    + 16 * bit[4] + 32 * bit[5] + 64 * bit[6] + 128 * bit[7]

Uint16(hi, low) == 256 * hi + low
Hi(word) == word \div 256
Low(word) == word % 256

Ones(x) == Bit(x, 0) + Bit(x, 1) + Bit(x, 2) + Bit(x, 3)
             + Bit(x, 4) + Bit(x, 5) + Bit(x, 6) + Bit(x, 7)
Parity(x) == Ones(x) % 2 = 0

ResultFlags(status, val) ==
  Put(Put(Put(status, ZeroFlag, val = 0), SignFlag, Test(val, 7)),
      ParityFlag, Parity(val))

-----------------------------------------------------------------------------
\* Mutant: the carry in does not reach the auxiliary carry.
AddNoHalfCarryIn(status, lhs, rhs, carry, setCarry) ==
  LET sum == lhs + rhs + carry
      st == IF setCarry THEN Put(status, CarryFlag, sum > 255) ELSE status
      val == sum % 256
  IN [val |-> val,
      status |-> ResultFlags(Put(st, AuxCarryFlag, (lhs % 16) + (rhs % 16) > 15), val)]

\* Mutant: INR and DCR set the carry too.
AddAlwaysCarry(status, lhs, rhs, carry, setCarry) ==
  LET sum == lhs + rhs + carry
      st == Put(status, CarryFlag, sum > 255)
      val == sum % 256
  IN [val |-> val,
      status |-> ResultFlags(Put(st, AuxCarryFlag,
                                 (lhs % 16) + (rhs % 16) + carry > 15), val)]

Add(status, lhs, rhs, carry, setCarry) ==
  LET sum == lhs + rhs + carry
      st == IF setCarry THEN Put(status, CarryFlag, sum > 255) ELSE status
      val == sum % 256
  IN [val |-> val,
      status |-> ResultFlags(Put(st, AuxCarryFlag,
                                 (lhs % 16) + (rhs % 16) + carry > 15), val)]

\* Subtraction adds the complement, and the carry then means no borrow.
Sub(status, a, r, borrow) ==
  LET sum == Add(status, a, 255 - r, 1 - borrow, TRUE)
  IN [sum EXCEPT !.status = Put(@, CarryFlag, ~Test(@, CarryFlag))]

Inr(status, r) == Add(status, r, 1, 0, FALSE)
Dcr(status, r) == Add(status, r, 255, 0, FALSE)

Logic(status, val, aux) ==
  [val |-> val,
   status |-> ResultFlags(Put(Put(status, CarryFlag, FALSE), AuxCarryFlag, aux),
                          val)]

\* Mutant: ANA clears the auxiliary carry like XRA and ORA.
AnaClearsAux(status, a, r) ==
  Logic(status, FromBits([i \in 0 .. 7 |-> Bit(a, i) * Bit(r, i)]), FALSE)

Ana(status, a, r) ==
  Logic(status, FromBits([i \in 0 .. 7 |-> Bit(a, i) * Bit(r, i)]),
        Test(a, 3) \/ Test(r, 3))
Xra(status, a, r) ==
  Logic(status, FromBits([i \in 0 .. 7 |-> (Bit(a, i) + Bit(r, i)) % 2]), FALSE)
Ora(status, a, r) ==
  Logic(status,
        FromBits([i \in 0 .. 7 |-> Num(Test(a, i) \/ Test(r, i))]), FALSE)

\* Rotations touch the carry only.
Rotated(status, val, carry) ==
  [val |-> val, status |-> Put(status, CarryFlag, carry)]

Rlc(status, a) == Rotated(status, ((2 * a) % 256) + Bit(a, 7), Test(a, 7))
Rrc(status, a) == Rotated(status, a \div 2 + 128 * Bit(a, 0), Test(a, 0))
Ral(status, a) ==
  Rotated(status, ((2 * a) % 256) + Bit(status, CarryFlag), Test(a, 7))

\* Mutant: RAR rotates bit 0 in, as RRC does.
RarNoCarryIn(status, a) ==
  Rotated(status, a \div 2 + 128 * Bit(a, 0), Test(a, 0))

Rar(status, a) ==
  Rotated(status, a \div 2 + 128 * Bit(status, CarryFlag), Test(a, 0))

\* Mutant: the carry does not force the high digit's adjustment.
DaaNoCarry(status, a) ==
  LET low == IF a % 16 > 9 \/ Test(status, AuxCarryFlag) THEN 6 ELSE 0
      high == a \div 16 > 9 \/ (a \div 16 >= 9 /\ a % 16 > 9)
      st == IF high THEN Put(status, CarryFlag, TRUE) ELSE status
  IN Add(st, a, low + (IF high THEN 96 ELSE 0), 0, FALSE)

Daa(status, a) ==
  LET low == IF a % 16 > 9 \/ Test(status, AuxCarryFlag) THEN 6 ELSE 0
      high == \/ a \div 16 > 9
              \/ Test(status, CarryFlag)
              \/ a \div 16 >= 9 /\ a % 16 > 9
      st == IF high THEN Put(status, CarryFlag, TRUE) ELSE status
  IN Add(st, a, low + (IF high THEN 96 ELSE 0), 0, FALSE)

Cma(a) == 255 - a

\* Mutant: the increment does not carry into the high byte.
InxLow(word) == Uint16(Hi(word), (Low(word) + 1) % 256)

Inx(word) == (word + 1) % 65536
Dcx(word) == (word + 65535) % 65536

Dad(status, hl, word) ==
  [val |-> (hl + word) % 65536,
   status |-> Put(status, CarryFlag, hl + word > 65535)]
=============================================================================
