------------------------------ MODULE AluLaws ------------------------------
(***************************************************************************)
(* Alu against the 8080's definition of its operations, for every pair of  *)
(* bytes.  The properties are stated on numbers and on sequences of        *)
(* instructions: they do not go through complements, nibble sums or        *)
(* adjustments.                                                            *)
(***************************************************************************)
EXTENDS Alu

CONSTANTS
  Statuses, \* what the status register holds before
  Words     \* what DAD adds to the pair x, y

ASSUME LawsAssumption == Statuses \subseteq Status /\ Words \subseteq Word

VARIABLES x, y, status

vars == <<x, y, status>>

Init == x \in Byte /\ y = 0 /\ status \in Statuses

\* The next operand, and back to the first.
Next == x' = x /\ status' = status /\ y' = (y + 1) % 256

Spec == Init /\ [][Next]_vars

Carry(st) == Bit(st, CarryFlag)

EvenOnes[n \in Byte] == n = 0 \/ (n % 2 = 0) = EvenOnes[n \div 2]

\* Zero, sign and parity describe the result.
Describes(r) ==
  /\ r.val \in Byte /\ Canonical(r.status)
  /\ Test(r.status, ZeroFlag) = (r.val = 0)
  /\ Test(r.status, SignFlag) = (r.val >= 128)
  /\ Test(r.status, ParityFlag) = EvenOnes[r.val]

\* Sums and differences are those of the integers modulo 256; the carry says
\* that the result left the byte, the auxiliary carry that the low digit did
\* (ADD, ADC, SUB, SBB, CMP and their immediate forms).
SumsRight ==
  \A c \in {0, Carry(status)} :
    LET sum == Add(status, x, y, c, TRUE)
        diff == Sub(status, x, y, c)
    IN /\ Describes(sum) /\ Describes(diff)
       /\ sum.val = IF x + y + c < 256 THEN x + y + c ELSE x + y + c - 256
       /\ Test(sum.status, CarryFlag) = (x + y + c >= 256)
       /\ Test(sum.status, AuxCarryFlag) = ((x % 16) + (y % 16) + c >= 16)
       /\ diff.val = IF x - y - c >= 0 THEN x - y - c ELSE x - y - c + 256
       /\ Test(diff.status, CarryFlag) = (x < y + c)
       /\ Test(diff.status, AuxCarryFlag) = (x % 16 >= (y % 16) + c)

\* INR and DCR undo each other and leave the carry to the code around them,
\* which is how a loop counter lives next to a multi byte addition.
CountersRight ==
  LET up == Inr(status, x)
      down == Dcr(up.status, up.val)
  IN /\ Describes(up) /\ Describes(down)
     /\ up.val = IF x = 255 THEN 0 ELSE x + 1
     /\ down.val = x
     /\ Carry(up.status) = Carry(status) /\ Carry(down.status) = Carry(status)

Bcd(n) == 16 * (n \div 10) + (n % 10)

\* DAA makes binary addition decimal: ADC then DAA adds two decimal bytes and
\* the carry, and the carry out is the hundred.  The ten's complement sequence
\* (MVI A,99H; ACI 0; SUB y; ADD x; DAA) subtracts, its carry meaning that
\* nothing was borrowed.
DecimalRight ==
  x < 100 /\ y < 100 =>
    LET c == Carry(status)
        sum == Add(status, Bcd(x), Bcd(y), c, TRUE)
        decimal == Daa(sum.status, sum.val)
        nines == Add(status, 153, 0, c, TRUE)
        complement == Sub(nines.status, nines.val, Bcd(y), 0)
        raw == Add(complement.status, complement.val, Bcd(x), 0, TRUE)
        rest == Daa(raw.status, raw.val)
    IN /\ Describes(decimal) /\ Describes(rest)
       /\ decimal.val = Bcd((x + y + c) % 100)
       /\ Carry(decimal.status) = (x + y + c) \div 100
       /\ rest.val = Bcd((x + 99 + c - y) % 100)
       /\ Carry(rest.status) = (x + 99 + c - y) \div 100

\* RAL and RAR rotate the nine bits of carry and accumulator, RLC and RRC the
\* eight bits of the accumulator with a copy in the carry; each pair is
\* inverse, and no other flag moves.
RotationsRight ==
  LET left == Ral(status, x)
      back == Rar(left.status, left.val)
      round == Rrc(Rlc(status, x).status, Rlc(status, x).val)
      nine == 2 * (256 * Carry(status) + x)
  IN /\ 256 * Carry(left.status) + left.val = (nine % 512) + nine \div 512
     /\ back = [val |-> x, status |-> status]
     /\ round.val = x
     /\ Carry(round.status) = Bit(Rlc(status, x).val, 0)
     /\ Rlc(status, x).val = (2 * x) % 255 \/ x = 255
     /\ left.status - Carry(left.status) = status - Carry(status)

\* AND and OR split the sum of their operands, XOR is their difference, masks
\* and their complements partition a byte; all clear the carry, and only AND
\* sets the auxiliary carry, from bit 3 of either operand.
LogicRight ==
  LET and == Ana(status, x, y)
      or == Ora(status, x, y)
      xor == Xra(status, x, y)
  IN /\ Describes(and) /\ Describes(or) /\ Describes(xor)
     /\ and.val + or.val = x + y
     /\ xor.val = or.val - and.val
     /\ and.val + Ana(status, x, Cma(y)).val = x
     /\ \A r \in {and, or, xor} : Carry(r.status) = 0
     /\ Test(and.status, AuxCarryFlag) = ((x % 16) >= 8 \/ (y % 16) >= 8)
     /\ ~Test(or.status, AuxCarryFlag) /\ ~Test(xor.status, AuxCarryFlag)

\* Register pairs wrap at 16 bits in both directions; DAD carries out of bit 15
\* and moves no other flag.
PairsRight ==
  LET word == Uint16(x, y)
  IN /\ Hi(word) = x /\ Low(word) = y
     /\ Inx(word) = (IF word = 65535 THEN 0 ELSE word + 1)
     /\ Dcx(Inx(word)) = word /\ Inx(Dcx(word)) = word
     /\ \A other \in Words :
          LET sum == Dad(status, word, other)
          IN /\ sum.val + 65536 * Carry(sum.status) = word + other
             /\ sum.status - Carry(sum.status) = status - Carry(status)
=============================================================================
