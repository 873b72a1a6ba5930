----------------------------- MODULE MCSnapshot -----------------------------
(* Snapshot in an address space of four bytes.                             *)
EXTENDS Snapshot

OneRom == << Block(0, 1) >>

\* One block, blocks that overlap, an empty one, more ram than the capacity of a
\* vector, no blocks, and an offset beyond 16 bits.
Blocked ==
  {[ram |-> << Block(1, 2) >>, rom |-> OneRom],
   [ram |-> << Block(1, 2), Block(2, 0), Block(2, 1) >>],
   [ram |-> << Block(0, 3), Block(1, 2) >>],
   [ram |-> << >>, rom |-> << Block(5, 2) >>]}

OnlyDeprecated ==
  {[ramOffset |-> 2, ramSize |-> 1, romOffset |-> 0, romSize |-> 1],
   [ramSize |-> 1], [romSize |-> 1]}

Refusals == {[isrFreq |-> -1, ram |-> << >>], [cpu |-> 0], Malformed}

MCInputs ==
  Blocked \cup OnlyDeprecated \cup Refusals
    \cup {[ram |-> << Block(2, 1), Block(1, 1) >>, ramSize |-> 1, romSize |-> 2], Null}

\* The ram takes the memory up to its last byte.
MCTopInputs == {[ram |-> << Block(2, 2) >>, rom |-> OneRom]}

\* Bytes and registers are only copied and compared.
Symmetry == Permutations(Byte) \cup Permutations(Val)
=============================================================================
