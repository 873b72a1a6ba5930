------------------------------ MODULE Snapshot ------------------------------
(***************************************************************************)
(* What a save state holds and what a load restores (Machine.cpp: the rm   *)
(* reader of IMachine::Save and of ISR::Save, and loadMachineState): the   *)
(* ram is gathered block by block through a 16 bit address, the rom is     *)
(* hashed, and a load writes the bytes back in the order of the blocks.    *)
(*                                                                         *)
(* The save states a user hands back are those that were saved; states of  *)
(* another machine, and damaged ones, are refused in Machine.              *)
(***************************************************************************)
EXTENDS Options, FiniteSetsExt

CONSTANTS
  Byte,     \* values of a byte
  Val,      \* values of the registers
  Capacity, \* bytes a vector can hold before push_back throws
  None      \* nothing saved so far

ASSUME CapacityAssumption == Capacity \in Nat

Addr == 0 .. Space - 1

\* What Save returns, and what of a machine a save state is compared with.
SaveState == [cpu : Val, ram : Seq(Byte), rom : Seq(Byte)]
MachineState ==
  [layout : [Regions -> Seq([offset : Addr, size : Addr])],
   mem : [Addr -> Byte], cpu : Val]

ASSUME NoneAssumption == None \notin SaveState \cup MachineState

VARIABLES
  mem,    \* what the memory controller holds
  cpu,    \* the registers, pc and sp
  reader, \* the gathering in progress
  saved,  \* the last save state
  shot    \* the machine when it was saved

vars == <<opts, mem, cpu, reader, saved, shot>>

\* Mutant: the loop increments before it reads.
OpenBefore(region, blocks, ram, rom) ==
  [region |-> region, blocks |-> blocks, ram |-> ram, rom |-> rom,
   addr |-> IF blocks = << >> THEN 0 ELSE blocks[1].offset - 1]

\* The loops over a layout: the region being read, its blocks not yet read
\* to the end, the loop's address, and the two vectors.
Open(region, blocks, ram, rom) ==
  [region |-> region, blocks |-> blocks, ram |-> ram, rom |-> rom,
   addr |-> IF blocks = << >> THEN 0 ELSE blocks[1].offset]

Closed == Open("none", << >>, << >>, << >>)
Reading == reader.region # "none"

Init ==
  /\ opts = DefaultOpts /\ mem \in [Addr -> Byte] /\ cpu \in Val
  /\ reader = Closed /\ saved = None /\ shot = None

Configure(json) ==
  /\ ~Reading
  /\ SetOptions(json)
  /\ UNCHANGED <<mem, cpu, reader, saved, shot>>

\* An instruction, on the thread that otherwise gathers and restores.
Execute(addr, byte) ==
  /\ ~Reading
  /\ mem' = [mem EXCEPT ![addr] = byte] /\ cpu' \in Val
  /\ UNCHANGED <<opts, reader, saved, shot>>

SaveBegin ==
  /\ ~Reading
  /\ reader' = Open("ram", Layout.ram, << >>, << >>)
  /\ UNCHANGED <<opts, mem, cpu, saved, shot>>

\* Mutant: the last address of a block is the one after it.
BeforeInclusive ==
  /\ reader.blocks # << >>
  /\ reader.addr <= Head(reader.blocks).offset + Head(reader.blocks).size

\* The address is a uint16_t, the end of the block an int.
Before ==
  /\ reader.blocks # << >>
  /\ reader.addr < Head(reader.blocks).offset + Head(reader.blocks).size

ReadByte ==
  /\ Before /\ Len(reader[reader.region]) < Capacity
  /\ reader' = [reader EXCEPT ![reader.region] = Append(@, mem[reader.addr]),
                              !.addr = (@ + 1) % Space]
  /\ UNCHANGED <<opts, mem, cpu, saved, shot>>

\* push_back throws: Save passes the exception on, ISR::Save catches it.
OutOfMemory ==
  /\ Before /\ Len(reader[reader.region]) >= Capacity
  /\ reader' = Closed
  /\ UNCHANGED <<opts, mem, cpu, saved, shot>>

\* Mutant: the address goes on where the block before ended.
NextBlockContinues ==
  /\ reader.blocks # << >> /\ ~Before
  /\ reader' = [reader EXCEPT !.blocks = Tail(@)]
  /\ UNCHANGED <<opts, mem, cpu, saved, shot>>

NextBlock ==
  /\ reader.blocks # << >> /\ ~Before
  /\ reader' = Open(reader.region, Tail(reader.blocks), reader.ram, reader.rom)
  /\ UNCHANGED <<opts, mem, cpu, saved, shot>>

NextRegion ==
  /\ reader.region = "ram" /\ reader.blocks = << >>
  /\ reader' = Open("rom", Layout.rom, reader.ram, reader.rom)
  /\ UNCHANGED <<opts, mem, cpu, saved, shot>>

Machine == [layout |-> Layout, mem |-> mem, cpu |-> cpu]

\* The state has the registers, the ram and the md5 of the rom, which stands
\* for its bytes; the flip-flop and the layout are not part of it.
SaveEnd ==
  /\ reader.region = "rom" /\ reader.blocks = << >>
  /\ saved' = [cpu |-> cpu, ram |-> reader.ram, rom |-> reader.rom]
  /\ shot' = Machine /\ reader' = Closed
  /\ UNCHANGED <<opts, mem, cpu>>

\* The loops of a load count in an int, which a controller gets as a uint16_t.
BlockAddresses(block) == [i \in 1 .. block.size |-> (block.offset + i - 1) % Space]
Addresses(blocks) == FlattenSeq([b \in DOMAIN blocks |-> BlockAddresses(blocks[b])])
Contents(memory, blocks) ==
  LET addr == Addresses(blocks) IN [i \in DOMAIN addr |-> memory[addr[i]]]

\* Mutant: the rom is not compared.
CompatibleRam == Len(saved.ram) = Len(Addresses(Layout.ram))

Compatible ==
  /\ saved.rom = Contents(mem, Layout.rom)
  /\ Len(saved.ram) = Len(Addresses(Layout.ram))

\* Mutant: the index starts again with each block.
RestoredPerBlock ==
  [a \in Addr |->
    LET writes == {w \in (DOMAIN Layout.ram) \X (1 .. Space) :
                     w[2] <= Layout.ram[w[1]].size /\ BlockAddresses(Layout.ram[w[1]])[w[2]] = a}
    IN IF writes = {} THEN mem[a] ELSE saved.ram[Max({w[2] : w \in writes})]]

\* Where blocks overlap the last write stays.
Restored ==
  LET addr == Addresses(Layout.ram)
  IN [a \in Addr |->
       LET writes == {i \in DOMAIN addr : addr[i] = a}
       IN IF writes = {} THEN mem[a] ELSE saved.ram[Max(writes)]]

Load ==
  /\ ~Reading /\ saved # None /\ Compatible
  /\ cpu' = saved.cpu /\ mem' = Restored
  /\ UNCHANGED <<opts, reader, saved, shot>>

Save ==
  \/ SaveBegin \/ ReadByte \/ OutOfMemory \/ NextBlock \/ NextRegion \/ SaveEnd

Next ==
  \/ \E json \in Inputs : Configure(json)
  \/ \E addr \in Addr, byte \in Byte : Execute(addr, byte)
  \/ Save
  \/ Load

Spec == Init /\ [][Next]_vars

-----------------------------------------------------------------------------
\* Every variable holds a value of its kind; the reader's address is a word.
TypeOK ==
  /\ DOMAIN opts = DOMAIN DefaultOpts /\ mem \in [Addr -> Byte] /\ cpu \in Val
  /\ reader.region \in {"none", "ram", "rom"} /\ reader.addr \in Addr
  /\ reader.ram \in Seq(Byte) /\ reader.rom \in Seq(Byte)
  /\ saved \in SaveState \cup {None} /\ shot \in MachineState \cup {None}
  /\ (saved = None) = (shot = None)

\* What has been gathered is a part of what the layout names, in its order
\* (the rm reader against the loops of loadMachineState).
GathersLayout ==
  /\ IsPrefix(reader.ram, Contents(mem, Layout.ram))
  /\ IsPrefix(reader.rom, Contents(mem, Layout.rom))

Fits ==
  \A region \in Regions :
    /\ Len(Addresses(Layout[region])) <= Capacity
    /\ \A i \in DOMAIN Layout[region] :
         Layout[region][i].offset + Layout[region][i].size <= Space

\* A save of blocks that lie in the memory ends with the bytes of each of them
\* (README.md:292-295 gives an offset and a size no other limit than a uint16).
SaveReturnsState ==
  [][Reading /\ reader'.region = "none" /\ Fits
       => saved' = [cpu |-> cpu, ram |-> Contents(mem, Layout.ram),
                    rom |-> Contents(mem, Layout.rom)]]_vars

\* What the loop over a region has still to do: read bytes and leave blocks.
LoopLeft ==
  Len(Addresses(Layout[reader.region])) - Len(reader[reader.region]) + Len(reader.blocks)

\* The steps a save has still to take, the change of region and the end included.
StepsLeft ==
  LoopLeft + IF reader.region = "rom" THEN 1
             ELSE 2 + Len(Addresses(Layout.rom)) + Len(Layout.rom)

\* A save takes as many steps as the layout has bytes and blocks, no more: each of
\* its loops ends, unless memory runs out before, and leaves no byte out.
SaveAdvances ==
  [][Reading => /\ StepsLeft \in Nat
                /\ reader'.region = "none" \/ StepsLeft' = StepsLeft - 1]_vars

RamAddresses == ToSet(Addresses(Layout.ram))

\* A state that is loaded into the layout it was saved from brings back the
\* registers and every byte of the ram as they were, also where blocks overlap,
\* beside the rom it was saved with; and no load writes outside the ram.
RoundTrip ==
  [][Load =>
       /\ \A a \in Addr \ RamAddresses : mem'[a] = mem[a]
       /\ Layout = shot.layout =>
            /\ cpu' = shot.cpu
            /\ \A a \in RamAddresses : mem'[a] = shot.mem[a]
            /\ Contents(mem, Layout.rom) = Contents(shot.mem, Layout.rom)]_vars
=============================================================================
