--------------------------- MODULE SnapshotProofs ---------------------------
(***************************************************************************)
(* Proofs about Snapshot, for every layout: any number of blocks, in any   *)
(* order, empty or overlapping, and any address space and capacity.        *)
(*                                                                         *)
(* The addresses of a layout are concatenated block by block, so the       *)
(* proofs rest on an induction over the number of blocks. It comes from    *)
(* the well-foundedness of the naturals: a set of numbers that is not      *)
(* empty has a least one, so a set that has 0 and is closed under +1 has   *)
(* all of them.                                                            *)
(*                                                                         *)
(* The invariant says where a save in progress stands: in some block k, at *)
(* some offset j into it, with the bytes of the blocks before and of the j *)
(* addresses of this one gathered. It says so only of blocks that end      *)
(* below the last address: where one ends there the 16 bit address wraps   *)
(* and the loop never leaves the block.                                    *)
(***************************************************************************)
EXTENDS Snapshot, TLAPS, SequenceTheorems, WellFoundedInduction

-----------------------------------------------------------------------------
(* The options, for every set of json whose regions and numbers are of the *)
(* right types.                                                            *)

Extent == [offset : Int, size : Int]
WordExtent == [offset : Addr, size : Addr]

\* What the getters read are sequences of numbers of any size.
OptsTyped ==
  /\ DOMAIN opts = {"ram", "rom", "isrFreq"}
  /\ \A region \in Regions : opts[region] \in Seq(Extent)

\* Whatever they are, the loops over the memory get blocks of 16 bit numbers.
LayoutTyped == Layout \in [Regions -> Seq(WordExtent)]

\* Narrowing yields an address.
LEMMA WordIsAddr == ASSUME NEW n \in Int PROVE Word(n) \in Addr
BY OptionsAssumption DEF Word, Addr

LEMMA Single == ASSUME NEW extent \in Extent PROVE << extent >> \in Seq(Extent)
<1> HIDE DEF Extent
<1> QED OBVIOUS

LEMMA ZeroBlock == << Block(0, 0) >> \in Seq(Extent)
<1>1. Block(0, 0) \in Extent
  BY DEF Block, Extent
<1> QED BY <1>1, Single

LEMMA BlocksTyped ==
  ASSUME OptsTyped, NEW region \in Regions
  PROVE  Blocks(opts, region) \in Seq(WordExtent)
<1>1. opts[region] \in Seq(Extent)
  BY DEF OptsTyped
<1>2. \A i \in DOMAIN opts[region] :
        Block(Word(opts[region][i].offset), Word(opts[region][i].size)) \in WordExtent
  <2> SUFFICES ASSUME NEW i \in DOMAIN opts[region]
               PROVE  Block(Word(opts[region][i].offset),
                            Word(opts[region][i].size)) \in WordExtent
    OBVIOUS
  <2>1. opts[region][i] \in Extent
    BY <1>1
  <2> QED BY <2>1, WordIsAddr DEF Extent, WordExtent, Block
<1> QED BY <1>1, <1>2 DEF Blocks

\* Whatever is passed to SetOptions, what is kept has the right types.
LEMMA SetOptionsTyped ==
  ASSUME OptsTyped, NEW json \in Inputs, SetOptions(json)
  PROVE  OptsTyped'
<1>1. CASE Refused(json)
  BY <1>1 DEF SetOptions, After, OptsTyped
<1>2. CASE ~Refused(json)
  <2>1. opts' = Merged(json)
    BY <1>2 DEF SetOptions, After
  <2>2. \A region \in Regions \cap DOMAIN Update(json) :
          Update(json)[region] \in Seq(Extent)
    <3>1. CASE json = Null
      <4>1. Update(json) = DefaultOpts
        BY <3>1 DEF Update
      <4>2. \A region \in Regions : DefaultOpts[region] = << Block(0, 0) >>
        BY DEF DefaultOpts, Regions
      <4> QED BY <4>1, <4>2, ZeroBlock
    <3>2. CASE json # Null /\ Converts(json)
      <4> DEFINE Value(name) == IF name \in DOMAIN json THEN Word(json[name]) ELSE 0
      <4>1. json # Malformed
        BY <1>2 DEF Refused
      <4>2. \A name \in Deprecated : Value(name) \in Int
        BY <3>2, <4>1, OptionsAssumption, WordIsAddr DEF Addr
      <4>3. /\ Block(Value("ramOffset"), Value("ramSize")) \in Extent
            /\ Block(Value("romOffset"),
                     IF "ramSize" \in DOMAIN json THEN Value("romSize") ELSE 0) \in Extent
        BY <4>2 DEF Deprecated, Block, Extent
      <4>4. Update(json) = Converted(json)
        BY <3>2 DEF Update
      <4>5. PICK ram \in Extent, rom \in Extent :
              Converted(json) = [ram |-> << ram >>, rom |-> << rom >>]
        BY <4>3, Zenon DEF Converted
      <4>6. Update(json).ram = << ram >> /\ Update(json).rom = << rom >>
        BY <4>4, <4>5
      <4>7. << ram >> \in Seq(Extent) /\ << rom >> \in Seq(Extent)
        BY Single
      <4> HIDE DEF Value
      <4> QED BY <4>6, <4>7 DEF Regions
    <3>3. CASE json # Null /\ ~Converts(json)
      <4>1. json # Malformed /\ Update(json) = json
        BY <1>2, <3>3 DEF Refused, Update
      <4> QED BY <3>3, <4>1, OptionsAssumption DEF Extent
    <3> QED BY <3>1, <3>2, <3>3
  <2> QED BY <2>1, <2>2 DEF Merged, OptsTyped, Regions
<1> QED BY <1>1, <1>2

LEMMA StepOptsTyped == OptsTyped /\ [Next]_vars => OptsTyped'
<1> SUFFICES ASSUME OptsTyped, [Next]_vars PROVE OptsTyped'
  OBVIOUS
<1>1. ASSUME NEW json \in Inputs, Configure(json) PROVE OptsTyped'
  BY <1>1, SetOptionsTyped DEF Configure
<1>2. CASE opts' = opts
  BY <1>2 DEF OptsTyped
<1>3. ASSUME NEW addr \in Addr, NEW byte \in Byte, Execute(addr, byte) PROVE opts' = opts
  BY <1>3 DEF Execute
<1>4. Save \/ Load \/ UNCHANGED vars => opts' = opts
  BY DEF Save, SaveBegin, ReadByte, OutOfMemory, NextBlock, NextRegion, SaveEnd, Load, vars
<1> QED BY <1>1, <1>2, <1>3, <1>4 DEF Next

\* Whatever json SetOptions gets, the layout that is read afterwards consists of
\* blocks whose offset and size are words (Opt.cpp:63-148, 187-211).
THEOREM OptionsTyped == Spec => [](OptsTyped /\ LayoutTyped)
<1>1. Init => OptsTyped
  BY ZeroBlock DEF Init, OptsTyped, DefaultOpts, Regions
<1>2. OptsTyped => LayoutTyped
  BY BlocksTyped DEF LayoutTyped, Layout
<1> QED BY <1>1, <1>2, StepOptsTyped, PTL DEF Spec

\* A json without deprecated options, or with a region beside them, is merged as
\* it is.
LEMMA CurrentKept == ASSUME NEW json, Current(json) PROVE Update(json) = json
<1>1. json # Null /\ ~Converts(json)
  BY DEF Current, Converts, Deprecated
<1> QED BY <1>1 DEF Update

\* An accepted call changes the regions it names and no other, and nullptr brings
\* back the defaults (Opt.cpp:63-148).
THEOREM OptionsUpdated == Spec => UpdatesDesired
<1> DEFINE
  Step(json) ==
    /\ json = Null => \A region \in Regions : Blocks(opts', region) = << Block(0, 0) >>
    /\ Current(json) =>
         \A region \in Regions :
           opts'[region] = IF region \in DOMAIN json THEN json[region] ELSE opts[region]
<1>1. ASSUME OptsTyped, NEW json \in Inputs, Accepted(json) PROVE Step(json)
  <2>1. opts' = [name \in DOMAIN opts |->
                   IF name \in DOMAIN Update(json) THEN Update(json)[name] ELSE opts[name]]
    BY <1>1 DEF Accepted, SetOptions, After, Merged
  <2>2. Regions \subseteq DOMAIN opts
    BY <1>1 DEF OptsTyped, Regions
  <2>3. ASSUME json = Null, NEW region \in Regions
        PROVE  Blocks(opts', region) = << Block(0, 0) >>
    <3>1. Update(json) = DefaultOpts
      BY <2>3 DEF Update
    <3>2. opts'[region] = << Block(0, 0) >>
      BY <2>1, <2>2, <2>3, <3>1 DEF DefaultOpts, Regions
    <3>3. Word(0) = 0
      BY OptionsAssumption DEF Word
    <3> QED BY <3>2, <3>3 DEF Blocks, Block
  <2>4. ASSUME Current(json), NEW region \in Regions
        PROVE  opts'[region] = IF region \in DOMAIN json THEN json[region] ELSE opts[region]
    BY <2>1, <2>2, <2>4, CurrentKept
  <2> QED BY <2>3, <2>4
<1>2. OptsTyped => \A json \in Inputs : Accepted(json) => Step(json)
  BY <1>1
<1>3. OptsTyped /\ [Next]_vars
        => [\A json \in Inputs : Accepted(json) => Step(json)]_opts
  BY <1>2
<1> QED BY <1>3, OptionsTyped, PTL DEF Spec, UpdatesDesired

-----------------------------------------------------------------------------
(* Induction over the number of blocks.                                    *)

LEMMA LeastNumber ==
  ASSUME NEW T \in SUBSET Nat, T # {}
  PROVE  \E n \in T : \A m \in T : n <= m
<1>1. PICK n \in T : \A m \in T : ~(<<m, n>> \in OpToRel(<, Nat))
  BY WFMin, NatLessThanWellFounded, Zenon
<1>2. \A m \in T : m \in Nat /\ n \in Nat /\ (m < n => <<m, n>> \in OpToRel(<, Nat))
  BY DEF OpToRel
<1>3. ASSUME NEW m \in T, ~(n <= m) PROVE FALSE
  <2>1. m \in Nat /\ n \in Nat
    OBVIOUS
  <2>2. m < n
    BY <1>3, <2>1
  <2> QED BY <1>1, <1>2, <2>2
<1> QED BY <1>3

\* A set that has 0, and with each number the next, has all of them.
LEMMA Induction ==
  ASSUME NEW T, 0 \in T, \A n \in Nat : n \in T => n + 1 \in T
  PROVE  Nat \subseteq T
<1> SUFFICES ASSUME Nat \ T # {} PROVE FALSE
  OBVIOUS
<1>1. PICK n \in Nat \ T : \A m \in Nat \ T : n <= m
  BY LeastNumber
<1>2. n - 1 \in Nat /\ ~(n <= n - 1)
  BY <1>1
<1>3. n - 1 \in T
  BY <1>1, <1>2
<1> QED BY <1>1, <1>2, <1>3

\* The function FlattenSeq recurses with: f[i] concatenates the first i.
Flattens(f, seqs, n) ==
  f = [i \in 1 .. n |-> IF i = 1 THEN seqs[i] ELSE f[i-1] \o seqs[i]]

\* It exists for every number of sequences, by induction over their number.
LEMMA FlattensExists == ASSUME NEW seqs, NEW n \in Nat PROVE \E f : Flattens(f, seqs, n)
<1> DEFINE T == {k \in Nat : \E f : Flattens(f, seqs, k)}
<1>1. 0 \in T
  <2> DEFINE e == [i \in 1 .. 0 |-> seqs[i]]
  <2>1. Flattens(e, seqs, 0)
    <3>1. 1 .. 0 = {}
      OBVIOUS
    <3> QED BY <3>1 DEF Flattens
  <2> QED BY <2>1
<1>2. ASSUME NEW k \in Nat, k \in T PROVE k + 1 \in T
  <2>1. PICK f : Flattens(f, seqs, k)
    BY <1>2
  <2>4. \A i \in 1 .. k : f[i] = IF i = 1 THEN seqs[i] ELSE f[i-1] \o seqs[i]
    BY <2>1, Zenon DEF Flattens
  <2> DEFINE g == [i \in 1 .. k + 1 |-> IF i <= k THEN f[i]
                     ELSE IF i = 1 THEN seqs[i] ELSE f[i-1] \o seqs[i]]
  <2>2. \A i \in 1 .. k + 1 : g[i] = IF i = 1 THEN seqs[i] ELSE g[i-1] \o seqs[i]
    <3> SUFFICES ASSUME NEW i \in 1 .. k + 1
                 PROVE  g[i] = IF i = 1 THEN seqs[i] ELSE g[i-1] \o seqs[i]
      OBVIOUS
    <3>1. i # 1 => g[i-1] = f[i-1]
      OBVIOUS
    <3>2. i <= k => f[i] = IF i = 1 THEN seqs[i] ELSE f[i-1] \o seqs[i]
      BY <2>4
    <3> QED BY <3>1, <3>2
  <2>3. Flattens(g, seqs, k + 1)
    <3> HIDE DEF g
    <3>1. g = [i \in 1 .. k + 1 |-> g[i]]
      BY DEF g
    <3> QED BY <2>2, <3>1 DEF Flattens
  <2> QED BY <2>3
<1> HIDE DEF T
<1>3. n \in T
  BY <1>1, <1>2, Induction
<1> QED BY <1>3 DEF T

\* The first k of the sequences, concatenated.
Flat(seqs) == CHOOSE f : Flattens(f, seqs, Len(seqs))
Upto(seqs, k) == IF k = 0 THEN << >> ELSE Flat(seqs)[k]

\* The function chosen is one.
LEMMA FlatFlattens ==
  ASSUME NEW S, NEW seqs \in Seq(S)
  PROVE  Flattens(Flat(seqs), seqs, Len(seqs))
BY FlattensExists DEF Flat

\* How it steps from one sequence to the next.
LEMMA FlattensSteps ==
  ASSUME NEW f, NEW seqs, NEW n \in Nat, Flattens(f, seqs, n)
  PROVE  \A i \in 1 .. n : f[i] = IF i = 1 THEN seqs[i] ELSE f[i-1] \o seqs[i]
BY Zenon DEF Flattens

\* FlattenSeq concatenates all.
LEMMA FlattenIsFlat ==
  ASSUME NEW S, NEW seqs \in Seq(S)
  PROVE  FlattenSeq(seqs) = Upto(seqs, Len(seqs))
BY DEF FlattenSeq, Upto, Flat, Flattens

\* What the first k concatenate to is a sequence, and the k-th comes last in it.
LEMMA UptoSteps ==
  ASSUME NEW S, NEW seqs \in Seq(Seq(S))
  PROVE  /\ Upto(seqs, 0) = << >>
         /\ \A k \in 1 .. Len(seqs) : Upto(seqs, k) = Upto(seqs, k - 1) \o seqs[k]
         /\ \A k \in 0 .. Len(seqs) : Upto(seqs, k) \in Seq(S)
<1>0. Len(seqs) \in Nat
  OBVIOUS
<1>1. \A k \in 1 .. Len(seqs) :
        Flat(seqs)[k] = IF k = 1 THEN seqs[k] ELSE Flat(seqs)[k-1] \o seqs[k]
  BY <1>0, FlatFlattens, FlattensSteps
<1>2. Upto(seqs, 0) = << >>
  BY DEF Upto
<1>3. \A k \in 1 .. Len(seqs) : seqs[k] \in Seq(S)
  OBVIOUS
<1>4. ASSUME NEW k \in 1 .. Len(seqs) PROVE Upto(seqs, k) = Upto(seqs, k - 1) \o seqs[k]
  <2>1. CASE k = 1
    <3>1. Upto(seqs, k) = seqs[k] /\ Upto(seqs, k - 1) = << >>
      BY <1>1, <2>1 DEF Upto
    <3> QED BY <1>3, <3>1, ConcatEmptySeq
  <2>2. CASE k # 1
    <3>1. k # 0 /\ k - 1 # 0
      BY <1>0, <2>2
    <3>2. Upto(seqs, k) = Flat(seqs)[k] /\ Upto(seqs, k - 1) = Flat(seqs)[k - 1]
      BY <3>1 DEF Upto
    <3> QED BY <1>1, <2>2, <3>2
  <2> QED BY <2>1, <2>2
<1> DEFINE T == {k \in Nat : k <= Len(seqs) => Upto(seqs, k) \in Seq(S)}
<1>5. 0 \in T
  BY <1>2, EmptySeq
<1>6. ASSUME NEW k \in Nat, k \in T PROVE k + 1 \in T
  <2> SUFFICES ASSUME k + 1 <= Len(seqs) PROVE Upto(seqs, k + 1) \in Seq(S)
    OBVIOUS
  <2>1. k + 1 \in 1 .. Len(seqs) /\ (k + 1) - 1 = k
    BY <1>0
  <2>2. Upto(seqs, k) \in Seq(S)
    BY <1>0, <1>6, <2>1
  <2> HIDE DEF T
  <2>3. Upto(seqs, k + 1) = Upto(seqs, k) \o seqs[k + 1]
    BY <1>4, <2>1
  <2>4. seqs[k + 1] \in Seq(S)
    BY <1>3, <2>1
  <2> QED BY <2>2, <2>3, <2>4, ConcatProperties
<1> HIDE DEF T
<1>7. Nat \subseteq T
  BY <1>5, <1>6, Induction
<1>8. ASSUME NEW k \in 0 .. Len(seqs) PROVE Upto(seqs, k) \in Seq(S)
  <2>1. k \in T
    BY <1>0, <1>7
  <2> QED BY <1>0, <2>1 DEF T
<1> QED BY <1>2, <1>4, <1>8

\* Concatenating more sequences changes nothing before.
LEMMA UptoPrefix ==
  ASSUME NEW S, NEW seqs \in Seq(Seq(S)), NEW k \in 0 .. Len(seqs), NEW n \in k .. Len(seqs)
  PROVE  /\ Len(Upto(seqs, k)) <= Len(Upto(seqs, n))
         /\ \A i \in 1 .. Len(Upto(seqs, k)) : Upto(seqs, n)[i] = Upto(seqs, k)[i]
<1> DEFINE P(m) == m \in k .. Len(seqs) =>
             /\ Len(Upto(seqs, k)) <= Len(Upto(seqs, m))
             /\ \A i \in 1 .. Len(Upto(seqs, k)) : Upto(seqs, m)[i] = Upto(seqs, k)[i]
           T == {m \in Nat : P(m)}
<1>0. \A m \in 0 .. Len(seqs) : Upto(seqs, m) \in Seq(S) /\ Len(Upto(seqs, m)) \in Nat
  <2> SUFFICES ASSUME NEW m \in 0 .. Len(seqs)
               PROVE  Upto(seqs, m) \in Seq(S) /\ Len(Upto(seqs, m)) \in Nat
    OBVIOUS
  <2>1. Upto(seqs, m) \in Seq(S)
    BY UptoSteps
  <2> QED BY <2>1, LenProperties
<1>1. 0 \in T
  <2>1. 0 \in k .. Len(seqs) => k = 0
    OBVIOUS
  <2>2. Len(Upto(seqs, k)) <= Len(Upto(seqs, k))
    BY <1>0
  <2> QED BY <2>1, <2>2
<1>2. ASSUME NEW m \in Nat, m \in T PROVE m + 1 \in T
  <2> SUFFICES ASSUME m + 1 \in k .. Len(seqs) PROVE P(m + 1)
    OBVIOUS
  <2>1. CASE m + 1 = k
    BY <1>0, <2>1
  <2>2. CASE m + 1 # k
    <3>1. m \in k .. Len(seqs) /\ m + 1 \in 1 .. Len(seqs) /\ (m + 1) - 1 = m
      BY <2>2
    <3>2. Upto(seqs, m + 1) = Upto(seqs, m) \o seqs[m + 1]
      BY <3>1, UptoSteps
    <3>3. seqs[m + 1] \in Seq(S)
      BY <3>1
    <3>4. /\ Len(Upto(seqs, m + 1)) = Len(Upto(seqs, m)) + Len(seqs[m + 1])
          /\ Len(seqs[m + 1]) \in Nat
          /\ \A i \in 1 .. Len(Upto(seqs, m)) : Upto(seqs, m + 1)[i] = Upto(seqs, m)[i]
      BY <1>0, <3>1, <3>2, <3>3, ConcatProperties, SMTT(30)
    <3>5. /\ Len(Upto(seqs, k)) <= Len(Upto(seqs, m))
          /\ \A i \in 1 .. Len(Upto(seqs, k)) : Upto(seqs, m)[i] = Upto(seqs, k)[i]
      BY <1>2, <3>1
    <3> HIDE DEF T
    <3> QED BY <1>0, <3>1, <3>4, <3>5, SMTT(30)
  <2> QED BY <2>1, <2>2
<1> HIDE DEF T
<1>3. Nat \subseteq T
  BY <1>1, <1>2, Induction
<1>4. n \in Nat
  OBVIOUS
<1>5. n \in T
  BY <1>3, <1>4
<1> QED BY <1>5 DEF T

-----------------------------------------------------------------------------
(* The addresses of a layout.                                              *)

\* The addresses of each block, and how many those of the first k are.
Runs(blocks) == [b \in DOMAIN blocks |-> BlockAddresses(blocks[b])]

Start(blocks, k) == Len(Upto(Runs(blocks), k))

\* A block has as many addresses as its size says.
LEMMA RunsTyped ==
  ASSUME NEW blocks \in Seq(WordExtent)
  PROVE  /\ Runs(blocks) \in Seq(Seq(Addr))
         /\ Len(Runs(blocks)) = Len(blocks)
         /\ \A b \in 1 .. Len(blocks) :
              /\ blocks[b].offset \in Addr /\ blocks[b].size \in Addr
              /\ Runs(blocks)[b] = BlockAddresses(blocks[b])
              /\ Len(BlockAddresses(blocks[b])) = blocks[b].size
<1>1. ASSUME NEW b \in 1 .. Len(blocks)
      PROVE  blocks[b].offset \in Addr /\ blocks[b].size \in Addr
  <2>1. blocks[b] \in WordExtent
    BY ElementOfSeq
  <2> QED BY <2>1 DEF WordExtent
<1>2. ASSUME NEW b \in 1 .. Len(blocks)
      PROVE  /\ BlockAddresses(blocks[b]) \in Seq(Addr)
             /\ Len(BlockAddresses(blocks[b])) = blocks[b].size
  <2> DEFINE size == blocks[b].size
             offset == blocks[b].offset
  <2>1. size \in Nat /\ offset \in Nat /\ Space \in Nat \ {0}
    BY <1>1, OptionsAssumption DEF Addr
  <2>2. \A i \in 1 .. size : (offset + i - 1) % Space \in Addr
    BY <2>1 DEF Addr
  <2> HIDE DEF size, offset
  <2>3. [i \in 1 .. size |-> (offset + i - 1) % Space] \in Seq(Addr)
    BY <2>1, <2>2
  <2>4. Len([i \in 1 .. size |-> (offset + i - 1) % Space]) = size
    BY <2>1
  <2> QED BY <2>3, <2>4 DEF BlockAddresses, size, offset
<1>3. DOMAIN blocks = 1 .. Len(blocks) /\ Len(blocks) \in Nat
  BY LenProperties
<1>4. \A b \in 1 .. Len(blocks) : Runs(blocks)[b] = BlockAddresses(blocks[b])
  BY <1>3 DEF Runs
<1>5. Runs(blocks) = [b \in 1 .. Len(blocks) |-> Runs(blocks)[b]]
  BY <1>3 DEF Runs
<1>6. Runs(blocks) \in Seq(Seq(Addr)) /\ Len(Runs(blocks)) = Len(blocks)
  BY <1>2, <1>3, <1>4, <1>5
<1> QED BY <1>1, <1>2, <1>4, <1>6

\* The i-th byte of the k-th block lies behind all bytes of the blocks before.
LEMMA AddressesOf ==
  ASSUME NEW blocks \in Seq(WordExtent)
  PROVE  /\ Addresses(blocks) \in Seq(Addr)
         /\ Start(blocks, 0) = 0
         /\ Start(blocks, Len(blocks)) = Len(Addresses(blocks))
         /\ \A k \in 0 .. Len(blocks) : Start(blocks, k) \in 0 .. Len(Addresses(blocks))
         /\ \A k \in 1 .. Len(blocks) :
              /\ Start(blocks, k) = Start(blocks, k - 1) + blocks[k].size
              /\ \A i \in 1 .. blocks[k].size :
                   Addresses(blocks)[Start(blocks, k - 1) + i]
                     = (blocks[k].offset + i - 1) % Space
<1> DEFINE runs == Runs(blocks)
           n == Len(blocks)
<1>1. runs \in Seq(Seq(Addr)) /\ Len(runs) = n /\ n \in Nat
  BY RunsTyped
<1>2. Addresses(blocks) = Upto(runs, n)
  BY <1>1, FlattenIsFlat DEF Addresses, Runs
<1>3. ASSUME NEW k \in 0 .. n
      PROVE  Upto(runs, k) \in Seq(Addr) /\ Start(blocks, k) \in Nat
  <2>1. Upto(runs, k) \in Seq(Addr)
    BY <1>1, UptoSteps
  <2> QED BY <2>1, LenProperties DEF Start
<1>4. Start(blocks, 0) = 0
  BY <1>1, UptoSteps, EmptySeq DEF Start
<1>5. \A k \in 0 .. n : Start(blocks, k) <= Start(blocks, n)
  BY <1>1, UptoPrefix DEF Start
<1>6. ASSUME NEW k \in 1 .. n
      PROVE  /\ Start(blocks, k) = Start(blocks, k - 1) + blocks[k].size
             /\ \A i \in 1 .. blocks[k].size :
                  Addresses(blocks)[Start(blocks, k - 1) + i]
                    = (blocks[k].offset + i - 1) % Space
  <2> DEFINE before == Upto(runs, k - 1)
             run == BlockAddresses(blocks[k])
             upto == Upto(runs, k)
  <2>1. before \in Seq(Addr) /\ run \in Seq(Addr) /\ upto = before \o run
    <3>1. k - 1 \in 0 .. n
      BY <1>1
    <3>2. runs[k] \in Seq(Addr) /\ runs[k] = run
      BY <1>1, RunsTyped
    <3> QED BY <1>1, <1>3, <3>1, <3>2, UptoSteps
  <2>2. Len(run) = blocks[k].size /\ blocks[k].size \in Nat
    BY RunsTyped DEF Addr
  <2>3. /\ Len(upto) = Len(before) + Len(run)
        /\ \A i \in 1 .. Len(before) + Len(run) :
             upto[i] = IF i <= Len(before) THEN before[i] ELSE run[i - Len(before)]
    BY <2>1, ConcatProperties
  <2>4. \A i \in 1 .. Len(upto) : Addresses(blocks)[i] = upto[i]
    BY <1>1, <1>2, UptoPrefix
  <2>5. \A i \in 1 .. blocks[k].size : run[i] = (blocks[k].offset + i - 1) % Space
    BY DEF BlockAddresses
  <2>6. Len(before) = Start(blocks, k - 1) /\ Len(upto) = Start(blocks, k)
    BY DEF Start
  <2>7. Len(before) \in Nat
    BY <2>1, LenProperties
  <2> HIDE DEF before, run, upto
  <2>8. ASSUME NEW i \in 1 .. blocks[k].size
        PROVE  Addresses(blocks)[Start(blocks, k - 1) + i]
                 = (blocks[k].offset + i - 1) % Space
    <3>1. Len(before) + i \in 1 .. Len(upto) /\ ~(Len(before) + i <= Len(before))
          /\ (Len(before) + i) - Len(before) = i
      BY <2>2, <2>3, <2>7
    <3>2. upto[Len(before) + i] = run[i]
      BY <2>3, <3>1
    <3> QED BY <2>4, <2>5, <2>6, <3>1, <3>2
  <2> QED BY <2>2, <2>3, <2>6, <2>8
<1> HIDE DEF runs, n
<1>7. Addresses(blocks) \in Seq(Addr) /\ Start(blocks, n) = Len(Addresses(blocks))
  BY <1>1, <1>2, <1>3 DEF Start, runs
<1> QED BY <1>1, <1>3, <1>4, <1>5, <1>6, <1>7 DEF n

-----------------------------------------------------------------------------
(* The reader, between any two steps of a save.                            *)

\* A block that ends below the last address; n bytes gathered from the addresses
\* of blocks; a loop at some byte of the block after the k-th, or behind the last.
Below(block) == block.offset + block.size < Space

Gathered(bytes, memory, blocks, n) ==
  Len(bytes) = n /\ \A i \in 1 .. n : bytes[i] = memory[Addresses(blocks)[i]]

InBlock(r, memory, blocks, k) ==
  /\ r.blocks = SubSeq(blocks, k + 1, Len(blocks))
  /\ k = Len(blocks) => Gathered(r[r.region], memory, blocks, Start(blocks, k))
  /\ k < Len(blocks) /\ Below(blocks[k + 1]) =>
       \E j \in 0 .. blocks[k + 1].size :
         /\ r.addr = blocks[k + 1].offset + j
         /\ Gathered(r[r.region], memory, blocks, Start(blocks, k) + j)

Readers ==
  [region : Regions \cup {"none"}, blocks : Seq(WordExtent),
   ram : Seq(Byte), rom : Seq(Byte), addr : Addr]

\* A save reads the ram and then the rom, and stands in one of the blocks.
ReaderInv(r, memory, layout) ==
  /\ r \in Readers
  /\ r.region = "none" => r = Closed
  /\ r.region = "ram" => r.rom = << >>
  /\ r.region = "rom" => r.ram = Contents(memory, layout["ram"])
  /\ r.region # "none" =>
       \E k \in 0 .. Len(layout[r.region]) : InBlock(r, memory, layout[r.region], k)

\* The contents of blocks have a byte for each address.
LEMMA ContentsTyped ==
  ASSUME NEW blocks \in Seq(WordExtent), NEW memory \in [Addr -> Byte]
  PROVE  /\ Contents(memory, blocks) \in Seq(Byte)
         /\ Len(Contents(memory, blocks)) = Len(Addresses(blocks))
         /\ \A i \in 1 .. Len(Addresses(blocks)) :
              Contents(memory, blocks)[i] = memory[Addresses(blocks)[i]]
<1> DEFINE addr == Addresses(blocks)
<1>1. addr \in Seq(Addr)
  BY AddressesOf
<1> HIDE DEF addr
<1>2. DOMAIN addr = 1 .. Len(addr) /\ Len(addr) \in Nat
  BY <1>1, LenProperties
<1>3. \A i \in 1 .. Len(addr) : memory[addr[i]] \in Byte
  BY <1>1
<1>4. Contents(memory, blocks) = [i \in 1 .. Len(addr) |-> memory[addr[i]]]
  BY <1>2 DEF Contents, addr
<1> QED BY <1>2, <1>3, <1>4 DEF addr

\* Bytes that have all been gathered are the contents of the blocks.
LEMMA GatheredAll ==
  ASSUME NEW blocks \in Seq(WordExtent), NEW memory \in [Addr -> Byte],
         NEW bytes \in Seq(Byte), Gathered(bytes, memory, blocks, Len(Addresses(blocks)))
  PROVE  bytes = Contents(memory, blocks)
<1>1. /\ Contents(memory, blocks) \in Seq(Byte)
      /\ Len(Contents(memory, blocks)) = Len(bytes)
      /\ \A i \in 1 .. Len(bytes) : bytes[i] = Contents(memory, blocks)[i]
  BY ContentsTyped DEF Gathered
<1> QED BY <1>1, SeqEqual

\* A loop over blocks of words starts at a word.
LEMMA OpenTyped ==
  ASSUME NEW blocks \in Seq(WordExtent), NEW region \in Regions,
         NEW ram \in Seq(Byte), NEW rom \in Seq(Byte)
  PROVE  Open(region, blocks, ram, rom) \in Readers
<1>1. 0 \in Addr
  BY OptionsAssumption DEF Addr
<1>2. blocks # << >> => blocks[1].offset \in Addr
  <2> SUFFICES ASSUME blocks # << >> PROVE blocks[1].offset \in Addr
    OBVIOUS
  <2>1. blocks[1] \in WordExtent
    OBVIOUS
  <2> QED BY <2>1 DEF WordExtent
<1> QED BY <1>1, <1>2 DEF Open, Readers

\* A loop that opens the blocks behind the k-th stands at the first byte of the
\* next one, if it has gathered those before.
LEMMA OpenInBlock ==
  ASSUME NEW blocks \in Seq(WordExtent), NEW region \in Regions, NEW memory,
         NEW ram \in Seq(Byte), NEW rom \in Seq(Byte), NEW k \in 0 .. Len(blocks),
         Gathered(IF region = "ram" THEN ram ELSE rom, memory, blocks, Start(blocks, k))
  PROVE  InBlock(Open(region, SubSeq(blocks, k + 1, Len(blocks)), ram, rom),
                 memory, blocks, k)
<1> DEFINE rest == SubSeq(blocks, k + 1, Len(blocks))
           r == Open(region, rest, ram, rom)
<1> HIDE DEF rest
<1>1. /\ r.blocks = rest /\ r.region = region
      /\ r[r.region] = IF region = "ram" THEN ram ELSE rom
      /\ r.addr = IF rest = << >> THEN 0 ELSE rest[1].offset
  <2>1. CASE region = "ram"
    BY <2>1 DEF Open
  <2>2. CASE region = "rom"
    BY <2>2 DEF Open
  <2> QED BY <2>1, <2>2 DEF Regions
<1>2. ASSUME k < Len(blocks) PROVE rest # << >> /\ rest[1] = blocks[k + 1]
  <2>1. Len(blocks) \in Nat /\ k + 1 \in 1 .. Len(blocks)
    BY <1>2
  <2>2. /\ Len(rest) = Len(blocks) - (k + 1) + 1
        /\ \A i \in 1 .. Len(blocks) - (k + 1) + 1 : rest[i] = blocks[(k + 1) + i - 1]
    <3>1. \A i \in k + 1 .. Len(blocks) : blocks[i] \in WordExtent
      BY <2>1, ElementOfSeq
    <3>2. k + 1 \in Int /\ Len(blocks) \in Int /\ k + 1 <= Len(blocks)
      BY <2>1
    <3> QED BY <3>1, <3>2, SubSeqProperties DEF rest
  <2>3. 1 \in 1 .. Len(blocks) - (k + 1) + 1 /\ (k + 1) + 1 - 1 = k + 1
    BY <2>1
  <2>4. rest[1] = blocks[k + 1] /\ Len(rest) # 0
    BY <2>1, <2>2, <2>3
  <2> QED BY <2>4, EmptySeq
<1> HIDE DEF r
<1>3. ASSUME k < Len(blocks)
      PROVE  \E j \in 0 .. blocks[k + 1].size :
               /\ r.addr = blocks[k + 1].offset + j
               /\ Gathered(r[r.region], memory, blocks, Start(blocks, k) + j)
  <2>1. k + 1 \in 1 .. Len(blocks)
    BY <1>3
  <2>2. blocks[k + 1].size \in Nat /\ blocks[k + 1].offset \in Nat
    BY <2>1, RunsTyped DEF Addr
  <2>3. Start(blocks, k) \in Nat
    BY AddressesOf
  <2>4. 0 \in 0 .. blocks[k + 1].size /\ r.addr = blocks[k + 1].offset + 0
    BY <1>1, <1>2, <1>3, <2>2
  <2>5. Start(blocks, k) + 0 = Start(blocks, k)
    BY <2>3
  <2> QED BY <1>1, <2>4, <2>5
<1>4. r.blocks = rest
  BY <1>1
<1>5. k = Len(blocks) => Gathered(r[r.region], memory, blocks, Start(blocks, k))
  BY <1>1
<1>6. InBlock(r, memory, blocks, k)
  BY <1>3, <1>4, <1>5 DEF InBlock, rest
<1> QED BY <1>6 DEF r, rest

-----------------------------------------------------------------------------
(* The steps of a save.                                                    *)

\* The layout consists of blocks of words, and only SetOptions changes it.
LEMMA LayoutIsTyped ==
  ASSUME OptsTyped
  PROVE  Layout \in [Regions -> Seq(WordExtent)]
BY BlocksTyped DEF Layout

LEMMA LayoutKept == opts' = opts => Layout' = Layout
BY DEF Layout, Blocks

\* Where the loop stands in the block it reads.
LEMMA BeforeInBlock ==
  ASSUME NEW blocks \in Seq(WordExtent), NEW k \in 0 .. Len(blocks),
         reader.blocks = SubSeq(blocks, k + 1, Len(blocks))
  PROVE  /\ reader.blocks = << >> <=> k = Len(blocks)
         /\ reader.blocks # << >> =>
              /\ k + 1 \in 1 .. Len(blocks)
              /\ Head(reader.blocks) = blocks[k + 1]
              /\ Tail(reader.blocks) = SubSeq(blocks, k + 2, Len(blocks))
<1>1. Len(blocks) \in Nat
  BY LenProperties
<1>2. CASE k = Len(blocks)
  <2>1. SubSeq(blocks, k + 1, Len(blocks)) = << >>
    BY <1>1, <1>2, SubSeqEmpty
  <2> QED BY <1>2, <2>1
<1>3. CASE k # Len(blocks)
  <2>1. /\ k + 1 \in 1 .. Len(blocks) /\ Len(blocks) \in k + 1 .. Len(blocks)
        /\ (k + 1) + 1 = k + 2
    BY <1>1, <1>3
  <2>2. /\ Head(reader.blocks) = blocks[k + 1]
        /\ Tail(reader.blocks) = SubSeq(blocks, k + 2, Len(blocks))
    BY <2>1, HeadTailOfSubSeq
  <2>3. Len(SubSeq(blocks, k + 1, Len(blocks))) # 0
    <3>1. \A i \in k + 1 .. Len(blocks) : blocks[i] \in WordExtent
      BY <1>1, ElementOfSeq
    <3>2. Len(SubSeq(blocks, k + 1, Len(blocks))) = Len(blocks) - (k + 1) + 1
      BY <1>1, <2>1, <3>1, SubSeqProperties
    <3>3. Len(blocks) - (k + 1) + 1 # 0
      BY <1>1, <2>1
    <3> QED BY <3>2, <3>3
  <2>4. reader.blocks # << >>
    BY <2>3, EmptySeq
  <2> QED BY <1>3, <2>1, <2>2, <2>4
<1> QED BY <1>2, <1>3

ReaderOK == OptsTyped /\ mem \in [Addr -> Byte] /\ ReaderInv(reader, mem, Layout)

\* Between two saves the reader is closed, whatever happens to the memory.
LEMMA ClosedInv == ASSUME NEW memory, NEW layout PROVE ReaderInv(Closed, memory, layout)
<1>1. << >> \in Seq(WordExtent) /\ << >> \in Seq(Byte)
  BY EmptySeq
<1>2. 0 \in Addr
  BY OptionsAssumption DEF Addr
<1> QED BY <1>1, <1>2 DEF ReaderInv, Closed, Open, Readers

\* It keeps the invariant when the loop behind the k-th block is opened.
LEMMA OpenInv ==
  ASSUME NEW region \in Regions, NEW ram \in Seq(Byte), NEW rom \in Seq(Byte),
         NEW memory, NEW layout \in [Regions -> Seq(WordExtent)],
         NEW k \in 0 .. Len(layout[region]),
         region = "ram" => rom = << >>,
         region = "rom" => ram = Contents(memory, layout["ram"]),
         Gathered(IF region = "ram" THEN ram ELSE rom, memory, layout[region],
                  Start(layout[region], k))
  PROVE  ReaderInv(Open(region, SubSeq(layout[region], k + 1, Len(layout[region])), ram, rom),
                   memory, layout)
<1> DEFINE blocks == layout[region]
           rest == SubSeq(blocks, k + 1, Len(blocks))
           r == Open(region, rest, ram, rom)
<1>1. blocks \in Seq(WordExtent)
  OBVIOUS
<1>2. rest \in Seq(WordExtent)
  <2>1. Len(blocks) \in Nat
    BY <1>1, LenProperties
  <2>2. \A i \in k + 1 .. Len(blocks) : blocks[i] \in WordExtent
    BY <1>1, <2>1, ElementOfSeq
  <2> QED BY <2>1, <2>2, SubSeqProperties
<1>3. r \in Readers
  BY <1>2, OpenTyped
<1>4. InBlock(r, memory, blocks, k)
  BY <1>1, OpenInBlock
<1>5. r.region = region /\ r.ram = ram /\ r.rom = rom /\ region # "none"
  BY DEF Open, Regions
<1> HIDE DEF r, rest
<1>6. ReaderInv(r, memory, layout)
  BY <1>3, <1>4, <1>5 DEF ReaderInv
<1> QED BY <1>6 DEF r, rest

\* The loops begin at the first block of the ram.
LEMMA SaveBeginInv == ASSUME ReaderOK, SaveBegin PROVE ReaderOK'
<1> DEFINE blocks == Layout["ram"]
<1>1. Layout \in [Regions -> Seq(WordExtent)] /\ "ram" \in Regions /\ Layout' = Layout
  BY LayoutIsTyped, LayoutKept DEF ReaderOK, Regions, SaveBegin
<1>2. blocks \in Seq(WordExtent) /\ Len(blocks) \in Nat
  BY <1>1, LenProperties
<1>3. SubSeq(blocks, 0 + 1, Len(blocks)) = blocks
  BY <1>2, SubSeqFull
<1>4. Gathered(<< >>, mem, blocks, Start(blocks, 0))
  BY <1>2, AddressesOf DEF Gathered
<1>5. << >> \in Seq(Byte) /\ 0 \in 0 .. Len(blocks) /\ "ram" # "rom"
  BY <1>2, EmptySeq
<1>6. ReaderInv(Open("ram", SubSeq(blocks, 0 + 1, Len(blocks)), << >>, << >>), mem, Layout)
  BY <1>1, <1>2, <1>4, <1>5, OpenInv
<1> QED BY <1>1, <1>3, <1>6 DEF ReaderOK, SaveBegin, OptsTyped

\* Behind the last block of the ram all of it has been gathered.
LEMMA NextRegionInv == ASSUME ReaderOK, NextRegion PROVE ReaderOK'
<1> DEFINE ram == Layout["ram"]
           rom == Layout["rom"]
<1>1. Layout \in [Regions -> Seq(WordExtent)] /\ Layout' = Layout /\ Regions = {"ram", "rom"}
  BY LayoutIsTyped, LayoutKept DEF ReaderOK, Regions, NextRegion
<1>2. ram \in Seq(WordExtent) /\ rom \in Seq(WordExtent) /\ Len(rom) \in Nat
  BY <1>1, LenProperties
<1>3. PICK k \in 0 .. Len(ram) : InBlock(reader, mem, ram, k)
  BY DEF ReaderOK, ReaderInv, NextRegion
<1>4. reader.ram \in Seq(Byte) /\ reader.rom = << >>
  BY DEF ReaderOK, ReaderInv, Readers, NextRegion
<1>5. Gathered(reader.ram, mem, ram, Len(Addresses(ram)))
  <2>1. k = Len(ram)
    BY <1>2, <1>3, BeforeInBlock DEF InBlock, NextRegion
  <2> QED BY <1>2, <1>3, <2>1, AddressesOf DEF InBlock, NextRegion
<1>6. reader.ram = Contents(mem, ram)
  BY <1>2, <1>4, <1>5, GatheredAll DEF ReaderOK
<1>7. SubSeq(rom, 0 + 1, Len(rom)) = rom
  BY <1>2, SubSeqFull
<1>8. Gathered(reader.rom, mem, rom, Start(rom, 0))
  BY <1>2, <1>4, AddressesOf DEF Gathered
<1>9. reader.rom \in Seq(Byte) /\ 0 \in 0 .. Len(rom)
  BY <1>2, <1>4, EmptySeq
<1>10. ReaderInv(Open("rom", SubSeq(rom, 0 + 1, Len(rom)), reader.ram, reader.rom),
                 mem, Layout)
  BY <1>1, <1>2, <1>4, <1>6, <1>8, <1>9, OpenInv
<1> QED BY <1>1, <1>7, <1>10 DEF ReaderOK, NextRegion, OptsTyped

\* A block the loop leaves has been gathered to its end.
LEMMA NextBlockInv == ASSUME ReaderOK, NextBlock PROVE ReaderOK'
<1> DEFINE region == reader.region
           blocks == Layout[region]
           got == reader[region]
<1>1. Layout \in [Regions -> Seq(WordExtent)] /\ Layout' = Layout
  BY LayoutIsTyped, LayoutKept DEF ReaderOK, NextBlock
<1>2. region \in Regions
  BY DEF ReaderOK, ReaderInv, Readers, Closed, Open, NextBlock
<1>3. blocks \in Seq(WordExtent) /\ Len(blocks) \in Nat
  BY <1>1, <1>2, LenProperties
<1>4. PICK k \in 0 .. Len(blocks) : InBlock(reader, mem, blocks, k)
  BY <1>2 DEF ReaderOK, ReaderInv, Regions
<1>5. /\ k + 1 \in 1 .. Len(blocks) /\ Head(reader.blocks) = blocks[k + 1]
      /\ Tail(reader.blocks) = SubSeq(blocks, (k + 1) + 1, Len(blocks))
  <2>1. (k + 1) + 1 = k + 2
    OBVIOUS
  <2> QED BY <1>3, <1>4, <2>1, BeforeInBlock DEF InBlock, NextBlock
<1> DEFINE block == blocks[k + 1]
<1>6. /\ block.offset \in Addr /\ block.size \in Addr
      /\ reader.addr \in Addr /\ ~(reader.addr < block.offset + block.size)
  <2>1. block.offset \in Addr /\ block.size \in Addr
    BY <1>3, <1>5, RunsTyped
  <2>2. reader.addr \in Addr
    BY DEF ReaderOK, ReaderInv, Readers
  <2> QED BY <1>5, <2>1, <2>2 DEF NextBlock, Before
<1>7. Below(block)
  BY <1>6, OptionsAssumption, SMTT(30) DEF Below, Addr
<1>8. Gathered(got, mem, blocks, Start(blocks, k + 1))
  <2>1. PICK j \in 0 .. block.size : /\ reader.addr = block.offset + j
                                     /\ Gathered(got, mem, blocks, Start(blocks, k) + j)
    BY <1>3, <1>4, <1>5, <1>7 DEF InBlock
  <2>2. j = block.size
    <3>1. block.offset \in Int /\ block.size \in Int /\ j \in 0 .. block.size
      BY <1>6, OptionsAssumption DEF Addr
    <3>2. ~(block.offset + j < block.offset + block.size)
      BY <1>6, <2>1
    <3> HIDE DEF block
    <3> QED BY <3>1, <3>2
  <2>3. Start(blocks, k + 1) = Start(blocks, k) + block.size
    <3>1. (k + 1) - 1 = k
      OBVIOUS
    <3> QED BY <1>3, <1>5, <3>1, AddressesOf
  <2> QED BY <2>1, <2>2, <2>3
<1>9. reader.ram \in Seq(Byte) /\ reader.rom \in Seq(Byte)
  BY DEF ReaderOK, ReaderInv, Readers
<1>10. got = IF region = "ram" THEN reader.ram ELSE reader.rom
  BY <1>2 DEF Regions
<1>11. /\ region = "ram" => reader.rom = << >>
       /\ region = "rom" => reader.ram = Contents(mem, Layout["ram"])
  BY DEF ReaderOK, ReaderInv
<1>12. k + 1 \in 0 .. Len(blocks)
  BY <1>5
<1> HIDE DEF region
<1>13. ReaderInv(Open(region, SubSeq(blocks, (k + 1) + 1, Len(blocks)),
                      reader.ram, reader.rom), mem, Layout)
  BY <1>1, <1>2, <1>8, <1>9, <1>10, <1>11, <1>12, OpenInv
<1> QED BY <1>1, <1>5, <1>13 DEF ReaderOK, NextBlock, OptsTyped, region

\* An address is not narrowed.
LEMMA AddrMod == ASSUME NEW a \in Addr PROVE a % Space = a
<1>1. Space \in Nat /\ Space > 0 /\ a \in Nat /\ a < Space
  BY OptionsAssumption DEF Addr
<1>2. a = Space * 0 + a
  BY <1>1
<1> QED BY <1>1, <1>2

\* A loop within a block below the end of the memory goes on within it.
LEMMA Advance ==
  ASSUME NEW addr \in Nat, NEW offset \in Nat, NEW size \in Nat, NEW j \in 0 .. size,
         addr = offset + j, addr < offset + size, offset + size < Space
  PROVE  /\ addr + 1 \in Addr /\ addr + 1 = offset + (j + 1)
         /\ j + 1 \in 0 .. size /\ j + 1 \in 1 .. size
BY OptionsAssumption DEF Addr

\* A byte read is the one the layout names next.
LEMMA ReadByteInv == ASSUME ReaderOK, ReadByte PROVE ReaderOK'
<1> DEFINE region == reader.region
           blocks == Layout[region]
           got == reader[region]
           more == Append(got, mem[reader.addr])
           next == (reader.addr + 1) % Space
<1>1. Layout \in [Regions -> Seq(WordExtent)] /\ Layout' = Layout
  BY LayoutIsTyped, LayoutKept DEF ReaderOK, ReadByte
<1>2. region \in Regions
  <2>1. region \in Regions \cup {"none"}
    BY DEF ReaderOK, ReaderInv, Readers
  <2>2. reader # Closed
    <3>1. Closed.blocks = << >>
      BY DEF Closed, Open
    <3> QED BY <3>1 DEF ReadByte, Before
  <2> QED BY <2>1, <2>2 DEF ReaderOK, ReaderInv
<1>3. blocks \in Seq(WordExtent) /\ Len(blocks) \in Nat
  BY <1>1, <1>2, LenProperties
<1>4. PICK k \in 0 .. Len(blocks) : InBlock(reader, mem, blocks, k)
  BY <1>2 DEF ReaderOK, ReaderInv, Regions
<1>5. k < Len(blocks) /\ k + 1 \in 1 .. Len(blocks) /\ Head(reader.blocks) = blocks[k + 1]
  <2>1. reader.blocks # << >>
    BY DEF ReadByte, Before
  <2>2. k + 1 \in 1 .. Len(blocks) /\ Head(reader.blocks) = blocks[k + 1]
    BY <1>3, <1>4, <2>1, BeforeInBlock DEF InBlock
  <2> QED BY <1>3, <2>2
<1> DEFINE block == blocks[k + 1]
<1>6. /\ block.offset \in Nat /\ block.size \in Nat
      /\ reader.addr \in Addr /\ reader.addr < block.offset + block.size
  <2>1. block.offset \in Addr /\ block.size \in Addr
    BY <1>3, <1>5, RunsTyped
  <2>2. reader.addr \in Addr
    BY DEF ReaderOK, ReaderInv, Readers
  <2>3. reader.addr < Head(reader.blocks).offset + Head(reader.blocks).size
    BY DEF ReadByte, Before
  <2> QED BY <1>5, <2>1, <2>2, <2>3 DEF Addr
<1>7. got \in Seq(Byte) /\ more \in Seq(Byte) /\ next \in Addr
  <2>1. got \in Seq(Byte)
    BY <1>2 DEF ReaderOK, ReaderInv, Readers, Regions
  <2>2. mem[reader.addr] \in Byte
    BY <1>6 DEF ReaderOK
  <2> QED BY <1>6, <2>1, <2>2, AppendProperties, OptionsAssumption DEF Addr
<1>8. /\ reader' = [region |-> region, blocks |-> reader.blocks,
                    ram |-> IF region = "ram" THEN more ELSE reader.ram,
                    rom |-> IF region = "rom" THEN more ELSE reader.rom, addr |-> next]
      /\ reader' \in Readers
  <2> HIDE DEF more, next
  <2>1. reader' = [reader EXCEPT ![region] = more, !.addr = next]
    BY DEF ReadByte, more, next
  <2>2. reader \in Readers
    BY DEF ReaderOK, ReaderInv
  <2>3. CASE region = "ram"
    BY <1>7, <2>1, <2>2, <2>3 DEF Readers, Regions
  <2>4. CASE region = "rom"
    BY <1>7, <2>1, <2>2, <2>4 DEF Readers, Regions
  <2> QED BY <1>2, <2>3, <2>4 DEF Regions
<1> HIDE DEF more, next
<1>9. /\ reader'.region = region /\ reader'.blocks = reader.blocks /\ reader'.addr = next
      /\ reader'[region] = more
      /\ region = "ram" => reader'.rom = reader.rom
      /\ region = "rom" => reader'.ram = reader.ram
  BY <1>2, <1>8 DEF Regions
<1>10. ASSUME Below(block)
       PROVE  \E j \in 0 .. block.size :
                /\ next = block.offset + j
                /\ Gathered(more, mem, blocks, Start(blocks, k) + j)
  <2>1. PICK j \in 0 .. block.size :
               /\ reader.addr = block.offset + j
               /\ Gathered(got, mem, blocks, Start(blocks, k) + j)
    BY <1>4, <1>5, <1>10 DEF InBlock
  <2>2. /\ reader.addr + 1 \in Addr /\ reader.addr + 1 = block.offset + (j + 1)
        /\ j + 1 \in 0 .. block.size /\ j + 1 \in 1 .. block.size
    <3>1. block.offset + block.size < Space /\ reader.addr \in Nat
      BY <1>6, <1>10 DEF Below, Addr
    <3> HIDE DEF block
    <3> QED BY <1>6, <2>1, <3>1, Advance
  <2>3. next = block.offset + (j + 1)
    BY <2>2, AddrMod DEF next
  <2> DEFINE n == Start(blocks, k) + j
  <2>4. Start(blocks, k) \in Nat /\ n \in Nat
    BY <1>3, AddressesOf
  <2>5. Addresses(blocks)[n + 1] = reader.addr
    <3>1. Addresses(blocks)[Start(blocks, (k + 1) - 1) + (j + 1)]
            = (block.offset + (j + 1) - 1) % Space
      BY <1>3, <1>5, <2>2, AddressesOf
    <3>2. (k + 1) - 1 = k
      BY <1>5
    <3>3. Start(blocks, k) + (j + 1) = n + 1
      BY <2>4
    <3>4. block.offset + (j + 1) - 1 = reader.addr
      BY <1>6, <2>1
    <3>5. reader.addr % Space = reader.addr
      BY <1>6, AddrMod
    <3> QED BY <3>1, <3>2, <3>3, <3>4, <3>5
  <2>6. Gathered(more, mem, blocks, n + 1)
    <3> HIDE DEF n
    <3>1. Len(got) = n /\ \A i \in 1 .. n : got[i] = mem[Addresses(blocks)[i]]
      BY <2>1 DEF Gathered, n
    <3>2. /\ Len(more) = n + 1 /\ more[n + 1] = mem[reader.addr]
          /\ \A i \in 1 .. n : more[i] = got[i]
      <4>1. mem[reader.addr] \in Byte
        BY <1>6 DEF ReaderOK
      <4> QED BY <1>7, <3>1, <4>1, AppendProperties DEF more
    <3>3. \A i \in 1 .. n + 1 : i \in 1 .. n \/ i = n + 1
      BY <2>4
    <3> QED BY <2>5, <3>1, <3>2, <3>3 DEF Gathered
  <2>7. n + 1 = Start(blocks, k) + (j + 1)
    BY <2>4
  <2> QED BY <2>2, <2>3, <2>6, <2>7
<1>11. InBlock(reader', mem, blocks, k)
  BY <1>4, <1>5, <1>9, <1>10 DEF InBlock
<1>12. ReaderInv(reader', mem, Layout)
  BY <1>2, <1>8, <1>9, <1>11 DEF ReaderInv, ReaderOK, Regions
<1> QED BY <1>1, <1>12 DEF ReaderOK, ReadByte, OptsTyped

-----------------------------------------------------------------------------
(* The load.                                                               *)

\* The greatest of some numbers up to n is one of them.
LEMMA MaxTyped ==
  ASSUME NEW n \in Nat, NEW S \in SUBSET (1 .. n), S # {}
  PROVE  Max(S) \in S
<1> DEFINE T == {m \in Nat : n - m \in S}
<1>1. T # {}
  <2>1. PICK i \in S : TRUE
    OBVIOUS
  <2>2. n - i \in Nat /\ n - (n - i) = i
    BY <2>1
  <2> QED BY <2>1, <2>2
<1>2. PICK m \in T : \A k \in T : m <= k
  BY <1>1, LeastNumber
<1>3. n - m \in S /\ \A i \in S : n - m >= i
  <2> SUFFICES ASSUME NEW i \in S PROVE n - m >= i
    BY <1>2
  <2>1. n - i \in T
    <3>1. n - i \in Nat /\ n - (n - i) = i
      OBVIOUS
    <3> QED BY <3>1
  <2> QED BY <1>2, <2>1
<1> QED BY <1>3 DEF Max

\* A load writes what some address of the layout saved, and nothing elsewhere.
LEMMA RestoredIs ==
  ASSUME Layout \in [Regions -> Seq(WordExtent)], mem \in [Addr -> Byte],
         saved \in SaveState, Compatible
  PROVE  /\ Restored \in [Addr -> Byte]
         /\ RamAddresses \subseteq Addr
         /\ \A a \in Addr \ RamAddresses : Restored[a] = mem[a]
         /\ \A a \in RamAddresses : \E i \in 1 .. Len(Addresses(Layout["ram"])) :
              Addresses(Layout["ram"])[i] = a /\ Restored[a] = saved.ram[i]
<1> DEFINE addr == Addresses(Layout["ram"])
           writes(a) == {i \in DOMAIN addr : addr[i] = a}
<1>1. addr \in Seq(Addr)
  BY AddressesOf DEF Regions
<1>2. saved.ram \in Seq(Byte) /\ Len(saved.ram) = Len(addr)
  BY DEF SaveState, Compatible
<1>3. Restored = [a \in Addr |->
                    IF writes(a) = {} THEN mem[a] ELSE saved.ram[Max(writes(a))]]
  BY DEF Restored
<1>4. RamAddresses = {addr[i] : i \in DOMAIN addr}
  BY DEF RamAddresses, ToSet
<1> HIDE DEF addr
<1>5. DOMAIN addr = 1 .. Len(addr) /\ Len(addr) \in Nat
  BY <1>1, LenProperties
<1>6. ASSUME NEW a, writes(a) # {} PROVE Max(writes(a)) \in writes(a)
  <2>1. writes(a) \in SUBSET (1 .. Len(addr))
    BY <1>5
  <2> QED BY <1>5, <1>6, <2>1, MaxTyped
<1>7. \A i \in 1 .. Len(addr) : saved.ram[i] \in Byte
  BY <1>2
<1>8. ASSUME NEW a \in Addr PROVE Restored[a] \in Byte
  <2>1. CASE writes(a) = {}
    BY <1>3, <2>1
  <2>2. CASE writes(a) # {}
    <3>1. Restored[a] = saved.ram[Max(writes(a))]
      BY <1>3, <2>2
    <3>2. Max(writes(a)) \in 1 .. Len(addr)
      BY <1>5, <1>6, <2>2
    <3> QED BY <1>7, <3>1, <3>2
  <2> QED BY <2>1, <2>2
<1>9. RamAddresses \subseteq Addr
  BY <1>1, <1>4, <1>5
<1>10. ASSUME NEW a \in Addr \ RamAddresses PROVE Restored[a] = mem[a]
  <2>1. writes(a) = {}
    BY <1>4
  <2> QED BY <1>3, <2>1
<1>11. ASSUME NEW a \in RamAddresses
       PROVE  \E i \in 1 .. Len(addr) : addr[i] = a /\ Restored[a] = saved.ram[i]
  <2>1. writes(a) # {}
    BY <1>4
  <2>2. Max(writes(a)) \in 1 .. Len(addr) /\ addr[Max(writes(a))] = a
    BY <1>5, <1>6, <2>1
  <2>3. Restored[a] = saved.ram[Max(writes(a))]
    BY <1>3, <1>9, <2>1
  <2> QED BY <2>2, <2>3
<1>12. Restored = [a \in Addr |-> Restored[a]]
  BY <1>3
<1>13. Restored \in [Addr -> Byte]
  BY <1>8, <1>12
<1> QED BY <1>9, <1>10, <1>11, <1>13 DEF addr

\* A save state is that of the machine it was taken of.
SavedInv ==
  saved # None =>
    saved = [cpu |-> shot.cpu, ram |-> Contents(shot.mem, shot.layout["ram"]),
             rom |-> Contents(shot.mem, shot.layout["rom"])]

IInv == TypeOK /\ ReaderOK /\ SavedInv

\* At its end a save has both regions.
LEMMA SaveEndGathers ==
  ASSUME ReaderOK, SaveEnd
  PROVE  /\ reader.ram = Contents(mem, Layout["ram"]) /\ reader.ram \in Seq(Byte)
         /\ reader.rom = Contents(mem, Layout["rom"]) /\ reader.rom \in Seq(Byte)
<1> DEFINE rom == Layout["rom"]
<1>1. rom \in Seq(WordExtent)
  BY LayoutIsTyped DEF ReaderOK, Regions
<1>2. PICK k \in 0 .. Len(rom) : InBlock(reader, mem, rom, k)
  BY DEF ReaderOK, ReaderInv, SaveEnd
<1>3. reader.ram \in Seq(Byte) /\ reader.rom \in Seq(Byte)
  BY DEF ReaderOK, ReaderInv, Readers
<1>4. k = Len(rom)
  BY <1>1, <1>2, BeforeInBlock DEF InBlock, SaveEnd
<1>5. Gathered(reader.rom, mem, rom, Len(Addresses(rom)))
  BY <1>1, <1>2, <1>4, AddressesOf DEF InBlock, SaveEnd
<1> QED BY <1>1, <1>3, <1>5, GatheredAll DEF ReaderOK, ReaderInv, SaveEnd

\* The invariant holds at first and is kept by every step.
LEMMA IInvInit == Init => IInv
<1> SUFFICES ASSUME Init PROVE IInv
  OBVIOUS
<1>1. OptsTyped
  BY ZeroBlock DEF Init, OptsTyped, DefaultOpts, Regions
<1>2. ReaderInv(reader, mem, Layout)
  BY ClosedInv DEF Init
<1>3. TypeOK
  BY <1>2 DEF Init, TypeOK, ReaderInv, Readers, Regions
<1> QED BY <1>1, <1>2, <1>3 DEF Init, IInv, ReaderOK, SavedInv

LEMMA IInvNext == IInv /\ [Next]_vars => IInv'
<1> SUFFICES ASSUME IInv, [Next]_vars PROVE IInv'
  OBVIOUS
<1>1. OptsTyped'
  BY StepOptsTyped DEF IInv, ReaderOK
<1>2. DOMAIN opts' = DOMAIN DefaultOpts
  BY <1>1 DEF OptsTyped, DefaultOpts
<1>3. ASSUME ReaderOK', cpu' \in Val,
             saved' \in SaveState \cup {None}, shot' \in MachineState \cup {None},
             (saved' = None) = (shot' = None), SavedInv'
      PROVE  IInv'
  BY <1>2, <1>3 DEF IInv, TypeOK, ReaderOK, ReaderInv, Readers, Regions
<1>4. UNCHANGED <<saved, shot>> =>
        /\ saved' \in SaveState \cup {None} /\ shot' \in MachineState \cup {None}
        /\ (saved' = None) = (shot' = None) /\ SavedInv'
  BY DEF IInv, TypeOK, SavedInv
<1>5. ~Reading => reader = Closed
  BY DEF IInv, ReaderOK, ReaderInv, Reading
<1>6. ASSUME NEW json \in Inputs, Configure(json) PROVE IInv'
  <2>1. ReaderInv(reader, mem, Layout)'
    BY <1>5, <1>6, ClosedInv DEF Configure
  <2> QED BY <1>1, <1>3, <1>4, <1>6, <2>1 DEF Configure, IInv, TypeOK, ReaderOK
<1>7. ASSUME NEW addr \in Addr, NEW byte \in Byte, Execute(addr, byte) PROVE IInv'
  <2>1. ReaderInv(reader, mem, Layout)'
    BY <1>5, <1>7, ClosedInv DEF Execute
  <2>2. mem' \in [Addr -> Byte]
    BY <1>7 DEF Execute, IInv, TypeOK
  <2> QED BY <1>1, <1>3, <1>4, <1>7, <2>1, <2>2 DEF Execute, ReaderOK
<1>8. CASE SaveBegin
  BY <1>3, <1>4, <1>8, SaveBeginInv DEF SaveBegin, IInv, TypeOK
<1>9. CASE ReadByte
  BY <1>3, <1>4, <1>9, ReadByteInv DEF ReadByte, IInv, TypeOK
<1>10. CASE OutOfMemory
  <2>1. ReaderInv(reader, mem, Layout)'
    BY <1>10, ClosedInv DEF OutOfMemory
  <2> QED BY <1>1, <1>3, <1>4, <1>10, <2>1 DEF OutOfMemory, IInv, TypeOK, ReaderOK
<1>11. CASE NextBlock
  BY <1>3, <1>4, <1>11, NextBlockInv DEF NextBlock, IInv, TypeOK
<1>12. CASE NextRegion
  BY <1>3, <1>4, <1>12, NextRegionInv DEF NextRegion, IInv, TypeOK
<1>13. CASE SaveEnd
  <2>1. /\ reader.ram = Contents(mem, Layout["ram"]) /\ reader.ram \in Seq(Byte)
        /\ reader.rom = Contents(mem, Layout["rom"]) /\ reader.rom \in Seq(Byte)
    BY <1>13, SaveEndGathers DEF IInv
  <2>2. ReaderInv(reader, mem, Layout)'
    BY <1>13, ClosedInv DEF SaveEnd
  <2>3. cpu' = cpu /\ cpu \in Val /\ mem' = mem /\ mem \in [Addr -> Byte]
    BY <1>13 DEF SaveEnd, IInv, TypeOK
  <2>4. saved' \in SaveState /\ saved' # None
    BY <1>13, <2>1, <2>3, NoneAssumption DEF SaveEnd, SaveState
  <2>5. shot' \in MachineState /\ shot' # None
    <3>1. Layout \in [Regions -> Seq([offset : Addr, size : Addr])]
      BY LayoutIsTyped DEF IInv, ReaderOK, WordExtent
    <3>2. shot' = [layout |-> Layout, mem |-> mem, cpu |-> cpu]
      BY <1>13 DEF SaveEnd, Machine
    <3> DEFINE layout == Layout
    <3>3. shot' = [layout |-> layout, mem |-> mem, cpu |-> cpu]
      BY <3>2
    <3>4. layout \in [Regions -> Seq([offset : Addr, size : Addr])]
      BY <3>1
    <3> HIDE DEF layout
    <3>5. shot' \in MachineState
      BY <2>3, <3>3, <3>4 DEF MachineState
    <3> QED BY <3>5, NoneAssumption
  <2>6. SavedInv'
    BY <1>13, <2>1 DEF SaveEnd, SavedInv, Machine
  <2> QED BY <1>1, <1>3, <2>2, <2>3, <2>4, <2>5, <2>6 DEF ReaderOK
<1>14. CASE Load
  <2>1. ReaderInv(reader, mem, Layout)'
    BY <1>5, <1>14, ClosedInv DEF Load
  <2>2. saved \in SaveState
    BY <1>14 DEF Load, IInv, TypeOK
  <2>3. mem' \in [Addr -> Byte]
    BY <1>14, <2>2, LayoutIsTyped, RestoredIs DEF Load, IInv, ReaderOK
  <2>4. cpu' \in Val
    BY <1>14, <2>2 DEF Load, SaveState
  <2> QED BY <1>1, <1>3, <1>4, <1>14, <2>1, <2>3, <2>4 DEF Load, ReaderOK
<1>15. CASE UNCHANGED vars
  <2>1. Layout' = Layout
    BY <1>15, LayoutKept DEF vars
  <2> QED BY <1>1, <1>3, <1>4, <1>15, <2>1 DEF vars, IInv, TypeOK, ReaderOK
<1> QED
  BY <1>6, <1>7, <1>8, <1>9, <1>10, <1>11, <1>12, <1>13, <1>14, <1>15 DEF Next, Save

-----------------------------------------------------------------------------
(* What holds of every layout.                                             *)

LEMMA Invariant == Spec => []IInv
<1> QED BY IInvInit, IInvNext, PTL DEF Spec

\* The vectors of a save hold bytes, its address stays a word, and the save
\* state, once there is one, is one (the rm reader of IMachine::Save).
THEOREM SnapshotTyped == Spec => []TypeOK
<1>1. IInv => TypeOK
  BY DEF IInv
<1> QED BY <1>1, Invariant, PTL

\* Every block ends before the last address, which the 16 bit address of the
\* loops needs: it never leaves a block that ends there.
BelowTop ==
  \A region \in Regions : \A i \in DOMAIN Layout[region] : Below(Layout[region][i])

\* The first n bytes of the contents are a prefix of them.
LEMMA GatheredIsPrefix ==
  ASSUME NEW blocks \in Seq(WordExtent), NEW memory \in [Addr -> Byte],
         NEW bytes \in Seq(Byte), NEW n \in Nat, n <= Len(Addresses(blocks)),
         Gathered(bytes, memory, blocks, n)
  PROVE  IsPrefix(bytes, Contents(memory, blocks))
<1> DEFINE all == Contents(memory, blocks)
<1>1. /\ all \in Seq(Byte) /\ Len(all) = Len(Addresses(blocks))
      /\ \A i \in 1 .. Len(Addresses(blocks)) : all[i] = memory[Addresses(blocks)[i]]
  BY ContentsTyped
<1> HIDE DEF all
<1>2. Len(bytes) = n /\ n <= Len(all) /\ \A i \in 1 .. n : bytes[i] = all[i]
  BY <1>1 DEF Gathered
<1>3. IsPrefix(bytes, all)
  <2>1. Len(bytes) <= Len(all) /\ \A i \in 1 .. Len(bytes) : bytes[i] = all[i]
    BY <1>2
  <2>2. Len(SubSeq(all, 1, Len(bytes))) = Len(bytes)
        /\ \A i \in 1 .. Len(bytes) : SubSeq(all, 1, Len(bytes))[i] = all[i]
    BY <1>1, <2>1
  <2> QED BY <1>1, <2>1, <2>2, SeqEqual DEF IsPrefix
<1> QED BY <1>3 DEF all

LEMMA NothingIsPrefix ==
  ASSUME NEW blocks \in Seq(WordExtent), NEW memory \in [Addr -> Byte]
  PROVE  IsPrefix(<< >>, Contents(memory, blocks))
<1>1. Gathered(<< >>, memory, blocks, 0)
  BY DEF Gathered
<1>2. Len(Addresses(blocks)) \in Nat
  BY AddressesOf, LenProperties
<1>3. << >> \in Seq(Byte) /\ 0 \in Nat /\ 0 <= Len(Addresses(blocks))
  BY <1>2, EmptySeq
<1> QED BY <1>1, <1>3, GatheredIsPrefix

\* A save of blocks below the last address has gathered some number of bytes.
LEMMA GatheredSome ==
  ASSUME NEW blocks \in Seq(WordExtent), NEW memory, NEW r, NEW k \in 0 .. Len(blocks),
         InBlock(r, memory, blocks, k), \A i \in DOMAIN blocks : Below(blocks[i])
  PROVE  \E n \in 0 .. Len(Addresses(blocks)) :
           /\ Gathered(r[r.region], memory, blocks, n)
           /\ k < Len(blocks) /\ r.addr < blocks[k + 1].offset + blocks[k + 1].size
                => n < Len(Addresses(blocks))
<1> DEFINE total == Len(Addresses(blocks))
           got == r[r.region]
<1>1. Len(blocks) \in Nat /\ DOMAIN blocks = 1 .. Len(blocks)
  BY LenProperties
<1>2. Start(blocks, k) \in 0 .. total /\ total \in Nat
  BY AddressesOf, LenProperties
<1>3. CASE k = Len(blocks)
  <2>1. Gathered(got, memory, blocks, Start(blocks, k))
    BY <1>3 DEF InBlock
  <2>2. ~(k < Len(blocks))
    BY <1>1, <1>3
  <2> HIDE DEF total, got
  <2> QED BY <1>2, <2>1, <2>2 DEF total, got
<1>4. CASE k < Len(blocks)
  <2> DEFINE block == blocks[k + 1]
  <2>1. k + 1 \in 1 .. Len(blocks) /\ k + 1 \in 0 .. Len(blocks) /\ (k + 1) - 1 = k
    BY <1>1, <1>4
  <2>2. block.size \in Nat /\ block.offset \in Nat /\ Below(block)
    <3>1. block.size \in Addr /\ block.offset \in Addr /\ k + 1 \in DOMAIN blocks
      BY <1>1, <2>1, RunsTyped
    <3> QED BY <3>1 DEF Addr
  <2>3. Start(blocks, k + 1) = Start(blocks, k) + block.size
        /\ Start(blocks, k + 1) \in 0 .. total
    BY <2>1, AddressesOf
  <2>4. PICK j \in 0 .. block.size : /\ r.addr = block.offset + j
                                     /\ Gathered(got, memory, blocks, Start(blocks, k) + j)
    BY <1>4, <2>2 DEF InBlock
  <2> HIDE DEF total, got, block
  <2>5. Start(blocks, k) + j \in 0 .. total
    BY <1>2, <2>2, <2>3, <2>4
  <2>6. r.addr < block.offset + block.size => Start(blocks, k) + j < total
    BY <1>2, <2>2, <2>3, <2>4
  <2> QED BY <2>4, <2>5, <2>6 DEF total, got, block
<1>5. k = Len(blocks) \/ k < Len(blocks)
  <2>1. Len(blocks) \in Nat
    BY <1>1
  <2> DEFINE m == Len(blocks)
  <2> HIDE DEF m
  <2>2. k \in 0 .. m /\ m \in Nat
    BY <2>1 DEF m
  <2>3. k = m \/ k < m
    BY <2>2
  <2> QED BY <2>3 DEF m
<1> HIDE DEF total, got
<1> QED BY <1>3, <1>4, <1>5 DEF total, got

\* What has been gathered is a prefix, in each of the two loops.
LEMMA Gathers == IInv /\ BelowTop => GathersLayout
<1> SUFFICES ASSUME IInv, BelowTop PROVE GathersLayout
  OBVIOUS
<1>1. Layout \in [Regions -> Seq(WordExtent)] /\ mem \in [Addr -> Byte]
  BY LayoutIsTyped DEF IInv, ReaderOK
<1>2. ReaderInv(reader, mem, Layout)
  BY DEF IInv, ReaderOK
<1>3. \A region \in Regions : IsPrefix(<< >>, Contents(mem, Layout[region]))
  BY <1>1, NothingIsPrefix
<1>4. reader.ram \in Seq(Byte) /\ reader.rom \in Seq(Byte)
  BY <1>2 DEF ReaderInv, Readers
<1>5. ASSUME reader.region \in Regions
      PROVE  IsPrefix(reader[reader.region], Contents(mem, Layout[reader.region]))
  <2> DEFINE blocks == Layout[reader.region]
             got == reader[reader.region]
  <2>1. blocks \in Seq(WordExtent) /\ got \in Seq(Byte)
    BY <1>1, <1>4, <1>5 DEF Regions
  <2>2. PICK k \in 0 .. Len(blocks) : InBlock(reader, mem, blocks, k)
    BY <1>2, <1>5 DEF ReaderInv, Regions
  <2>3. \A i \in DOMAIN blocks : Below(blocks[i])
    BY <1>5 DEF BelowTop
  <2>4. PICK n \in 0 .. Len(Addresses(blocks)) : Gathered(got, mem, blocks, n)
    BY <2>1, <2>2, <2>3, GatheredSome
  <2>5. n \in Nat /\ n <= Len(Addresses(blocks))
    BY <2>1, <2>4, AddressesOf, LenProperties
  <2> HIDE DEF blocks, got
  <2>6. IsPrefix(got, Contents(mem, blocks))
    BY <1>1, <2>1, <2>4, <2>5, GatheredIsPrefix
  <2> QED BY <2>6 DEF blocks, got
<1>6. ASSUME NEW blocks \in Seq(WordExtent)
      PROVE  IsPrefix(Contents(mem, blocks), Contents(mem, blocks))
  <2>1. /\ Contents(mem, blocks) \in Seq(Byte)
        /\ Gathered(Contents(mem, blocks), mem, blocks, Len(Addresses(blocks)))
        /\ Len(Addresses(blocks)) \in Nat
    BY <1>1, ContentsTyped, AddressesOf, LenProperties DEF Gathered
  <2> QED BY <1>1, <2>1, GatheredIsPrefix
<1>7. CASE reader.region = "none"
  <2>1. reader.ram = << >> /\ reader.rom = << >>
    BY <1>2, <1>7 DEF ReaderInv, Closed, Open
  <2> QED BY <1>3, <2>1 DEF GathersLayout, Regions
<1>8. CASE reader.region = "ram"
  <2>1. reader.rom = << >>
    BY <1>2, <1>8 DEF ReaderInv
  <2> QED BY <1>3, <1>5, <1>8, <2>1 DEF GathersLayout, Regions
<1>9. CASE reader.region = "rom"
  <2>1. reader.ram = Contents(mem, Layout["ram"]) /\ Layout["ram"] \in Seq(WordExtent)
    BY <1>1, <1>2, <1>9 DEF ReaderInv, Regions
  <2> QED BY <1>5, <1>6, <1>9, <2>1 DEF GathersLayout, Regions
<1> QED BY <1>2, <1>7, <1>8, <1>9 DEF ReaderInv, Readers, Regions

\* Whenever the configured blocks end below the last address, what a save
\* has gathered is a part of what the layout names, in its order, whatever the
\* number of blocks, their order and overlaps (the rm reader of IMachine::Save).
THEOREM SaveGathersLayout == Spec => [](BelowTop => GathersLayout)
<1> QED BY Invariant, Gathers, PTL

\* Of the steps that end a save only SaveEnd can happen: a vector that holds
\* the whole layout does not run out of capacity before its end.
LEMMA StepReturnsState ==
  ASSUME IInv, BelowTop, [Next]_vars, Reading, reader'.region = "none", Fits
  PROVE  saved' = [cpu |-> cpu, ram |-> Contents(mem, Layout["ram"]),
                   rom |-> Contents(mem, Layout["rom"])]
<1>1. reader.region \in Regions /\ reader' # reader
  <2>1. reader.region \in Regions \cup {"none"}
    BY DEF IInv, ReaderOK, ReaderInv, Readers
  <2> QED BY <2>1 DEF Reading
<1>2. CASE SaveEnd
  BY <1>2, SaveEndGathers DEF IInv, SaveEnd
<1>3. ~OutOfMemory
  <2> SUFFICES ASSUME OutOfMemory PROVE FALSE
    OBVIOUS
  <2> DEFINE blocks == Layout[reader.region]
             got == reader[reader.region]
             total == Len(Addresses(blocks))
  <2>1. blocks \in Seq(WordExtent)
    BY <1>1, LayoutIsTyped DEF IInv, ReaderOK
  <2>2. PICK k \in 0 .. Len(blocks) : InBlock(reader, mem, blocks, k)
    BY <1>1 DEF IInv, ReaderOK, ReaderInv, Regions
  <2>3. /\ k < Len(blocks)
        /\ reader.addr < blocks[k + 1].offset + blocks[k + 1].size
    <3>1. Len(blocks) \in Nat
      BY <2>1, LenProperties
    <3>2. reader.blocks # << >>
      BY DEF OutOfMemory, Before
    <3>3. k + 1 \in 1 .. Len(blocks) /\ Head(reader.blocks) = blocks[k + 1]
      BY <2>1, <2>2, <3>2, BeforeInBlock DEF InBlock
    <3>4. reader.addr < Head(reader.blocks).offset + Head(reader.blocks).size
      BY DEF OutOfMemory, Before
    <3> QED BY <3>1, <3>3, <3>4
  <2>4. \A i \in DOMAIN blocks : Below(blocks[i])
    BY <1>1 DEF BelowTop
  <2>5. PICK n \in 0 .. total : Gathered(got, mem, blocks, n) /\ n < total
    BY <2>1, <2>2, <2>3, <2>4, GatheredSome
  <2>6. Len(got) = n /\ total \in Nat
    BY <2>1, <2>5, AddressesOf, LenProperties DEF Gathered
  <2>7. total <= Capacity
    BY <1>1 DEF Fits
  <2>8. Len(got) >= Capacity
    BY DEF OutOfMemory
  <2> HIDE DEF got, total
  <2> QED BY <2>5, <2>6, <2>7, <2>8, CapacityAssumption
<1>4. ~ReadByte
  <2>1. ReadByte => reader'.region = reader.region
    <3>1. reader \in Readers
      BY DEF IInv, ReaderOK, ReaderInv
    <3>2. ASSUME ReadByte PROVE reader'.region = reader.region
      <4> DEFINE more == Append(reader[reader.region], mem[reader.addr])
                 next == (reader.addr + 1) % Space
      <4>1. reader' = [reader EXCEPT ![reader.region] = more, !.addr = next]
        BY <3>2 DEF ReadByte
      <4> HIDE DEF more, next
      <4> QED BY <1>1, <3>1, <4>1 DEF Readers, Regions
    <3> QED BY <3>2
  <2> QED BY <1>1, <2>1 DEF Regions
<1>5. ~SaveBegin /\ ~Load
  BY DEF SaveBegin, Load
<1>6. ~NextBlock /\ ~NextRegion
  <2>1. NextBlock => reader'.region = reader.region
    BY DEF NextBlock, Open
  <2>2. NextRegion => reader'.region = "rom"
    BY DEF NextRegion, Open
  <2> QED BY <1>1, <2>1, <2>2 DEF Regions
<1>7. ~(\E json \in Inputs : Configure(json))
  BY DEF Configure
<1>8. ~(\E addr \in Addr, byte \in Byte : Execute(addr, byte))
  BY DEF Execute
<1>9. ~(UNCHANGED vars)
  BY <1>1 DEF vars
<1> QED BY <1>2, <1>3, <1>4, <1>5, <1>6, <1>7, <1>8, <1>9 DEF Next, Save

\* A save of blocks below the last address that a vector can hold ends with
\* the bytes of each of them: it neither loses one nor runs out of memory.
THEOREM SaveReturnsBlocks == Spec /\ []BelowTop => SaveReturnsState
<1>1. IInv /\ BelowTop /\ [Next]_vars
        => [Reading /\ reader'.region = "none" /\ Fits
              => saved' = [cpu |-> cpu, ram |-> Contents(mem, Layout.ram),
                           rom |-> Contents(mem, Layout.rom)]]_vars
  BY StepReturnsState
<1> QED BY <1>1, Invariant, PTL DEF Spec, SaveReturnsState

\* How far a save in progress has come, and what bounds it.
LEMMA SaveStands ==
  ASSUME IInv, BelowTop, Reading
  PROVE  /\ reader.region \in Regions /\ reader[reader.region] \in Seq(Byte)
         /\ reader.blocks \in Seq(WordExtent) /\ Len(reader.blocks) \in Nat
         /\ Len(Addresses(Layout[reader.region])) \in Nat
         /\ Len(reader[reader.region]) \in 0 .. Len(Addresses(Layout[reader.region]))
         /\ Len(Addresses(Layout["rom"])) \in Nat /\ Len(Layout["rom"]) \in Nat
<1> DEFINE blocks == Layout[reader.region]
           got == reader[reader.region]
<1>1. Layout \in [Regions -> Seq(WordExtent)] /\ ReaderInv(reader, mem, Layout)
  BY LayoutIsTyped DEF IInv, ReaderOK
<1>2. reader.region \in Regions
  BY <1>1 DEF Reading, ReaderInv, Readers
<1>3. blocks \in Seq(WordExtent) /\ Layout["rom"] \in Seq(WordExtent)
  BY <1>1, <1>2 DEF Regions
<1>4. got \in Seq(Byte) /\ reader.blocks \in Seq(WordExtent)
  BY <1>1, <1>2 DEF ReaderInv, Readers, Regions
<1>5. \A i \in DOMAIN blocks : Below(blocks[i])
  BY <1>2 DEF BelowTop
<1>6. PICK k \in 0 .. Len(blocks) : InBlock(reader, mem, blocks, k)
  BY <1>1, <1>2 DEF ReaderInv, Regions
<1>7. PICK n \in 0 .. Len(Addresses(blocks)) : Gathered(got, mem, blocks, n)
  BY <1>3, <1>5, <1>6, GatheredSome
<1>8. /\ Len(Addresses(blocks)) \in Nat /\ Len(Addresses(Layout["rom"])) \in Nat
      /\ Len(Layout["rom"]) \in Nat /\ Len(reader.blocks) \in Nat
  BY <1>3, <1>4, AddressesOf, LenProperties
<1>9. Len(got) \in 0 .. Len(Addresses(blocks))
  BY <1>7 DEF Gathered
<1> QED BY <1>2, <1>4, <1>8, <1>9

\* Each step of a save but the last does one of the things it has to do.
LEMMA StepAdvances ==
  ASSUME IInv, BelowTop, [Next]_vars, Reading
  PROVE  /\ StepsLeft \in Nat
         /\ UNCHANGED vars \/ reader'.region = "none" \/ StepsLeft' = StepsLeft - 1
<1> DEFINE region == reader.region
           got == Len(reader[reader.region])
           total == Len(Addresses(Layout[reader.region]))
           blocks == Len(reader.blocks)
           romBytes == Len(Addresses(Layout["rom"]))
           romBlocks == Len(Layout["rom"])
           rom == romBytes + romBlocks
           ends == IF region = "rom" THEN 1 ELSE 2 + rom
<1>1. region \in Regions /\ reader \in Readers /\ region # "none"
  <2>1. region \in Regions
    BY SaveStands
  <2>2. reader \in Readers
    BY DEF IInv, ReaderOK, ReaderInv
  <2> QED BY <2>1, <2>2 DEF Regions
<1>2. blocks \in Nat /\ total \in Nat /\ got \in 0 .. total
  BY SaveStands
<1>3. rom \in Nat /\ 2 + rom = 2 + romBytes + romBlocks
  <2>1. romBytes \in Nat /\ romBlocks \in Nat
    BY SaveStands
  <2> HIDE DEF romBytes, romBlocks
  <2> QED BY <2>1
<1>4. StepsLeft = total - got + blocks + ends /\ ends \in Nat
  <2>1. StepsLeft = total - got + blocks + IF region = "rom" THEN 1
                                           ELSE 2 + romBytes + romBlocks
    BY DEF StepsLeft, LoopLeft
  <2> HIDE DEF rom, romBytes, romBlocks
  <2>2. ends = IF region = "rom" THEN 1 ELSE 2 + romBytes + romBlocks
    BY <1>3
  <2>3. ends \in Nat
    BY <1>3
  <2> HIDE DEF ends
  <2> QED BY <2>1, <2>2, <2>3
<1> HIDE DEF ends
<1>5. StepsLeft \in Nat
  <2> HIDE DEF got, total, blocks, rom
  <2> QED BY <1>2, <1>3, <1>4
<1>6. ASSUME reader'.region = region, Layout' = Layout,
             \/ Len(reader'[region]) = got + 1 /\ Len(reader'.blocks) = blocks
             \/ reader'[region] = reader[region] /\ Len(reader'.blocks) = blocks - 1
      PROVE  StepsLeft' = StepsLeft - 1
  <2>1. StepsLeft' = total - Len(reader'[region]) + Len(reader'.blocks) + ends
    <3>1. StepsLeft' = total - Len(reader'[region]) + Len(reader'.blocks)
                        + IF region = "rom" THEN 1 ELSE 2 + romBytes + romBlocks
      BY <1>6 DEF StepsLeft, LoopLeft
    <3> HIDE DEF rom, romBytes, romBlocks
    <3> QED BY <1>3, <3>1 DEF ends
  <2>2. \/ Len(reader'[region]) = got + 1 /\ Len(reader'.blocks) = blocks
        \/ Len(reader'[region]) = got /\ Len(reader'.blocks) = blocks - 1
    BY <1>6
  <2> DEFINE got2 == Len(reader'[region])
             blocks2 == Len(reader'.blocks)
  <2>3. StepsLeft' = total - got2 + blocks2 + ends
    BY <2>1
  <2>4. \/ got2 = got + 1 /\ blocks2 = blocks
        \/ got2 = got /\ blocks2 = blocks - 1
    BY <2>2
  <2> HIDE DEF got, total, blocks, got2, blocks2
  <2> QED BY <1>2, <1>4, <2>3, <2>4
<1>7. CASE ReadByte
  <2> DEFINE more == Append(reader[reader.region], mem[reader.addr])
             next == (reader.addr + 1) % Space
  <2>1. Layout' = Layout
    BY <1>7, LayoutKept DEF ReadByte
  <2>2. Len(more) = got + 1
    <3>1. mem[reader.addr] \in Byte
      BY <1>1 DEF IInv, ReaderOK, Readers
    <3> QED BY <3>1, SaveStands, AppendProperties
  <2>3. reader' = [reader EXCEPT ![reader.region] = more, !.addr = next]
    BY <1>7 DEF ReadByte
  <2> HIDE DEF more, next
  <2>4. /\ reader'.region = reader.region /\ reader'.blocks = reader.blocks
        /\ reader'[reader.region] = more
    <3>1. CASE reader.region = "ram"
      BY <1>1, <2>3, <3>1 DEF Readers
    <3>2. CASE reader.region = "rom"
      BY <1>1, <2>3, <3>2 DEF Readers
    <3> QED BY <1>1, <3>1, <3>2 DEF Regions
  <2>5. Len(reader'[region]) = got + 1 /\ Len(reader'.blocks) = blocks
    BY <2>2, <2>4
  <2> QED BY <1>5, <1>6, <2>1, <2>4, <2>5
<1>8. CASE NextBlock
  <2>1. Layout' = Layout
    BY <1>8, LayoutKept DEF NextBlock
  <2>2. /\ reader'.region = region /\ reader'.blocks = Tail(reader.blocks)
        /\ reader'.ram = reader.ram /\ reader'.rom = reader.rom
    BY <1>8 DEF NextBlock, Open
  <2>3. reader'[region] = reader[region]
    BY <1>1, <2>2 DEF Regions
  <2>4. Len(Tail(reader.blocks)) = blocks - 1
    <3>1. reader.blocks \in Seq(WordExtent) /\ reader.blocks # << >>
      BY <1>8, SaveStands DEF NextBlock
    <3> HIDE DEF WordExtent
    <3> DEFINE seq == reader.blocks
    <3>2. seq \in Seq(WordExtent) /\ seq # << >>
      BY <3>1
    <3> HIDE DEF seq
    <3>3. Len(Tail(seq)) = Len(seq) - 1
      BY <3>2
    <3> QED BY <3>3 DEF seq
  <2>5. Len(reader'.blocks) = blocks - 1
    BY <2>2, <2>4
  <2> HIDE DEF blocks
  <2> QED BY <1>5, <1>6, <2>1, <2>2, <2>3, <2>5
<1>9. CASE NextRegion
  <2>1. Layout' = Layout /\ mem' = mem
    BY <1>9, LayoutKept DEF NextRegion
  <2>2. /\ region = "ram" /\ reader.blocks = << >>
        /\ reader'.region = "rom" /\ reader'.blocks = Layout["rom"]
        /\ reader'.ram = reader.ram /\ reader'.rom = reader.rom
    BY <1>9 DEF NextRegion, Open
  <2>3. got = total
    <3>1. reader'.ram = Contents(mem', Layout'["ram"])
      <4>1. ReaderOK'
        BY <1>9, NextRegionInv DEF IInv
      <4> QED BY <2>2, <4>1 DEF ReaderOK, ReaderInv
    <3>2. Layout["ram"] \in Seq(WordExtent) /\ mem \in [Addr -> Byte]
      BY LayoutIsTyped DEF IInv, ReaderOK, Regions
    <3>3. Len(Contents(mem, Layout["ram"])) = Len(Addresses(Layout["ram"]))
      BY <3>2, ContentsTyped
    <3>4. reader["ram"] = Contents(mem, Layout["ram"])
      BY <2>1, <2>2, <3>1
    <3> QED BY <2>2, <3>3, <3>4
  <2>4. reader'["rom"] = << >> /\ blocks = 0 /\ Len(reader'["rom"]) = 0
    <3>1. reader.rom = << >>
      BY <2>2 DEF IInv, ReaderOK, ReaderInv
    <3> QED BY <2>2, <3>1
  <2>5. StepsLeft' = Len(Addresses(Layout["rom"])) - 0 + Len(Layout["rom"]) + 1
    BY <2>1, <2>2, <2>4 DEF StepsLeft, LoopLeft
  <2>6. StepsLeft' = rom + 1
    <3>1. romBytes \in Nat /\ romBlocks \in Nat /\ StepsLeft' = romBytes - 0 + romBlocks + 1
      BY <2>5, SaveStands
    <3> HIDE DEF romBytes, romBlocks
    <3> QED BY <3>1
  <2>7. ends = 2 + rom
    BY <2>2 DEF ends
  <2> HIDE DEF total, got, blocks, rom
  <2> QED BY <1>2, <1>3, <1>4, <2>3, <2>4, <2>6, <2>7
<1>10. OutOfMemory \/ SaveEnd => reader'.region = "none"
  BY DEF OutOfMemory, SaveEnd, Closed, Open
<1>11. ~SaveBegin /\ ~Load /\ ~(\E json \in Inputs : Configure(json))
       /\ ~(\E addr \in Addr, byte \in Byte : Execute(addr, byte))
  BY DEF SaveBegin, Load, Configure, Execute
<1> QED BY <1>5, <1>7, <1>8, <1>9, <1>10, <1>11 DEF Next, Save

\* Whenever the configured blocks end below the last address, a save has a known
\* number of steps to take, one for each byte and block and one for each loop, and
\* takes one of them with every step: whatever the layout, its loops end, and if
\* memory does not run out it ends with every byte (the rm reader of IMachine::Save).
THEOREM SaveEndsInTime == Spec /\ []BelowTop => SaveAdvances
<1>1. IInv /\ BelowTop /\ [Next]_vars
        => [Reading => /\ StepsLeft \in Nat
                       /\ reader'.region = "none" \/ StepsLeft' = StepsLeft - 1]_vars
  BY StepAdvances
<1> QED BY <1>1, Invariant, PTL DEF Spec, SaveAdvances

\* The loop reads a block that ends at the last address or beyond.
AtTop ==
  /\ reader.blocks # << >>
  /\ Head(reader.blocks).offset + Head(reader.blocks).size >= Space

\* A loop that has come to such a block reads one byte after the other, round the
\* memory, until a vector cannot grow: the address wraps before it reaches the
\* end of the block, so no step leaves it, and no save state is ever returned
\* (Machine.cpp's uint16_t loops against an int end).
LEMMA StepAtTop ==
  ASSUME IInv, [Next]_vars, AtTop
  PROVE  UNCHANGED vars \/ (ReadByte /\ AtTop') \/ OutOfMemory
<1>1. reader.addr < Head(reader.blocks).offset + Head(reader.blocks).size
  <2> DEFINE end == Head(reader.blocks).offset + Head(reader.blocks).size
  <2>1. end \in Int
    <3>1. Head(reader.blocks) \in WordExtent
      <4>1. reader.blocks \in Seq(WordExtent) /\ reader.blocks # << >>
        BY DEF IInv, ReaderOK, ReaderInv, Readers, AtTop
      <4> QED BY <4>1, HeadTailProperties
    <3> QED BY <3>1 DEF WordExtent, Addr
  <2>2. reader.addr \in Addr /\ end >= Space
    BY DEF IInv, ReaderOK, ReaderInv, Readers, AtTop
  <2> HIDE DEF end
  <2>3. reader.addr < end
    BY <2>1, <2>2, OptionsAssumption DEF Addr
  <2> QED BY <2>3 DEF end
<1>2. Before
  BY <1>1 DEF Before, AtTop
<1>3. reader \in Readers /\ reader.region \in Regions
  <2>1. reader \in Readers /\ (reader.region = "none" => reader = Closed)
    BY DEF IInv, ReaderOK, ReaderInv
  <2>2. Closed.blocks = << >>
    BY DEF Closed, Open
  <2> QED BY <2>1, <2>2 DEF AtTop, Readers
<1>4. ReadByte => AtTop'
  <2> DEFINE more == Append(reader[reader.region], mem[reader.addr])
             next == (reader.addr + 1) % Space
  <2>1. ReadByte => reader' = [reader EXCEPT ![reader.region] = more, !.addr = next]
    BY DEF ReadByte
  <2> HIDE DEF more, next
  <2>2. ReadByte => reader'.blocks = reader.blocks
    BY <1>3, <2>1 DEF Readers, Regions
  <2> QED BY <2>2 DEF AtTop
<1>5. ~NextBlock /\ ~NextRegion /\ ~SaveEnd
  BY <1>2 DEF NextBlock, NextRegion, SaveEnd, AtTop
<1>6. ~SaveBegin /\ ~Load /\ ~(\E json \in Inputs : Configure(json))
      /\ ~(\E addr \in Addr, byte \in Byte : Execute(addr, byte))
  <2>1. Reading
    BY <1>3 DEF Reading, Regions
  <2> QED BY <2>1 DEF SaveBegin, Load, Configure, Execute
<1> QED BY <1>4, <1>5, <1>6 DEF Next, Save

\* So a save or a load of such a layout, in any address space and with whatever is
\* in memory, comes to no end but an exception: no save that comes to a block
\* ending at the last address returns.
THEOREM TopIsNeverLeft ==
  Spec => [][AtTop => (ReadByte /\ AtTop') \/ OutOfMemory]_vars
<1>1. IInv /\ [Next]_vars => [AtTop => (ReadByte /\ AtTop') \/ OutOfMemory]_vars
  BY StepAtTop
<1> QED BY <1>1, Invariant, PTL DEF Spec

\* Each byte a load writes is the one that was at its address.
LEMMA StepRoundTrip ==
  ASSUME IInv, Load
  PROVE  /\ \A a \in Addr \ RamAddresses : mem'[a] = mem[a]
         /\ Layout = shot.layout =>
              /\ cpu' = shot.cpu
              /\ \A a \in RamAddresses : mem'[a] = shot.mem[a]
              /\ Contents(mem, Layout["rom"]) = Contents(shot.mem, Layout["rom"])
<1> DEFINE ram == Layout["ram"]
<1>1. Layout \in [Regions -> Seq(WordExtent)] /\ mem \in [Addr -> Byte]
  BY LayoutIsTyped DEF IInv, ReaderOK
<1>2. saved \in SaveState /\ shot \in MachineState
  BY DEF Load, IInv, TypeOK
<1>3. mem' = Restored /\ cpu' = saved.cpu /\ Compatible
  BY DEF Load
<1>4. /\ \A a \in Addr \ RamAddresses : Restored[a] = mem[a]
      /\ \A a \in RamAddresses : \E i \in 1 .. Len(Addresses(ram)) :
           Addresses(ram)[i] = a /\ Restored[a] = saved.ram[i]
  BY <1>1, <1>2, <1>3, RestoredIs
<1>5. ASSUME Layout = shot.layout
      PROVE  /\ cpu' = shot.cpu
             /\ \A a \in RamAddresses : mem'[a] = shot.mem[a]
             /\ Contents(mem, Layout["rom"]) = Contents(shot.mem, Layout["rom"])
  <2>1. /\ saved.cpu = shot.cpu /\ saved.ram = Contents(shot.mem, ram)
        /\ saved.rom = Contents(shot.mem, Layout["rom"])
    BY <1>5 DEF Load, IInv, SavedInv
  <2>2. shot.mem \in [Addr -> Byte] /\ ram \in Seq(WordExtent)
    BY <1>1, <1>2 DEF MachineState, Regions
  <2> HIDE DEF ram
  <2>3. \A i \in 1 .. Len(Addresses(ram)) : saved.ram[i] = shot.mem[Addresses(ram)[i]]
    BY <2>1, <2>2, ContentsTyped
  <2>4. \A a \in RamAddresses : mem'[a] = shot.mem[a]
    BY <1>3, <1>4, <2>3 DEF ram
  <2>5. Contents(mem, Layout["rom"]) = Contents(shot.mem, Layout["rom"])
    BY <1>3, <2>1 DEF Compatible
  <2> QED BY <1>3, <2>1, <2>4, <2>5
<1> QED BY <1>3, <1>4, <1>5

\* A load into the layout the state was saved from brings back the registers
\* and the ram, whatever ran or was configured in between and also where
\* blocks overlap; no load writes outside the ram (IMachine::Save and ISR::Save
\* against loadMachineState).
THEOREM LoadRoundTrip == Spec => RoundTrip
<1>1. IInv /\ [Next]_vars
        => [Load =>
              /\ \A a \in Addr \ RamAddresses : mem'[a] = mem[a]
              /\ Layout = shot.layout =>
                   /\ cpu' = shot.cpu
                   /\ \A a \in RamAddresses : mem'[a] = shot.mem[a]
                   /\ Contents(mem, Layout.rom) = Contents(shot.mem, Layout.rom)]_vars
  BY StepRoundTrip
<1> QED BY <1>1, Invariant, PTL DEF Spec, RoundTrip
=============================================================================
