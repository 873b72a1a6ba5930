------------------------------ MODULE Options ------------------------------
(***************************************************************************)
(* The options of a machine (Opt.cpp): json that is merged member by       *)
(* member into the json kept so far, after the deprecated members have     *)
(* been converted, and read through getters that narrow to 16 bits.        *)
(*                                                                         *)
(* Json is a function from the names it has to their values.  Kept are the *)
(* members a getter of the memory's layout reads; "cpu" is among them from *)
(* the constructor of Machine on.                                          *)
(***************************************************************************)
EXTENDS Integers, Sequences, SequencesExt

CONSTANTS
  Space,     \* size of the address space, 65536 in the code
  Inputs,    \* the json that is passed to SetOptions
  Null,      \* the options string nullptr
  Malformed  \* a string, or a file, that does not parse

Regions == {"ram", "rom"}
Deprecated == {"ramOffset", "ramSize", "romOffset", "romSize"}

\* Numbers of any size, which the parser accepts; a value that is not a number
\* makes the getter throw that reads it (as an illegal value of Machine).
ASSUME OptionsAssumption ==
  /\ Space \in Nat \ {0}
  /\ \A json \in Inputs \ {Null, Malformed} :
       /\ \A region \in Regions \cap DOMAIN json :
            json[region] \in Seq([offset : Int, size : Int])
       /\ \A name \in Deprecated \cap DOMAIN json : json[name] \in Int

VARIABLE opts \* json_

Block(offset, size) == [offset |-> offset, size |-> size]

\* DefaultOpts
DefaultOpts ==
  [ram |-> << Block(0, 0) >>, rom |-> << Block(0, 0) >>, isrFreq |-> 0]

Word(n) == n % Space

\* Mutant: the deprecated options win over ram and rom.
ConvertsAlways(json) ==
  {"ramOffset", "ramSize", "romOffset"} \cap DOMAIN json # {}

\* romSize does not count: it is looked at when there is a ramSize.
Converts(json) ==
  /\ Regions \cap DOMAIN json = {}
  /\ {"ramOffset", "ramSize", "romOffset"} \cap DOMAIN json # {}

\* One block each, of offset and size 0 where they are not given.
Converted(json) ==
  LET Value(name) == IF name \in DOMAIN json THEN Word(json[name]) ELSE 0
  IN [ram |-> << Block(Value("ramOffset"), Value("ramSize")) >>,
      rom |-> << Block(Value("romOffset"),
                       IF "ramSize" \in DOMAIN json THEN Value("romSize") ELSE 0) >>]

\* The parser, the checks of SetOptions and a romSize of null throw.
Refused(json) ==
  \/ json = Malformed
  \/ /\ json # Null
     /\ \/ "cpu" \in DOMAIN json
        \/ "isrFreq" \in DOMAIN json /\ json["isrFreq"] < 0
        \/ Converts(json) /\ "ramSize" \in DOMAIN json /\ "romSize" \notin DOMAIN json

Update(json) ==
  CASE json = Null -> DefaultOpts
    [] json # Null /\ Converts(json) -> Converted(json)
    [] OTHER -> json

\* update: a member is replaced as a whole.
Merged(json) ==
  LET update == Update(json)
  IN [name \in DOMAIN opts |-> IF name \in DOMAIN update THEN update[name] ELSE opts[name]]

\* An exception leaves the options as they are.
After(json) == IF Refused(json) THEN opts ELSE Merged(json)

SetOptions(json) == opts' = After(json)

\* Ram and Rom.  A region without blocks is read as none.
Blocks(json, region) ==
  [i \in DOMAIN json[region] |->
     Block(Word(json[region][i].offset), Word(json[region][i].size))]

Layout == [region \in Regions |-> Blocks(opts, region)]

-----------------------------------------------------------------------------
(* Properties.                                                             *)

Accepted(json) == SetOptions(json) /\ ~Refused(json)
Current(json) ==
  json \notin {Null, Malformed} /\ (Deprecated \cap DOMAIN json = {} \/ Regions \cap DOMAIN json # {})

\* After an accepted call the regions it names are what it says, those it does
\* not name are what they were, whatever deprecated options are beside them;
\* and nullptr brings back the defaults, whatever was set before
\* (Opt.cpp:106-107, IMachine.h:170-171).
UpdatesDesired ==
  [][\A json \in Inputs : Accepted(json) =>
       /\ json = Null => \A region \in Regions : Blocks(opts', region) = << Block(0, 0) >>
       /\ Current(json) =>
            \A region \in Regions :
              opts'[region] = IF region \in DOMAIN json THEN json[region]
                                                        ELSE opts[region]]_opts
=============================================================================
