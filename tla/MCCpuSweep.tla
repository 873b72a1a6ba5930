----------------------------- MODULE MCCpuSweep -----------------------------
(***************************************************************************)
(* Each of the 256 opcodes, executed once from states at the boundaries of *)
(* the registers, of the flags, of the address space and of the stack.     *)
(***************************************************************************)
EXTENDS Datasheet

VARIABLE executed

mcvars == <<vars, executed>>

\* pc and sp lie at the ends of the address space, and far from them; an
\* interrupt is absent, masked or enabled.
Init ==
  /\ \E op \in Byte, at \in {0, 65534}, a \in {0, 255}, hl \in {{"h", "l"}, {}} :
       /\ pc = at
       /\ mem = (at :> op) @@ (Plus(at, 1) :> IF at = 0 THEN 255 ELSE 0) @@ (Plus(at, 2) :> 2)
                @@ [i \in {512, 767, 40000, 40001} |-> 255]
       /\ reg = [r \in Reg |-> IF r = "a" THEN a ELSE IF r \in hl THEN 255 ELSE 2]
  /\ status \in {2, 215} /\ sp \in {0, 1, 40000}
  /\ \E bus \in {<<FALSE, None>>, <<FALSE, 3>>, <<TRUE, 3>>} : iff = bus[1] /\ irq = bus[2]
  /\ out = None /\ ticks = 0 /\ executed = FALSE

Step == ~executed /\ Execute /\ executed' = TRUE
Done == executed /\ UNCHANGED mcvars

Next == Step \/ Done

Spec == Init /\ [][Next]_mcvars
=============================================================================
