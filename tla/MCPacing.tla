------------------------------ MODULE MCPacing ------------------------------
(* Pacing with a time period of two nanoseconds, a resolution of the host of *)
(* one, and a host that is on time or late by more than an instruction.      *)
(* Resolution 0 is one the host does not support, -1 switches the clock off. *)
EXTENDS Pacing

MCResolutions == {-1, 0, 4, 7}
=============================================================================
