----------------------------- MODULE MCMachine -----------------------------
(* Machine on two byte values, with one good and one anonymous memory      *)
(* controller, for every setting of the options a run names, called from   *)
(* C++, from Python, or from either.                                       *)
EXTENDS MachinePy

MCMemoryControllers == {"memory", "blank"}
MCAnonymous == {"blank"}
=============================================================================
