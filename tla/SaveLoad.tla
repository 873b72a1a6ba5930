------------------------------ MODULE SaveLoad ------------------------------
(***************************************************************************)
(* What a Machine promises about saving and loading, without threads,      *)
(* futures or polling (IMachine.h:188-275): a session holds at most one    *)
(* request; a save delivers the state the machine was in when the request  *)
(* was accepted, and nothing between acceptance and delivery can change    *)
(* it; a session ends only when no request is left.                        *)
(***************************************************************************)
CONSTANTS State, None

VARIABLES
  active,    \* is the machine between Run and the end of its loop
  content,   \* registers and ram
  request,   \* the one request in progress
  delivered  \* the state last handed to the user

vars == <<active, content, request, delivered>>

NoRequest == [kind |-> "none", state |-> None]
LoadRequest == [kind |-> "load", state |-> None]
SaveRequest(state) == [kind |-> "save", state |-> state]

Init ==
  /\ active = FALSE /\ content \in State
  /\ request = NoRequest /\ delivered = None

\* Between sessions the client may exchange the memory controller, and the cpu
\* is reset when a session begins.
Idle ==
  /\ ~active
  /\ active' \in BOOLEAN /\ content' \in State
  /\ UNCHANGED <<request, delivered>>

Execute ==
  /\ active
  /\ content' \in State
  /\ UNCHANGED <<active, request, delivered>>

AcceptLoad ==
  /\ active /\ request = NoRequest
  /\ request' = LoadRequest
  /\ UNCHANGED <<active, content, delivered>>

\* The load state is applied, or refused and the content kept.
CompleteLoad ==
  /\ request = LoadRequest
  /\ request' = NoRequest
  /\ content' \in State
  /\ UNCHANGED <<active, delivered>>

AcceptSave ==
  /\ active /\ request = NoRequest
  /\ request' = SaveRequest(content)
  /\ UNCHANGED <<active, content, delivered>>

CompleteSave ==
  /\ request.kind = "save"
  /\ delivered' = request.state
  /\ request' = NoRequest
  /\ UNCHANGED <<active, content>>

Stop ==
  /\ active /\ request = NoRequest
  /\ active' = FALSE
  /\ UNCHANGED <<content, request, delivered>>

Next ==
  \/ Idle \/ Execute \/ AcceptLoad \/ CompleteLoad \/ AcceptSave
  \/ CompleteSave \/ Stop

\* That an accepted save is delivered is not promised to every caller: MachinePy
\* says to whom.
Spec == Init /\ [][Next]_vars
=============================================================================
