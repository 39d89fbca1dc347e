--------------------------- MODULE RequestService ---------------------------
(***************************************************************************)
(* What the runtime promises its callers, whatever slots, waves, prefills  *)
(* and decode rounds there are behind it (ServerEngine.submit and          *)
(* submit_stream in server/engine.py):                                     *)
(*   - at most MaxPending accepted requests are unanswered at any time;    *)
(*   - a request is turned away only when the budget is exhausted or the   *)
(*     service has gone down;                                              *)
(*   - an accepted request is answered exactly once, and the answer (a     *)
(*     result or an error) does not change;                                *)
(*   - while the service is up, every accepted request is answered.        *)
(***************************************************************************)
EXTENDS Naturals, FiniteSets

CONSTANTS Requests, MaxPending

VARIABLES
  status,  \* "new", "rejected", "accepted", "result" or "error", per request
  up       \* "yes" until the service stops

vars == <<status, up>>

Unanswered == {r \in Requests : status[r] = "accepted"}

Init ==
  /\ status = [r \in Requests |-> "new"]
  /\ up = "yes"

(* A caller enters while there is budget. *)
Accept(r) ==
  /\ status[r] = "new"
  /\ Cardinality(Unanswered) < MaxPending
  /\ status' = [status EXCEPT ![r] = "accepted"]
  /\ UNCHANGED up

(* RequestQueueFull or EngineUnavailable. *)
Reject(r) ==
  /\ status[r] = "new"
  /\ Cardinality(Unanswered) >= MaxPending \/ up = "no"
  /\ status' = [status EXCEPT ![r] = "rejected"]
  /\ UNCHANGED up

(* Some accepted requests are answered; an error of a wave or a round      *)
(* answers several at once, and a fatal error takes the service down with  *)
(* them.                                                                   *)
Answer(R, kind) ==
  /\ R # {}
  /\ R \subseteq Unanswered
  /\ status' = [r \in Requests |-> IF r \in R THEN kind ELSE status[r]]
  /\ up' \in IF kind = "error" THEN {up, "no"} ELSE {up}

GoDown ==
  /\ up = "yes"
  /\ up' = "no"
  /\ UNCHANGED status

Next ==
  \/ \E r \in Requests : Accept(r) \/ Reject(r)
  \/ \E R \in SUBSET Requests, kind \in {"result", "error"} : Answer(R, kind)
  \/ GoDown

AnswerOne(r) ==
  /\ up = "yes"
  /\ \E kind \in {"result", "error"}, R \in SUBSET Requests : r \in R /\ Answer(R, kind)

Spec == Init /\ [][Next]_vars /\ \A r \in Requests : WF_vars(AnswerOne(r))
=============================================================================
