---------------------------- MODULE LookupService ----------------------------
(***************************************************************************)
(* What a name resolver promises its clients, whatever its threads do: a   *)
(* request is either refused or accepted, an accepted request is answered  *)
(* exactly once, and the service stops in order only when it owes nothing. *)
(* This is the specification that Resolver implements.                     *)
(***************************************************************************)
CONSTANTS
  Requests,    \* the requests the clients may make
  Unreliable   \* those whose answer may fail to be delivered

VARIABLES
  state,       \* per request: "unknown", "accepted", "refused", "answered"
  service      \* "up", "stopped" in order, or "failed"

vars == <<state, service>>

Owed == {r \in Requests : state[r] = "accepted"}

Init == /\ state = [r \in Requests |-> "unknown"]
        /\ service = "up"

Move(r, from, to) == /\ service = "up" /\ state[r] = from
                     /\ state' = [state EXCEPT ![r] = to]
                     /\ UNCHANGED service

Accept(r) == Move(r, "unknown", "accepted")
Refuse(r) == Move(r, "unknown", "refused")
Answer(r) == Move(r, "accepted", "answered")

\* The answer to an unreliable request cannot be delivered: the request is
\* given up, or the service fails and leaves every other request unanswered.
GiveUp(r) == r \in Unreliable /\ Move(r, "accepted", "refused")

Fail == /\ service = "up" /\ Owed \cap Unreliable # {}
        /\ service' = "failed"
        /\ UNCHANGED state

Stop == /\ service = "up" /\ Owed = {}
        /\ service' = "stopped"
        /\ UNCHANGED state

Next == \/ \E r \in Requests : Accept(r) \/ Refuse(r) \/ Answer(r) \/ GiveUp(r)
        \/ Fail \/ Stop

Fairness == \A r \in Requests : WF_vars(Answer(r) \/ GiveUp(r))

Spec == Init /\ [][Next]_vars
FairSpec == Spec /\ Fairness
=============================================================================
