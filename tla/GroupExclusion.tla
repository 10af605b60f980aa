---------------------------- MODULE GroupExclusion ----------------------------
(***************************************************************************)
(* What model switching promises to requests: group mutual exclusion.      *)
(* At any time at most one model is current.  A request is admitted only   *)
(* to the current model, any number of requests may be inside it together, *)
(* and the current model is changed only when nobody is inside any model.  *)
(* A restart of whoever admits them throws every request out.              *)
(***************************************************************************)

CONSTANTS
  Models,    \* the groups
  Requests,  \* the clients
  NONE       \* no model is current

VARIABLES
  current,   \* the model requests are admitted to, or NONE
  inside     \* inside[m]: the requests admitted to m

vars == <<current, inside>>

-----------------------------------------------------------------------------

Init ==
  /\ current \in Models \cup {NONE}
  /\ inside = [m \in Models |-> {}]

Empty == \A m \in Models : inside[m] = {}

Admit(r) ==
  /\ current \in Models
  /\ \A m \in Models : r \notin inside[m]
  /\ inside' = [inside EXCEPT ![current] = @ \cup {r}]
  /\ UNCHANGED current

Leave(r, m) ==
  /\ r \in inside[m]
  /\ inside' = [inside EXCEPT ![m] = @ \ {r}]
  /\ UNCHANGED current

Change(m) ==
  /\ Empty
  /\ current' = m
  /\ UNCHANGED inside

\* Everybody is thrown out at once, whatever was current.
Restart ==
  /\ inside' = [m \in Models |-> {}]
  /\ current' \in Models \cup {NONE}

Next ==
  \/ \E r \in Requests : Admit(r)
  \/ \E r \in Requests, m \in Models : Leave(r, m)
  \/ \E m \in Models \cup {NONE} : Change(m)
  \/ Restart

Spec == Init /\ [][Next]_vars

-----------------------------------------------------------------------------

TypeOK ==
  /\ current \in Models \cup {NONE}
  /\ inside \in [Models -> SUBSET Requests]

\* Whoever is inside a model is inside the current one, so two requests are
\* never inside two models.
Exclusion == \A m \in Models : inside[m] # {} => current = m

=============================================================================
