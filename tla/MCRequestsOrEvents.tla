--------------------------- MODULE MCRequestsOrEvents ---------------------------
(***************************************************************************)
(* Two instances of MobilePaySubscription small enough to be explored: in  *)
(* the one, two requests with two agreements run beside one webhook handler*)
(* and one event; in the other, two handlers work on every event of one    *)
(* agreement beside one request.  A behaviour belongs to one of them.      *)
(***************************************************************************)
EXTENDS MCMobilePaySubscription

VARIABLE side

InUse ==
  {a \in Agreements : agr[a].state # "NONE" \/ \E r \in Requests : req[r].of = a}
  \cup (IF row = NoRow THEN {} ELSE {row.id.of})
OneEvent == now <= 1 /\ Cardinality({h \in Handlers : hook[h] # None}) <= 1
OneRequest == Cardinality({r \in Requests : req[r] # Idle}) <= 1 /\ Cardinality(InUse) <= 1

MCInit == Init /\ side \in {"requests", "events"}

MCNext ==
  /\ Next /\ UNCHANGED side
  /\ side = "requests" => OneEvent'
  /\ side = "events" => OneRequest'

MCSpec == MCInit /\ [][MCNext]_<<vars, side>>

=============================================================================
