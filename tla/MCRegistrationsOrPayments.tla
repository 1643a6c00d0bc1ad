----------------------- MODULE MCRegistrationsOrPayments -----------------------
(***************************************************************************)
(* Two uses of EventPayment that are too large to be explored together.    *)
(* In the one, users compete for places and nobody pays; in the other, one *)
(* user pays, withdraws and comes back.  A behaviour belongs to one of     *)
(* them.                                                                   *)
(***************************************************************************)
EXTENDS EventPayment, TLC

CONSTANT Payer  \* one of Users

VARIABLE side

Symmetry == Permutations(Users \ {Payer}) \cup Permutations(Attempts)

(* One place, two rows ever, and no answer that neither takes a place nor  *)
(* waits for one: the rows of a user who comes back are what matters.      *)
OnlyThePayer ==
  /\ nextId' <= 3
  /\ \A u \in Users \ {Payer} : reg'[u] = NoRow /\ u \in accounts'
  /\ reg'[Payer].type \notin Passive

MCInit ==
  /\ PayInit
  /\ \/ side = "registrations"
     \/ side = "payments" /\ event.max = 1

MCNext ==
  /\ UNCHANGED side
  /\ \/ side = "registrations" /\ Next /\ UNCHANGED payVars
     \/ side = "payments" /\ PayNext /\ OnlyThePayer

MCSpec == MCInit /\ [][MCNext]_<<allVars, side>>

=============================================================================
