----------------------------- MODULE MCEventPayment -----------------------------
(* Small instances of EventPayment.                                         *)
EXTENDS EventPayment, TLC

Symmetry == Permutations(Users) \cup Permutations(Attempts)

=============================================================================
