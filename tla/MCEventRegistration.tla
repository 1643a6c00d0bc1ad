--------------------------- MODULE MCEventRegistration ---------------------------
(* A small instance of EventRegistration: users and editors are             *)
(* interchangeable model values.                                            *)
EXTENDS EventRegistration, TLC

Symmetry == Permutations(Users) \cup Permutations(Editors)

=============================================================================
