------------------------ MODULE MCMobilePaySubscription ------------------------
(* Small instances of MobilePaySubscription.                                *)
EXTENDS MobilePaySubscription, TLC

Symmetry == Permutations(Agreements) \cup Permutations(Requests) \cup Permutations(Handlers)

=============================================================================
