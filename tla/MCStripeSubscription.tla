-------------------------- MODULE MCStripeSubscription --------------------------
(* A small instance of StripeSubscription.                                  *)
EXTENDS StripeSubscription, TLC

(* The handlers are interchangeable.                                        *)
Symmetry == Permutations(Handlers)

=============================================================================
