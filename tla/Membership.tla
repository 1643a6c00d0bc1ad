------------------------------- MODULE Membership -------------------------------
(***************************************************************************)
(* What a paid membership promises, whichever provider takes the money: it *)
(* begins only with the credit of a payment that was taken, and a payment  *)
(* stays due until it has been credited.  A provider's controllers may be  *)
(* forgetful: they may drop what is due (the activation of an agreement    *)
(* that comes after its end, or after a failed charge).                    *)
(***************************************************************************)
CONSTANTS
  Charges,   \* the payments there can be
  Forgetful  \* TRUE: what is due may be dropped

VARIABLES
  taken,     \* payments the provider has taken
  due,       \* those it still announces
  credited,  \* those the member was marked as paid for
  paid       \* the membership is paid

vars == <<taken, due, credited, paid>>

Init == taken = {} /\ due = {} /\ credited = {} /\ paid = FALSE

(* The provider takes a payment and announces it.                          *)
Take(p) ==
  /\ taken' = taken \cup {p}
  /\ due' = due \cup {p}
  /\ UNCHANGED <<credited, paid>>

(* The member is marked as paid; the acknowledgement may be lost, or the   *)
(* payment found by other means than its announcement.                     *)
Credit(p) ==
  /\ p \in taken
  /\ credited' = credited \cup {p}
  /\ paid' = TRUE
  /\ due' \in {due, due \ {p}}
  /\ UNCHANGED taken

(* A repeated announcement is acknowledged.                                *)
Discard(p) ==
  /\ p \in credited \/ Forgetful
  /\ due' = due \ {p}
  /\ UNCHANGED <<taken, credited, paid>>

(* The paid mark is taken off for a new year.                              *)
End ==
  /\ paid
  /\ paid' = FALSE
  /\ UNCHANGED <<taken, due, credited>>

Next == (\E p \in Charges : Take(p) \/ Credit(p) \/ Discard(p)) \/ End

Spec == Init /\ [][Next]_vars

=============================================================================
