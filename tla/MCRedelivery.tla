------------------------------ MODULE MCRedelivery ------------------------------
(***************************************************************************)
(* What the redelivery of webhooks brings about, for the payment of an     *)
(* event and for a membership subscription with MobilePay or with Stripe.  *)
(* A behaviour belongs to one of the three; the others stay at their       *)
(* initial state, where nothing is announced and no handler has anything   *)
(* to do.                                                                  *)
(***************************************************************************)
EXTENDS StripeSubscription

CONSTANTS Users, Unlimited, Attempts, Requests, MobilePayTime

VARIABLES
  side,
  event, reg, accounts, nextId, editor, pay, announced, found, acked, offered,
  membership, member, agr, clock, unacknowledged, req, handler, rewarded

Payment == INSTANCE EventPayment WITH
  Passive <- {}, Editors <- {}, Limits <- {1}, EditWindows <- {"keep"},
  MaxRegistrations <- 2, deliveries <- announced

MobilePay == INSTANCE MobilePaySubscription WITH
  Agreements <- Sessions, MaxTime <- MobilePayTime, row <- membership, paid <- member,
  now <- clock, deliveries <- unacknowledged, hook <- handler, credited <- rewarded

paymentVars ==
  <<event, reg, accounts, nextId, editor, pay, announced, found, acked, offered>>
mobilePayVars ==
  <<membership, member, agr, clock, unacknowledged, req, handler, rewarded>>
everything == <<side, vars, paymentVars, mobilePayVars>>

MCInit ==
  /\ side \in {"payment", "mobilepay", "stripe"}
  /\ Payment!PayInit /\ event.max = 1
  /\ MobilePay!Init /\ membership = MobilePay!NoRow
  /\ Init /\ (side # "stripe" => row = NoRow)

OnPayment == side = "payment" /\ UNCHANGED <<side, vars, mobilePayVars>>
OnMobilePay == side = "mobilepay" /\ UNCHANGED <<side, vars, paymentVars>>
OnStripe == side = "stripe" /\ UNCHANGED <<side, paymentVars, mobilePayVars>>

(* Bound: the requests of the member come before the last event.           *)
RequestsComeEarly ==
  clock = MobilePayTime =>
    \A r \in Requests : req[r] = MobilePay!Idle => req'[r] = MobilePay!Idle

MCNext ==
  \/ OnPayment /\ Payment!PayNext
  \/ OnMobilePay /\ MobilePay!Next /\ RequestsComeEarly
  \/ OnStripe /\ Next

(* Redelivery of the three modules.  There is one payment and a behaviour  *)
(* belongs to one side, so a condition may speak of all three: whatever    *)
(* begins (a payment) or ends (a subscription) is found and applied.       *)
ASSUME OnePayment == Cardinality(Attempts) = 1

Captures == \E p \in Attempts : OnPayment /\ Payment!HandleAuthorized(p, FALSE)
FindsBeginning(a) ==
  \/ OnMobilePay /\ MobilePay!Finds(a, MobilePay!Beginning)
  \/ OnStripe /\ Learns(Payments(a))
FindsRow == \E p \in Attempts : OnPayment /\ Payment!FindRow(p)
AppliesBeginning(a) ==
  \/ \E p \in Attempts : OnPayment /\ Payment!MarkRow(p, FALSE)
  \/ OnMobilePay /\ MobilePay!Applies(a, MobilePay!Beginning)
  \/ OnStripe /\ Applies(Payments(a))
FindsEnd(a) ==
  \/ OnMobilePay /\ MobilePay!Finds(a, MobilePay!Ending)
  \/ OnStripe /\ Learns(Endings(a))
AppliesEnd(a) ==
  \/ OnMobilePay /\ MobilePay!Applies(a, MobilePay!Ending)
  \/ OnStripe /\ Applies(Endings(a))
GivesUp(h) ==
  \/ \E p \in Attempts : OnPayment /\ Payment!GiveUp(p)
  \/ OnMobilePay /\ MobilePay!GiveUp(h)
  \/ OnStripe /\ GiveUp(h)

AllRedelivery ==
  /\ WF_everything(Captures) /\ WF_everything(FindsRow)
  /\ \A h \in Handlers : WF_everything(GivesUp(h))
  /\ \A a \in Sessions :
       /\ SF_everything(FindsBeginning(a)) /\ SF_everything(AppliesBeginning(a))
       /\ SF_everything(FindsEnd(a)) /\ SF_everything(AppliesEnd(a))

MCFairSpec == MCInit /\ [][MCNext]_everything /\ AllRedelivery

-----------------------------------------------------------------------------
(* A payment that was taken is credited in the end (EventPayment).         *)
TakenIsCredited == Payment!TakenIsCredited

(* An authorized payment is captured in the end (EventPayment).            *)
AuthorizedIsCaptured == Payment!AuthorizedIsCaptured

(* The end of a MobilePay agreement closes its row                         *)
(* (MobilePaySubscription).                                                *)
EndedIsClosed == MobilePay!EndedIsClosed

(* A member who accepted the agreement is credited in the end              *)
(* (MobilePaySubscription).                                                *)
AcceptedIsCredited == MobilePay!AcceptedIsCredited

=============================================================================
