--------------------------- MODULE StripeSubscription ---------------------------
(***************************************************************************)
(* The membership of one member, paid with Stripe: the sessions of the     *)
(* checkout, the subscriptions Stripe makes of them, the webhooks that     *)
(* write the member's one PaymentSubscriptions row, and its cancellation   *)
(* on the subscription page.                                               *)
(*                                                                         *)
(* Source: StripeWebhookController (what it does with memberships),        *)
(* CheckoutStripeMembershipAsync of ApiPaymentOffersController and the     *)
(* Stripe part of ApiPaymentSubscriptionsController.Delete.  A handler     *)
(* learns the state of the subscription, from the event or by asking       *)
(* Stripe, before it locks the row.                                        *)
(***************************************************************************)
EXTENDS Naturals, FiniteSets

CONSTANTS
  Sessions,  \* checkout sessions; one has at most one subscription, of the same name
  Handlers,  \* webhook deliveries that may be handled at once
  MaxTime,   \* bound: the seconds in which Stripe announces something
  None

ASSUME MaxTimeAssumption == MaxTime \in Nat
ASSUME NoneAssumption == None \notin Sessions

VARIABLES
  row,         \* the PaymentSubscriptions row of the member
  paid,        \* the member's Status is BETALT
  stripe,      \* stripe[s]: the session, and later the subscription, at Stripe
  now,         \* the second of the latest event
  deliveries,  \* events Stripe has yet to see acknowledged
  hook,        \* hook[h]: the event a handler works on, and what it has learnt
  cancelling,  \* a cancellation under way: the status it read differs from CANCELED
  taken,       \* history: the payments Stripe has taken, each as the event of it
  credited     \* history: those the member was marked as paid for

vars == <<row, paid, stripe, now, deliveries, hook, cancelling, taken, credited>>

Statuses == {"INCOMPLETE", "ACTIVE", "PAST_DUE", "CANCELED"}
Blocking == {"INCOMPLETE", "ACTIVE", "PAST_DUE"}
Running == {"ACTIVE", "PAST_DUE"}

(* customer.subscription.* carry the subscription as it was then; invoices *)
(* and completed sessions do not, and their handler asks for it.           *)
State(s, status, t) == [of |-> s, kind |-> "state", status |-> status, at |-> t]
Paid(s, t) == [of |-> s, kind |-> "paid", status |-> None, at |-> t]
Failed(s, t) == [of |-> s, kind |-> "failed", status |-> None, at |-> t]
PaidOnce(s, t) == [of |-> s, kind |-> "once", status |-> None, at |-> t]
Event == [of : Sessions, kind : {"state", "paid", "failed", "once"},
          status : Statuses \cup {None}, at : 0 .. MaxTime]
IsPayment(e) == e.kind \in {"paid", "once"}

NoRow == [id |-> None, status |-> "NONE", last |-> None]
Closed == [id |-> None, status |-> "CANCELED", last |-> None]  \* of an earlier agreement
Row == [id : Sessions, status : Statuses, last : Event]

Idle == [event |-> None, status |-> None, whole |-> TRUE]
Work == [event : Event, status : Statuses \cup {None}, whole : BOOLEAN]
NoCancel == "idle"

Init ==
  /\ row \in {NoRow, Closed}
  /\ paid = FALSE
  /\ stripe = [s \in Sessions |-> "NONE"]
  /\ now = 0
  /\ deliveries = {}
  /\ hook = [h \in Handlers |-> Idle]
  /\ cancelling = NoCancel
  /\ taken = {} /\ credited = {}

-----------------------------------------------------------------------------
(* Stripe                                                                   *)

Announce(events, t) ==
  /\ t <= MaxTime
  /\ now' = t
  /\ deliveries' = deliveries \cup events
  /\ taken' = taken \cup {e \in events : IsPayment(e)}

Becomes(s, state) == stripe' = [stripe EXCEPT ![s] = state]
Here == <<row, paid, hook, cancelling, credited>>

(* The member pays on Stripe's page: for a subscription, or once.          *)
Complete(s) ==
  /\ \/ /\ stripe[s] = "SESSION" /\ Becomes(s, "ACTIVE")
        /\ \E u \in {now + 1, now + 2} :
             Announce({State(s, "INCOMPLETE", now + 1), State(s, "ACTIVE", u), Paid(s, u)}, u)
     \/ /\ stripe[s] = "PAYMENT" /\ Becomes(s, "PAID")
        /\ Announce({PaidOnce(s, now + 1)}, now + 1)
  /\ UNCHANGED Here

(* A year later the card is charged again.                                 *)
Renew(s) ==
  /\ stripe[s] \in Running
  /\ \/ /\ Becomes(s, "ACTIVE")
        /\ Announce({State(s, "ACTIVE", now + 1), Paid(s, now + 1)}, now + 1)
     \/ /\ Becomes(s, "PAST_DUE")
        /\ Announce({State(s, "PAST_DUE", now + 1), Failed(s, now + 1)}, now + 1)
  /\ UNCHANGED Here

EndAtStripe(s) ==
  /\ stripe[s] \in Running
  /\ Becomes(s, "CANCELED")
  /\ \E t \in {now, now + 1} : Announce({State(s, "CANCELED", t)}, t)

(* Stripe gives up on a card, or an administrator ends the subscription.   *)
EndOutside(s) ==
  /\ EndAtStripe(s)
  /\ UNCHANGED Here

-----------------------------------------------------------------------------
(* Requests of the member                                                   *)

(* CheckoutStripeMembershipAsync: nothing is stored before Stripe answers. *)
Checkout(s, state) ==
  /\ ~paid
  /\ row.status \notin Blocking
  /\ stripe[s] = "NONE"
  /\ Becomes(s, state)
  /\ UNCHANGED <<now, deliveries, taken, Here>>

(* Delete: find the row and end its subscription; Stripe refuses to end    *)
(* what has ended ...                                                      *)
Cancel ==
  /\ cancelling = NoCancel
  /\ row.id # None
  /\ EndAtStripe(row.id)
  /\ cancelling' = IF row.status = "CANCELED" THEN "known" ELSE "differs"
  /\ UNCHANGED <<row, paid, hook, credited>>

(* ... and store its status if it differs from the one that was read,      *)
(* without a look at the row as it is now.                                 *)
SaveCancel ==
  /\ cancelling # NoCancel
  /\ row' = IF cancelling = "differs" THEN [row EXCEPT !.status = "CANCELED"] ELSE row
  /\ cancelling' = NoCancel
  /\ UNCHANGED <<paid, stripe, now, deliveries, hook, taken, credited>>

(* The answer of Stripe is lost, or the request stops.                     *)
AbortCancel ==
  /\ cancelling # NoCancel
  /\ cancelling' = NoCancel
  /\ UNCHANGED <<row, paid, stripe, now, deliveries, hook, taken, credited>>

(* The paid mark is taken off once a year.                                 *)
MembershipEnds ==
  /\ paid
  /\ paid' = FALSE
  /\ UNCHANGED <<row, stripe, now, deliveries, hook, cancelling, taken, credited>>

-----------------------------------------------------------------------------
(* Webhooks                                                                 *)

(* The part before the lock: what the row is to say.  If Stripe does not   *)
(* answer, a failed invoice makes the row overdue when it has the id of    *)
(* the subscription; every other handler fails.                            *)
Learn(h, e) ==
  /\ hook[h] = Idle
  /\ e \in deliveries
  /\ \/ /\ e.kind \in {"state", "once"}
        /\ hook' = [hook EXCEPT ![h] = [event |-> e, status |-> e.status, whole |-> TRUE]]
     \/ /\ e.kind \in {"paid", "failed"}
        /\ hook' = [hook EXCEPT ![h] = [event |-> e, status |-> stripe[e.of], whole |-> TRUE]]
     \/ /\ e.kind = "failed" /\ row.id = e.of
        /\ hook' = [hook EXCEPT ![h] = [event |-> e, status |-> "PAST_DUE", whole |-> FALSE]]
  /\ UNCHANGED <<row, paid, stripe, now, deliveries, cancelling, taken, credited>>

(* Mutant: payments have to come in order as well.                         *)
Processed_PaymentsToo(e) ==
  row.last # None /\ (row.last = e \/ e.at < row.last.at)

(* Mutant: what happened in the same second counts as older.               *)
Processed_SameSecond(e) ==
  row.last # None /\ (row.last = e \/ (e.kind # "paid" /\ e.at <= row.last.at))

(* A repetition of the event processed last, or an event older than it,    *)
(* unless it confirms a payment.                                           *)
Processed(e) ==
  row.last # None /\ (row.last = e \/ (e.kind # "paid" /\ e.at < row.last.at))

(* ApplySubscriptionState: the row becomes that of the subscription the    *)
(* event is about, whatever it was before.                                 *)
Stored(work) ==
  LET e == work.event
      newest == row.last = None \/ e.at >= row.last.at
  IN  [id |-> IF work.whole THEN e.of ELSE row.id, status |-> work.status,
       last |-> IF newest THEN e ELSE row.last]

Acknowledge(h, keep) ==
  /\ hook' = [hook EXCEPT ![h] = Idle]
  /\ deliveries' = IF keep THEN deliveries ELSE deliveries \ {hook[h].event}

Credit(e) == paid' = TRUE /\ credited' = credited \cup {e}

(* The part under the lock.  The acknowledgement may be lost (keep).       *)
ApplyEvent(h, keep) ==
  LET e == hook[h].event
  IN  /\ hook[h] # Idle
      /\ \/ e.kind = "once" /\ Credit(e) /\ UNCHANGED row
         \/ e.kind # "once" /\ Processed(e) /\ UNCHANGED <<row, paid, credited>>
         \/ /\ e.kind # "once" /\ ~Processed(e)
            /\ row' = Stored(hook[h])
            /\ IF e.kind = "paid" THEN Credit(e) ELSE UNCHANGED <<paid, credited>>
      /\ Acknowledge(h, keep)
      /\ UNCHANGED <<stripe, now, cancelling, taken>>

(* The handler fails or stops; the transaction is rolled back and the      *)
(* delivery stays.                                                         *)
GiveUp(h) ==
  /\ hook[h] # Idle
  /\ hook' = [hook EXCEPT ![h] = Idle]
  /\ UNCHANGED <<row, paid, stripe, now, deliveries, cancelling, taken, credited>>

Stripe(s) == Complete(s) \/ Renew(s) \/ EndOutside(s)

Next ==
  \/ \E s \in Sessions : Stripe(s) \/ \E state \in {"SESSION", "PAYMENT"} : Checkout(s, state)
  \/ Cancel \/ SaveCancel \/ AbortCancel
  \/ MembershipEnds
  \/ \E h \in Handlers, e \in deliveries : Learn(h, e)
  \/ \E h \in Handlers, keep \in BOOLEAN : ApplyEvent(h, keep)
  \/ \E h \in Handlers : GiveUp(h)

Spec == Init /\ [][Next]_vars

(* Stripe delivers an event until it is acknowledged; a handler comes to   *)
(* an end, and one that could succeed again and again does not fail each   *)
(* time.                                                                   *)
Payments(s) == {Paid(s, t) : t \in 0 .. MaxTime} \cup {PaidOnce(s, t) : t \in 0 .. MaxTime}
AllPayments == UNION {Payments(s) : s \in Sessions}
Endings(s) == {State(s, "CANCELED", t) : t \in 0 .. MaxTime}
Learns(events) == \E h \in Handlers, e \in events : Learn(h, e)
Applies(events) == \E h \in Handlers : hook[h].event \in events /\ ApplyEvent(h, FALSE)
Redelivery ==
  /\ \A h \in Handlers : WF_vars(GiveUp(h))
  /\ \A s \in Sessions :
       /\ SF_vars(Learns(Payments(s))) /\ SF_vars(Applies(Payments(s)))
       /\ SF_vars(Learns(Endings(s))) /\ SF_vars(Applies(Endings(s)))
FairSpec == Spec /\ Redelivery

-----------------------------------------------------------------------------
TypeOK ==
  /\ row \in Row \cup {NoRow, Closed}
  /\ paid \in BOOLEAN
  /\ stripe \in [Sessions -> {"NONE", "SESSION", "PAYMENT", "PAID"} \cup Statuses]
  /\ now \in 0 .. MaxTime
  /\ deliveries \subseteq Event
  /\ hook \in [Handlers -> Work \cup {Idle}]
  /\ cancelling \in {NoCancel, "known", "differs"}
  /\ taken \subseteq Event /\ credited \subseteq Event

(* Again and again everything paid so far is credited, also renewals,      *)
(* however the events are reordered, repeated or lost, and also when the   *)
(* row shows something newer already.                                      *)
PaymentIsCredited == []<>(taken \subseteq credited)

(* The member becomes paid only by the credit of a payment Stripe took,    *)
(* and no webhook is acknowledged before the payment it announces has been *)
(* credited (Membership.tla).                                              *)
Promised == INSTANCE Membership WITH
  Charges <- AllPayments, Forgetful <- FALSE, due <- deliveries \cap AllPayments
PaidForWithStripe == Promised!Spec

(* What was paid is credited or still announced, and nothing else is       *)
(* credited.                                                               *)
NoPaymentIsLost == credited \subseteq taken /\ taken \subseteq credited \cup deliveries

(* Once Stripe has announced the end of the subscription the row is about, *)
(* the row is closed in the end, even if the end came in the same second   *)
(* as something else or the request that asked for it crashed; unless an   *)
(* event of another subscription took the row over.                        *)
Shows(s) == row.id = s /\ row.last.of = s
EndAnnounced(s) == Shows(s) /\ \E e \in deliveries \cap Endings(s) : row.last # e
EndIsNoticed ==
  \A s \in Sessions : EndAnnounced(s) ~> row.status = "CANCELED" \/ ~Shows(s)

-----------------------------------------------------------------------------
(* "The handler must not move a subscription back to an older state": once *)
(* the end of a subscription was processed, an event from before the end   *)
(* does not open the row again.                                            *)
EndProcessed(s) == Shows(s) /\ row.last \in Endings(s)
EndedStaysEnded ==
  [][\A h \in Handlers, keep \in BOOLEAN, s \in Sessions :
       /\ ApplyEvent(h, keep) /\ EndProcessed(s)
       /\ hook[h].event.of = s /\ hook[h].event.at < row.last.at
       => row'.status = "CANCELED"]_vars

=============================================================================
