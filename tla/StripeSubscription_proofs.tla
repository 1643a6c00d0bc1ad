------------------------ MODULE StripeSubscription_proofs ------------------------
(***************************************************************************)
(* Proofs about StripeSubscription, for every set of sessions and handlers *)
(* and any number of events: no payment is lost, the row is well formed    *)
(* whatever a handler has learnt before it locks it, and the webhooks      *)
(* implement Membership.                                                   *)
(***************************************************************************)
EXTENDS StripeSubscription, TLAPS

(* Sessions that became subscriptions: what Stripe says of them can be     *)
(* stored in the row.                                                      *)
Started == {"ACTIVE", "PAST_DUE", "CANCELED"}

(* What a handler may rely on: events about a subscription belong to a     *)
(* session that became one, so that Stripe can be asked for its status,    *)
(* and whatever reports a payment reports one that was taken.              *)
SoundEvent(e) ==
  /\ e.kind = "state" => e.status \in Statuses
  /\ e.kind # "once" => stripe[e.of] \in Started
  /\ IsPayment(e) => e \in taken
DeliveriesAreSound == \A e \in deliveries : SoundEvent(e)

(* A handler at work: the status it has learnt can be stored, and it keeps *)
(* the id of the row only if there is one.                                 *)
SoundWork(w) ==
  w # Idle =>
    /\ SoundEvent(w.event)
    /\ w.event.kind # "once" => w.status \in Statuses
    /\ ~w.whole => row.id \in Sessions
HandlersAreSound == \A h \in Handlers : SoundWork(hook[h])

(* The payment the row shows was credited, a cancellation under way has    *)
(* found a row, and payments are announced as payments.                    *)
RowIsSound ==
  /\ row.last # None /\ row.last.kind = "paid" => row.last \in credited
  /\ cancelling # NoCancel => row.id \in Sessions
TakenArePayments == taken \subseteq AllPayments

(* The invariant that is inductive.                                        *)
IInv ==
  /\ TypeOK
  /\ DeliveriesAreSound /\ HandlersAreSound /\ RowIsSound /\ TakenArePayments
  /\ NoPaymentIsLost

(* What no step may do: take back the start of a subscription, or a        *)
(* payment.                                                                *)
StartsStay ==
  /\ stripe' \in [Sessions -> {"NONE", "SESSION", "PAYMENT", "PAID"} \cup Statuses]
  /\ \A s \in Sessions : stripe[s] \in Started => stripe'[s] \in Started
  /\ taken \subseteq taken'

-----------------------------------------------------------------------------
(* Events                                                                   *)

LEMMA PaymentEvents ==
  ASSUME NEW e \in AllPayments
  PROVE  e \in Event /\ IsPayment(e) /\ e.kind # "state"
BY DEF AllPayments, Payments, Paid, PaidOnce, Event, IsPayment

LEMMA EventsOfASession ==
  ASSUME NEW s \in Sessions, NEW t \in 0 .. MaxTime
  PROVE  /\ \A status \in Statuses :
              LET e == State(s, status, t)
              IN  e \in Event /\ e.of = s /\ e.kind = "state" /\ e.status \in Statuses
         /\ Failed(s, t) \in Event /\ Failed(s, t).of = s /\ Failed(s, t).kind = "failed"
         /\ Paid(s, t) \in AllPayments /\ Paid(s, t).of = s /\ Paid(s, t).kind = "paid"
         /\ PaidOnce(s, t) \in AllPayments /\ PaidOnce(s, t).of = s /\ PaidOnce(s, t).kind = "once"
<1>1. Paid(s, t) \in AllPayments /\ PaidOnce(s, t) \in AllPayments
  BY DEF AllPayments, Payments
<1>2. Failed(s, t) \in Event /\ \A status \in Statuses : State(s, status, t) \in Event
  BY DEF Failed, State, Event
<1> QED BY <1>1, <1>2 DEF State, Failed, Paid, PaidOnce

(* What is true of an event stays true.                                    *)
LEMMA SoundStays ==
  ASSUME StartsStay, NEW e \in Event, SoundEvent(e)
  PROVE  SoundEvent(e)'
BY DEF StartsStay, SoundEvent, Event, IsPayment

LEMMA RowWithAnId ==
  ASSUME TypeOK
  PROVE  row.id \in Sessions <=> row.id # None
BY MaxTimeAssumption, NoneAssumption DEF TypeOK, Row, NoRow, Closed

LEMMA HandlersStay ==
  ASSUME IInv, StartsStay, UNCHANGED hook, row'.id \in Sessions \/ UNCHANGED row
  PROVE  HandlersAreSound'
<1> SUFFICES ASSUME NEW h \in Handlers, hook[h] # Idle
             PROVE  SoundWork(hook[h])'
  BY DEF HandlersAreSound, SoundWork
<1>1. hook[h].event \in Event /\ SoundWork(hook[h])
  BY DEF IInv, TypeOK, HandlersAreSound, Work
<1>2. SoundEvent(hook[h].event)'
  BY <1>1, SoundStays DEF SoundWork
<1> QED BY <1>1, <1>2 DEF SoundWork

-----------------------------------------------------------------------------
(* Stripe, and the cancellation that asks it                                *)

(* Stripe announces events about a session, at a later second.             *)
Announcement(s, events) ==
  \A e \in events :
    /\ e \in Event /\ e.of = s
    /\ e.kind = "state" => e.status \in Statuses
    /\ IsPayment(e) => e \in AllPayments

LEMMA AnnouncePreserves ==
  ASSUME IInv, NEW s \in Sessions, NEW events, Announcement(s, events),
         NEW t \in 0 .. MaxTime, Announce(events, t), StartsStay,
         stripe'[s] \in Started \/ \A e \in events : e.kind = "once",
         UNCHANGED <<row, paid, hook, credited>>,
         cancelling' \in {NoCancel, "known", "differs"},
         cancelling' # NoCancel => row.id \in Sessions
  PROVE  IInv'
<1>1. TypeOK'
  BY DEF IInv, TypeOK, Announce, Announcement, StartsStay
<1>2. DeliveriesAreSound'
  <2> SUFFICES ASSUME NEW e \in deliveries' PROVE SoundEvent(e)'
    BY DEF DeliveriesAreSound
  <2>1. CASE e \in deliveries
    BY <2>1, SoundStays DEF IInv, TypeOK, DeliveriesAreSound
  <2>2. CASE e \in events
    BY <2>2 DEF Announcement, Announce, SoundEvent
  <2> QED BY <2>1, <2>2 DEF Announce
<1>3. HandlersAreSound'
  BY HandlersStay
<1>4. RowIsSound'
  BY DEF IInv, RowIsSound
<1>5. TakenArePayments'
  BY DEF IInv, TakenArePayments, Announce, Announcement
<1>6. NoPaymentIsLost'
  BY DEF IInv, NoPaymentIsLost, Announce
<1> QED BY <1>1, <1>2, <1>3, <1>4, <1>5, <1>6 DEF IInv

LEMMA BecomesStays ==
  ASSUME IInv, NEW s \in Sessions, NEW state, Becomes(s, state), taken \subseteq taken',
         \/ state \in Started
         \/ stripe[s] \notin Started /\ state \in {"SESSION", "PAYMENT", "PAID"}
  PROVE  StartsStay /\ stripe'[s] = state
BY DEF IInv, TypeOK, Becomes, StartsStay, Started, Statuses

(* What Stripe announces when it is paid for the first time, or again.     *)
LEMMA PaymentAnnouncement ==
  ASSUME NEW s \in Sessions, NEW t \in 0 .. MaxTime, NEW u \in 0 .. MaxTime,
         NEW status \in Statuses, NEW other \in Statuses
  PROVE  /\ Announcement(s, {State(s, status, t), State(s, other, u), Paid(s, u)})
         /\ Announcement(s, {State(s, status, t), Paid(s, t)})
         /\ Announcement(s, {State(s, status, t), Failed(s, t)})
         /\ Announcement(s, {State(s, status, t)})
         /\ Announcement(s, {PaidOnce(s, t)})
<1>1. \A e \in {Paid(s, t), Paid(s, u), PaidOnce(s, t)} :
        e \in Event /\ e.of = s /\ e.kind # "state" /\ e \in AllPayments
  BY EventsOfASession, PaymentEvents
<1>2. \A e \in {State(s, status, t), State(s, other, u), Failed(s, t)} :
        /\ e \in Event /\ e.of = s /\ ~IsPayment(e)
        /\ e.kind = "state" => e.status \in Statuses
  BY EventsOfASession DEF IsPayment
<1> QED BY <1>1, <1>2 DEF Announcement

LEMMA CompletePreserves ==
  ASSUME IInv, NEW s \in Sessions, Complete(s)
  PROVE  IInv'
<1>1. now \in Nat /\ MaxTime \in Nat
  BY MaxTimeAssumption, NoneAssumption DEF IInv, TypeOK
<1>2. CASE stripe[s] = "SESSION"
  <2>1. PICK u \in {now + 1, now + 2} :
          Announce({State(s, "INCOMPLETE", now + 1), State(s, "ACTIVE", u), Paid(s, u)}, u)
    BY <1>2 DEF Complete
  <2>2. now + 1 \in 0 .. MaxTime /\ u \in 0 .. MaxTime
    BY <1>1, <2>1 DEF Announce
  <2>3. Announcement(s, {State(s, "INCOMPLETE", now + 1), State(s, "ACTIVE", u), Paid(s, u)})
    BY <2>2, PaymentAnnouncement DEF Statuses
  <2>4. StartsStay /\ stripe'[s] \in Started
    <3>1. Becomes(s, "ACTIVE") /\ taken \subseteq taken'
      BY <1>2, <2>1 DEF Complete, Announce
    <3> QED BY <3>1, BecomesStays DEF Started
  <2> QED BY <2>1, <2>2, <2>3, <2>4, AnnouncePreserves
          DEF Complete, Here, IInv, TypeOK, RowIsSound
<1>3. CASE stripe[s] = "PAYMENT"
  <2>1. Announce({PaidOnce(s, now + 1)}, now + 1)
    BY <1>3 DEF Complete
  <2>2. now + 1 \in 0 .. MaxTime
    BY <1>1, <2>1 DEF Announce
  <2>3. Announcement(s, {PaidOnce(s, now + 1)})
    BY <2>2, PaymentAnnouncement DEF Statuses
  <2>4. StartsStay
    <3>1. Becomes(s, "PAID") /\ taken \subseteq taken'
      BY <1>3, <2>1 DEF Complete, Announce
    <3> QED BY <1>3, <3>1, BecomesStays DEF Started
  <2>5. \A e \in {PaidOnce(s, now + 1)} : e.kind = "once"
    BY DEF PaidOnce
  <2> QED BY <2>1, <2>2, <2>3, <2>4, <2>5, AnnouncePreserves
          DEF Complete, Here, IInv, TypeOK, RowIsSound
<1> QED BY <1>2, <1>3 DEF Complete

LEMMA RenewPreserves ==
  ASSUME IInv, NEW s \in Sessions, Renew(s)
  PROVE  IInv'
<1>1. now + 1 \in 0 .. MaxTime
  BY MaxTimeAssumption, NoneAssumption DEF IInv, TypeOK, Renew, Announce
<1>2. PICK state \in {"ACTIVE", "PAST_DUE"}, events \in
           {{State(s, "ACTIVE", now + 1), Paid(s, now + 1)},
            {State(s, "PAST_DUE", now + 1), Failed(s, now + 1)}} :
        Becomes(s, state) /\ Announce(events, now + 1)
  BY DEF Renew
<1>3. Announcement(s, events)
  BY <1>1, <1>2, PaymentAnnouncement DEF Statuses
<1>4. StartsStay /\ stripe'[s] \in Started
  <2>1. state \in Started /\ taken \subseteq taken'
    BY <1>2 DEF Started, Announce
  <2> QED BY <1>2, <2>1, BecomesStays
<1> QED BY <1>1, <1>2, <1>3, <1>4, AnnouncePreserves DEF Renew, Here, IInv, TypeOK, RowIsSound

LEMMA EndAtStripePreserves ==
  ASSUME IInv, NEW s \in Sessions, EndAtStripe(s),
         UNCHANGED <<row, paid, hook, credited>>,
         cancelling' \in {NoCancel, "known", "differs"},
         cancelling' # NoCancel => row.id \in Sessions
  PROVE  IInv'
<1>1. PICK t \in {now, now + 1} : Announce({State(s, "CANCELED", t)}, t)
  BY DEF EndAtStripe
<1>2. t \in 0 .. MaxTime
  BY <1>1, MaxTimeAssumption, NoneAssumption DEF IInv, TypeOK, Announce
<1>3. Announcement(s, {State(s, "CANCELED", t)})
  BY <1>2, PaymentAnnouncement DEF Statuses
<1>4. StartsStay /\ stripe'[s] \in Started
  <2>1. Becomes(s, "CANCELED") /\ taken \subseteq taken'
    BY <1>1 DEF EndAtStripe, Announce
  <2> QED BY <2>1, BecomesStays DEF Started
<1> QED BY <1>1, <1>2, <1>3, <1>4, AnnouncePreserves

LEMMA EndOutsidePreserves ==
  ASSUME IInv, NEW s \in Sessions, EndOutside(s)
  PROVE  IInv'
BY EndAtStripePreserves DEF EndOutside, Here, IInv, TypeOK, RowIsSound

LEMMA CancelPreserves ==
  ASSUME IInv, Cancel
  PROVE  IInv'
<1>1. row.id \in Sessions
  BY RowWithAnId DEF Cancel, IInv
<1> QED BY <1>1, EndAtStripePreserves DEF Cancel

-----------------------------------------------------------------------------
(* Requests of the member                                                   *)

LEMMA CheckoutPreserves ==
  ASSUME IInv, NEW s \in Sessions, NEW state \in {"SESSION", "PAYMENT"}, Checkout(s, state)
  PROVE  IInv'
<1>1. StartsStay
  BY BecomesStays DEF Checkout, Started
<1>2. TypeOK'
  BY <1>1 DEF Checkout, Here, IInv, TypeOK, StartsStay
<1>3. DeliveriesAreSound'
  BY <1>1, SoundStays DEF Checkout, IInv, TypeOK, DeliveriesAreSound
<1>4. HandlersAreSound'
  BY <1>1, HandlersStay DEF Checkout, Here
<1> QED BY <1>2, <1>3, <1>4
        DEF Checkout, Here, IInv, RowIsSound, TakenArePayments, NoPaymentIsLost

(* A step that leaves Stripe and the payments alone.                       *)
LEMMA ElsewherePreserves ==
  ASSUME IInv, UNCHANGED <<stripe, now, deliveries, hook, taken, credited>>,
         row' \in Row \cup {NoRow, Closed}, paid' \in BOOLEAN,
         cancelling' \in {NoCancel, "known", "differs"},
         row'.id \in Sessions \/ UNCHANGED row, row'.last = row.last,
         cancelling' # NoCancel => row'.id \in Sessions
  PROVE  IInv'
<1>1. StartsStay
  BY DEF StartsStay, IInv, TypeOK
<1>2. TypeOK'
  BY DEF IInv, TypeOK
<1>3. DeliveriesAreSound'
  BY <1>1, SoundStays DEF IInv, TypeOK, DeliveriesAreSound
<1>4. HandlersAreSound'
  BY <1>1, HandlersStay
<1> QED BY <1>2, <1>3, <1>4 DEF IInv, RowIsSound, TakenArePayments, NoPaymentIsLost

LEMMA SaveCancelPreserves ==
  ASSUME IInv, SaveCancel
  PROVE  IInv'
<1>1. row \in Row
  BY MaxTimeAssumption, NoneAssumption DEF SaveCancel, IInv, TypeOK, RowIsSound, NoRow, Closed
<1>2. row' \in Row /\ row'.id = row.id /\ row'.last = row.last
  BY <1>1 DEF SaveCancel, Row, Statuses
<1>3. row'.id \in Sessions
  BY <1>2 DEF Row
<1> QED BY <1>2, <1>3, ElsewherePreserves DEF SaveCancel, IInv, TypeOK

LEMMA AbortCancelPreserves ==
  ASSUME IInv, AbortCancel
  PROVE  IInv'
BY ElsewherePreserves DEF AbortCancel, IInv, TypeOK

LEMMA MembershipEndsPreserves ==
  ASSUME IInv, MembershipEnds
  PROVE  IInv'
BY ElsewherePreserves DEF MembershipEnds, IInv, TypeOK, RowIsSound

-----------------------------------------------------------------------------
(* Webhooks                                                                 *)

LEMMA LearnPreserves ==
  ASSUME IInv, NEW h \in Handlers, NEW e \in deliveries, Learn(h, e)
  PROVE  IInv'
<1>1. e \in Event /\ SoundEvent(e)
  BY DEF IInv, TypeOK, DeliveriesAreSound
<1>2. PICK w \in Work : hook' = [hook EXCEPT ![h] = w] /\ SoundWork(w)
  <2>1. CASE e.kind \in {"state", "once"}
            /\ hook' = [hook EXCEPT ![h] = [event |-> e, status |-> e.status, whole |-> TRUE]]
    <3> DEFINE w == [event |-> e, status |-> e.status, whole |-> TRUE]
    <3>1. w \in Work /\ SoundWork(w)
      BY <1>1, <2>1 DEF Work, Event, SoundWork, SoundEvent
    <3> QED BY <2>1, <3>1
  <2>2. CASE e.kind \in {"paid", "failed"}
            /\ hook' = [hook EXCEPT ![h] = [event |-> e, status |-> stripe[e.of], whole |-> TRUE]]
    <3> DEFINE w == [event |-> e, status |-> stripe[e.of], whole |-> TRUE]
    <3>1. w \in Work /\ SoundWork(w)
      BY <1>1, <2>2 DEF Work, Started, Statuses, SoundWork, SoundEvent
    <3> QED BY <2>2, <3>1
  <2>3. CASE row.id = e.of
            /\ hook' = [hook EXCEPT ![h] = [event |-> e, status |-> "PAST_DUE", whole |-> FALSE]]
    <3> DEFINE w == [event |-> e, status |-> "PAST_DUE", whole |-> FALSE]
    <3>1. w \in Work /\ SoundWork(w)
      BY <1>1, <2>3 DEF Work, Event, Statuses, SoundWork
    <3> QED BY <2>3, <3>1
  <2> QED BY <2>1, <2>2, <2>3 DEF Learn
<1>3. TypeOK'
  BY <1>2 DEF Learn, IInv, TypeOK
<1>4. HandlersAreSound'
  <2>1. \A g \in Handlers : hook'[g] = hook[g] \/ hook'[g] = w
    BY <1>2 DEF IInv, TypeOK
  <2>2. \A g \in Handlers : SoundWork(hook'[g])
    BY <1>2, <2>1 DEF IInv, HandlersAreSound
  <2> QED BY <2>2 DEF Learn, HandlersAreSound, SoundWork, SoundEvent
<1> QED BY <1>3, <1>4
        DEF Learn, IInv, DeliveriesAreSound, SoundEvent, RowIsSound, TakenArePayments,
            NoPaymentIsLost

(* A handler that is done, whatever it did to the row: the others go on,   *)
(* and the delivery goes only if its payment was credited.                 *)
LEMMA DonePreserves ==
  ASSUME IInv, NEW h \in Handlers, hook' = [hook EXCEPT ![h] = Idle],
         UNCHANGED <<stripe, now, cancelling, taken>>, paid' \in BOOLEAN,
         row' \in Row \cup {NoRow, Closed}, row'.id \in Sessions \/ UNCHANGED row,
         row'.last # None /\ row'.last.kind = "paid" => row'.last \in credited',
         deliveries' \subseteq deliveries, credited \subseteq credited', credited' \subseteq taken,
         (deliveries \ deliveries') \cap taken \subseteq credited'
  PROVE  IInv'
<1>1. TypeOK'
  BY DEF IInv, TypeOK
<1>2. DeliveriesAreSound'
  BY DEF IInv, TypeOK, DeliveriesAreSound, SoundEvent
<1>3. HandlersAreSound'
  BY DEF IInv, TypeOK, HandlersAreSound, SoundWork, SoundEvent
<1>4. RowIsSound'
  BY DEF IInv, RowIsSound
<1>5. TakenArePayments' /\ NoPaymentIsLost'
  BY DEF IInv, TakenArePayments, NoPaymentIsLost
<1> QED BY <1>1, <1>2, <1>3, <1>4, <1>5 DEF IInv

LEMMA StoredIsARow ==
  ASSUME IInv, NEW w \in Work, w # Idle, SoundWork(w), w.event.kind # "once"
  PROVE  Stored(w) \in Row /\ Stored(w).last \in {w.event, row.last}
<1>1. w.event \in Event /\ w.event.of \in Sessions /\ w.status \in Statuses
  BY DEF Work, Event, SoundWork
<1>2. row.last = None \/ row.last \in Event
  BY DEF IInv, TypeOK, Row, NoRow, Closed
<1>3. (IF w.whole THEN w.event.of ELSE row.id) \in Sessions
  BY <1>1 DEF SoundWork
<1>4. (IF row.last = None \/ w.event.at >= row.last.at THEN w.event ELSE row.last) \in Event
  BY <1>1, <1>2
<1> QED BY <1>1, <1>3, <1>4 DEF Stored, Row

LEMMA ApplyEventPreserves ==
  ASSUME IInv, NEW h \in Handlers, NEW keep \in BOOLEAN, ApplyEvent(h, keep)
  PROVE  IInv'
<1> DEFINE e == hook[h].event
<1>1. /\ hook[h] \in Work /\ hook[h] # Idle /\ e \in Event
      /\ SoundWork(hook[h]) /\ SoundEvent(e)
  BY DEF ApplyEvent, IInv, TypeOK, HandlersAreSound, SoundWork, Work
<1>2. /\ hook' = [hook EXCEPT ![h] = Idle] /\ UNCHANGED <<stripe, now, cancelling, taken>>
      /\ deliveries' = deliveries \/ deliveries' = deliveries \ {e}
  BY DEF ApplyEvent, Acknowledge
<1>3. row \in Row \cup {NoRow, Closed} /\ paid \in BOOLEAN /\ credited \subseteq taken
  BY DEF IInv, TypeOK, NoPaymentIsLost
<1>4. e \in taken => IsPayment(e)
  BY PaymentEvents DEF IInv, TakenArePayments
<1>5. CASE e.kind = "once" /\ Credit(e) /\ UNCHANGED row
  <2>1. e \in taken
    BY <1>1, <1>5 DEF SoundEvent, IsPayment
  <2>2. paid' = TRUE /\ credited' = credited \cup {e}
    BY <1>5 DEF Credit
  <2> QED BY <1>2, <1>3, <1>5, <2>1, <2>2, DonePreserves DEF IInv, RowIsSound
<1>6. CASE e.kind # "once" /\ Processed(e) /\ UNCHANGED <<row, paid, credited>>
  <2>1. e \in taken => e \in credited
    BY <1>4, <1>6 DEF Processed, IsPayment, IInv, RowIsSound
  <2> QED BY <1>2, <1>3, <1>6, <2>1, DonePreserves DEF IInv, RowIsSound
<1>7. CASE /\ e.kind # "once" /\ row' = Stored(hook[h])
           /\ IF e.kind = "paid" THEN Credit(e) ELSE UNCHANGED <<paid, credited>>
  <2>1. row' \in Row /\ row'.last \in {e, row.last}
    BY <1>1, <1>7, StoredIsARow
  <2>2. row'.id \in Sessions
    BY <2>1 DEF Row
  <2>3. CASE e.kind = "paid"
    <3>1. e \in taken
      BY <1>1, <2>3 DEF SoundEvent, IsPayment
    <3>2. paid' = TRUE /\ credited' = credited \cup {e}
      BY <1>7, <2>3 DEF Credit
    <3>3. row'.last # None /\ row'.last.kind = "paid" => row'.last \in credited'
      BY <2>1, <3>2 DEF IInv, RowIsSound
    <3> QED BY <1>2, <1>3, <2>1, <2>2, <3>1, <3>2, <3>3, DonePreserves
  <2>4. CASE e.kind # "paid"
    <3>1. e \notin taken
      BY <1>4, <1>7, <2>4 DEF IsPayment
    <3>2. UNCHANGED <<paid, credited>>
      BY <1>7, <2>4
    <3>3. row'.last # None /\ row'.last.kind = "paid" => row'.last \in credited'
      BY <2>1, <2>4, <3>2 DEF IInv, RowIsSound
    <3> QED BY <1>2, <1>3, <2>1, <2>2, <3>1, <3>2, <3>3, DonePreserves
  <2> QED BY <2>3, <2>4
<1> QED BY <1>5, <1>6, <1>7 DEF ApplyEvent

LEMMA GiveUpPreserves ==
  ASSUME IInv, NEW h \in Handlers, GiveUp(h)
  PROVE  IInv'
BY DonePreserves DEF GiveUp, IInv, TypeOK, RowIsSound, NoPaymentIsLost

LEMMA StutterPreserves ==
  ASSUME IInv, UNCHANGED vars
  PROVE  IInv'
BY ElsewherePreserves DEF vars, IInv, TypeOK, RowIsSound

LEMMA InitEstablishes ==
  ASSUME Init
  PROVE  IInv
<1>1. TypeOK
  <2>1. now \in 0 .. MaxTime
    BY MaxTimeAssumption, NoneAssumption DEF Init
  <2>2. hook \in [Handlers -> Work \cup {Idle}]
    BY DEF Init
  <2> QED BY <2>1, <2>2 DEF Init, TypeOK
<1> QED BY <1>1 DEF Init, IInv, DeliveriesAreSound, HandlersAreSound, SoundWork, RowIsSound,
                    TakenArePayments, NoPaymentIsLost, NoRow, Closed

LEMMA NextPreserves ==
  ASSUME IInv, [Next]_vars
  PROVE  IInv'
<1>1. ASSUME NEW s \in Sessions, Stripe(s) PROVE IInv'
  BY <1>1, CompletePreserves, RenewPreserves, EndOutsidePreserves DEF Stripe
<1>2. ASSUME NEW s \in Sessions, NEW state \in {"SESSION", "PAYMENT"}, Checkout(s, state)
      PROVE  IInv'
  BY <1>2, CheckoutPreserves
<1>3. ASSUME NEW h \in Handlers, NEW e \in deliveries, Learn(h, e) PROVE IInv'
  BY <1>3, LearnPreserves
<1>4. ASSUME NEW h \in Handlers, NEW keep \in BOOLEAN, ApplyEvent(h, keep) PROVE IInv'
  BY <1>4, ApplyEventPreserves
<1>5. ASSUME NEW h \in Handlers, GiveUp(h) PROVE IInv'
  BY <1>5, GiveUpPreserves
<1> QED BY <1>1, <1>2, <1>3, <1>4, <1>5, CancelPreserves, SaveCancelPreserves,
           AbortCancelPreserves, MembershipEndsPreserves, StutterPreserves DEF Next

LEMMA Invariant ==
  Spec => []IInv
<1>1. Init => IInv
  BY InitEstablishes
<1>2. IInv /\ [Next]_vars => IInv'
  BY NextPreserves
<1> QED BY <1>1, <1>2, PTL DEF Spec

-----------------------------------------------------------------------------
(* The theorems                                                             *)

(* The row, the events and what handlers have learnt keep their types: no  *)
(* handler stores a status Stripe's subscriptions do not have, and none    *)
(* keeps the id of a row that has none.                                    *)
THEOREM StripeTyped ==
  Spec => []TypeOK
<1>1. IInv => TypeOK
  BY DEF IInv
<1> QED BY <1>1, Invariant, PTL

(* What was paid is credited or still announced: an event is acknowledged  *)
(* without credit only if it repeats a payment that was credited.          *)
THEOREM PaymentsAreKept ==
  Spec => []NoPaymentIsLost
<1>1. IInv => NoPaymentIsLost
  BY DEF IInv
<1> QED BY <1>1, Invariant, PTL

-----------------------------------------------------------------------------
(* The implementation of Membership                                         *)

Due == deliveries \cap AllPayments

(* What a step of Membership is, in terms of this module.                  *)
Unnoticed == UNCHANGED <<taken, Due, credited, paid>>
Taken(p) ==
  taken' = taken \cup {p} /\ Due' = Due \cup {p} /\ UNCHANGED <<credited, paid>>
Credited(p) ==
  /\ p \in taken /\ credited' = credited \cup {p} /\ paid' = TRUE
  /\ Due' \in {Due, Due \ {p}} /\ UNCHANGED taken
Discarded(p) == p \in credited /\ Due' = Due \ {p} /\ UNCHANGED <<taken, credited, paid>>
Ended == paid /\ paid' = FALSE /\ UNCHANGED <<taken, Due, credited>>
MembershipStep == \/ Unnoticed \/ Ended
                  \/ \E p \in AllPayments : Taken(p) \/ Credited(p) \/ Discarded(p)

LEMMA MembershipIsNext == MembershipStep => [Promised!Next]_(Promised!vars)
BY DEF MembershipStep, Unnoticed, Taken, Credited, Discarded, Ended, Due, Promised!Next,
   Promised!vars, Promised!Take, Promised!Credit, Promised!Discard, Promised!End

(* An announcement without a payment goes unnoticed; one with a payment is *)
(* a payment that was taken.                                               *)
LEMMA AnnouncedOrTaken ==
  ASSUME NEW events, NEW t, Announce(events, t), UNCHANGED <<credited, paid>>
  PROVE  /\ (\A e \in events : ~IsPayment(e)) => Unnoticed
         /\ \A p \in events : p \in AllPayments /\ (\A e \in events : IsPayment(e) => e = p)
              => Taken(p)
<1>1. deliveries' = deliveries \cup events /\ taken' = taken \cup {e \in events : IsPayment(e)}
  BY DEF Announce
<1>2. \A e \in AllPayments : IsPayment(e)
  BY PaymentEvents
<1>3. ASSUME \A e \in events : ~IsPayment(e) PROVE Unnoticed
  <2>1. Due' = Due
    BY <1>1, <1>2, <1>3 DEF Due
  <2>2. taken' = taken
    BY <1>1, <1>3
  <2> QED BY <2>1, <2>2 DEF Unnoticed
<1>4. ASSUME NEW p \in events, p \in AllPayments, \A e \in events : IsPayment(e) => e = p
      PROVE  Taken(p)
  <2>1. Due' = Due \cup {p}
    BY <1>1, <1>2, <1>4 DEF Due
  <2>2. taken' = taken \cup {p}
    BY <1>1, <1>2, <1>4
  <2> QED BY <2>1, <2>2 DEF Taken
<1> QED BY <1>3, <1>4

LEMMA EndImplements ==
  ASSUME NEW s \in Sessions, EndAtStripe(s), UNCHANGED <<credited, paid>>
  PROVE  MembershipStep
<1>1. PICK t \in {now, now + 1} : Announce({State(s, "CANCELED", t)}, t)
  BY DEF EndAtStripe
<1>2. \A e \in {State(s, "CANCELED", t)} : ~IsPayment(e)
  BY DEF State, IsPayment
<1> QED BY <1>1, <1>2, AnnouncedOrTaken DEF MembershipStep

LEMMA StripeImplements ==
  ASSUME IInv, NEW s \in Sessions, Stripe(s)
  PROVE  MembershipStep
<1>1. now \in Nat /\ MaxTime \in Nat
  BY MaxTimeAssumption, NoneAssumption DEF IInv, TypeOK
<1>2. CASE Complete(s)
  <2>1. UNCHANGED <<credited, paid>>
    BY <1>2 DEF Complete, Here
  <2>2. CASE stripe[s] = "SESSION"
    <3>1. PICK u \in {now + 1, now + 2} :
            Announce({State(s, "INCOMPLETE", now + 1), State(s, "ACTIVE", u), Paid(s, u)}, u)
      BY <1>2, <2>2 DEF Complete
    <3> DEFINE events == {State(s, "INCOMPLETE", now + 1), State(s, "ACTIVE", u), Paid(s, u)}
    <3>2. Paid(s, u) \in AllPayments
      <4>1. u \in 0 .. MaxTime
        BY <1>1, <3>1 DEF Announce
      <4> QED BY <4>1, EventsOfASession
    <3>3. \A e \in events : IsPayment(e) => e = Paid(s, u)
      BY DEF State, IsPayment
    <3> QED BY <2>1, <3>1, <3>2, <3>3, AnnouncedOrTaken DEF MembershipStep
  <2>3. CASE stripe[s] = "PAYMENT"
    <3>1. Announce({PaidOnce(s, now + 1)}, now + 1)
      BY <1>2, <2>3 DEF Complete
    <3>2. PaidOnce(s, now + 1) \in AllPayments
      <4>1. now + 1 \in 0 .. MaxTime
        BY <1>1, <3>1 DEF Announce
      <4> QED BY <4>1, EventsOfASession
    <3> QED BY <2>1, <3>1, <3>2, AnnouncedOrTaken DEF MembershipStep
  <2> QED BY <1>2, <2>2, <2>3 DEF Complete
<1>3. CASE Renew(s)
  <2>1. UNCHANGED <<credited, paid>>
    BY <1>3 DEF Renew, Here
  <2>2. CASE Announce({State(s, "ACTIVE", now + 1), Paid(s, now + 1)}, now + 1)
    <3>1. Paid(s, now + 1) \in AllPayments
      <4>1. now + 1 \in 0 .. MaxTime
        BY <1>1, <2>2 DEF Announce
      <4> QED BY <4>1, EventsOfASession
    <3>2. \A e \in {State(s, "ACTIVE", now + 1), Paid(s, now + 1)} :
            IsPayment(e) => e = Paid(s, now + 1)
      BY DEF State, IsPayment
    <3> QED BY <2>1, <2>2, <3>1, <3>2, AnnouncedOrTaken DEF MembershipStep
  <2>3. CASE Announce({State(s, "PAST_DUE", now + 1), Failed(s, now + 1)}, now + 1)
    <3>1. \A e \in {State(s, "PAST_DUE", now + 1), Failed(s, now + 1)} : ~IsPayment(e)
      BY DEF State, Failed, IsPayment
    <3> QED BY <2>1, <2>3, <3>1, AnnouncedOrTaken DEF MembershipStep
  <2> QED BY <1>3, <2>2, <2>3 DEF Renew
<1>4. CASE EndOutside(s)
  BY <1>4, EndImplements DEF EndOutside, Here
<1> QED BY <1>2, <1>3, <1>4 DEF Stripe

LEMMA HandlerImplements ==
  ASSUME IInv, NEW h \in Handlers, NEW keep \in BOOLEAN, ApplyEvent(h, keep)
  PROVE  MembershipStep
<1> DEFINE e == hook[h].event
<1>1. SoundEvent(e)
  BY DEF ApplyEvent, IInv, HandlersAreSound, SoundWork
<1>2. UNCHANGED taken /\ Due' \in {Due, Due \ {e}}
  BY DEF ApplyEvent, Acknowledge, Due
<1>3. CASE IsPayment(e)
  <2>1. e \in taken /\ e \in AllPayments
    BY <1>1, <1>3 DEF SoundEvent, IInv, TakenArePayments
  <2>2. CASE Credit(e)
    <3>1. Credited(e)
      BY <1>2, <2>1, <2>2 DEF Credit, Credited
    <3> QED BY <2>1, <3>1 DEF MembershipStep
  <2>3. CASE e.kind # "once" /\ Processed(e) /\ UNCHANGED <<row, paid, credited>>
    <3>1. e \in credited
      BY <1>3, <2>3 DEF Processed, IsPayment, IInv, RowIsSound
    <3>2. Unnoticed \/ Discarded(e)
      BY <1>2, <2>3, <3>1 DEF Unnoticed, Discarded
    <3> QED BY <2>1, <3>2 DEF MembershipStep
  <2> QED BY <1>3, <2>2, <2>3 DEF ApplyEvent, IsPayment
<1>4. CASE ~IsPayment(e)
  <2>1. Due' = Due
    BY <1>4, PaymentEvents DEF ApplyEvent, Acknowledge, Due
  <2>2. UNCHANGED <<paid, credited>>
    BY <1>4 DEF ApplyEvent, IsPayment
  <2> QED BY <1>2, <2>1, <2>2 DEF MembershipStep, Unnoticed
<1> QED BY <1>3, <1>4

LEMMA NextImplements ==
  ASSUME IInv, [Next]_vars
  PROVE  MembershipStep
<1>1. CASE UNCHANGED <<paid, taken, deliveries, credited>>
  BY <1>1 DEF Due, MembershipStep, Unnoticed
<1>2. ASSUME NEW s \in Sessions, Stripe(s) PROVE MembershipStep
  BY <1>2, StripeImplements
<1>3. CASE Cancel
  <2>1. row.id \in Sessions
    BY <1>3, RowWithAnId DEF Cancel, IInv
  <2> QED BY <1>3, <2>1, EndImplements DEF Cancel
<1>4. ASSUME NEW h \in Handlers, NEW keep \in BOOLEAN, ApplyEvent(h, keep) PROVE MembershipStep
  BY <1>4, HandlerImplements
<1>5. CASE MembershipEnds
  BY <1>5 DEF MembershipEnds, Due, MembershipStep, Ended
<1> QED BY <1>1, <1>2, <1>3, <1>4, <1>5
        DEF Next, Checkout, SaveCancel, AbortCancel, Learn, GiveUp, Here, vars

(* The webhooks implement Membership: the member becomes paid only by the  *)
(* credit of a payment Stripe took, and no payment is acknowledged before  *)
(* it was credited, whatever is repeated, reordered and lost.              *)
THEOREM StripeImplementsMembership ==
  Spec => PaidForWithStripe
<1>1. Init => Promised!Init
  BY DEF Init, Promised!Init
<1>2. IInv /\ [Next]_vars => [Promised!Next]_(Promised!vars)
  BY NextImplements, MembershipIsNext
<1> QED BY <1>1, <1>2, Invariant, PTL DEF Spec, PaidForWithStripe, Promised!Spec

=============================================================================
