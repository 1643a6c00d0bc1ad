------------------------------ MODULE EventPayment ------------------------------
(***************************************************************************)
(* Payments for places at the event of EventRegistration: the checkout     *)
(* endpoint, the two payment providers as the code sees them, and the      *)
(* webhooks that mark a registration as paid (EventRegistration.Registered)*)
(*                                                                         *)
(* Source: the event branch of ApiPaymentOffersController.Checkout and     *)
(* GetMobilePayContext, HandleEventPaymentAsync of VippsWebhookController  *)
(* and of StripeWebhookController.  The handler of a success looks the row *)
(* up first and then reads it again under a row lock: two steps.  A handler*)
(* that throws answers 502: nothing changes and the provider delivers the  *)
(* same event again later.                                                 *)
(***************************************************************************)
EXTENDS EventRegistration

CONSTANT Attempts   \* checkout attempts; each has its own payment reference

VARIABLES
  pay,         \* pay[a]: the payment at the provider
  deliveries,  \* webhook events the provider has yet to see acknowledged
  found,       \* found[a]: the id a success handler at work has looked up, or 0
  acked,       \* history: payments whose success was acknowledged once
  offered      \* the event has an active payment offer

payVars == <<pay, deliveries, found, acked, offered>>
allVars == <<event, reg, accounts, nextId, editor, pay, deliveries, found, acked, offered>>

Providers == {"MOBILEPAY", "STRIPE"}
PaymentStates == {"CREATED", "AUTHORIZED", "CAPTURED", "CANCELLED", "REFUNDED"}
Unused == [state |-> "UNUSED"]
Payment == [state : PaymentStates, provider : Providers, user : Users, regId : Nat]
Delivery == Attempts \X {"AUTHORIZED", "CAPTURED", "REFUNDED"}

IsParticipant(u) == Counts(reg[u])
IsUnpaidParticipant(u) == Counts(reg[u]) /\ ~reg[u].registered

(* An event is delivered; its acknowledgement may be lost (keep), and then *)
(* it is delivered again.                                                  *)
Acknowledge(a, name, keep) ==
  deliveries' = IF keep THEN deliveries ELSE deliveries \ {<<a, name>>}

PayInit ==
  /\ Init
  /\ pay = [a \in Attempts |-> Unused]
  /\ deliveries = {}
  /\ found = [a \in Attempts |-> 0]
  /\ acked = {}
  /\ offered = TRUE

(* Mutant: the reference of an earlier attempt starts a payment anew.      *)
Checkout_ReusesReference(u, a, provider) ==
  /\ offered
  /\ CancellationOpen
  /\ IsUnpaidParticipant(u)
  /\ pay' = [pay EXCEPT ![a] = [state |-> "CREATED", provider |-> provider,
                                user |-> u, regId |-> reg[u].id]]
  /\ UNCHANGED <<vars, deliveries, found, acked, offered>>

(* Checkout: CanAccessEventPayment and the checks on the registration. The *)
(* MobilePay reference carries the id of the row, Stripe's metadata the    *)
(* user and the event.                                                     *)
Checkout(u, a, provider) ==
  /\ pay[a] = Unused
  /\ offered
  /\ CancellationOpen
  /\ IsUnpaidParticipant(u)
  /\ pay' = [pay EXCEPT ![a] = [state |-> "CREATED", provider |-> provider,
                                user |-> u, regId |-> reg[u].id]]
  /\ UNCHANGED <<vars, deliveries, found, acked, offered>>

(* The member approves: MobilePay reserves the amount, Stripe takes it.    *)
Approve(a) ==
  LET next == IF pay[a].provider = "MOBILEPAY" THEN "AUTHORIZED" ELSE "CAPTURED"
  IN  /\ pay[a].state = "CREATED"
      /\ pay' = [pay EXCEPT ![a].state = next]
      /\ deliveries' = deliveries \cup {<<a, next>>}
      /\ UNCHANGED <<vars, found, acked, offered>>

(* The member aborts, or the payment or the reservation expires.           *)
Abandon(a) ==
  /\ pay[a].state \in {"CREATED", "AUTHORIZED"}
  /\ pay' = [pay EXCEPT ![a].state = "CANCELLED"]
  /\ UNCHANGED <<vars, deliveries, found, acked, offered>>

(* An administrator refunds the payment at the provider.                   *)
Refund(a) ==
  /\ pay[a].state = "CAPTURED"
  /\ pay' = [pay EXCEPT ![a].state = "REFUNDED"]
  /\ deliveries' = deliveries \cup {<<a, "REFUNDED">>}
  /\ UNCHANGED <<vars, found, acked, offered>>

(* The provider captures the amount and announces it.                      *)
Capture(a) == pay' = [pay EXCEPT ![a].state = "CAPTURED"]

(* Mutant: the reservation is left to the page the member returns to.      *)
HandleAuthorized_NeverCaptures(a, keep) ==
  /\ <<a, "AUTHORIZED">> \in deliveries
  /\ pay[a].state # "CANCELLED"
  /\ Acknowledge(a, "AUTHORIZED", keep)
  /\ UNCHANGED <<vars, pay, found, acked, offered>>

(* AUTHORIZED webhook: capture what is not captured yet.  The capture of a *)
(* cancelled payment fails, and so does the handler.                       *)
HandleAuthorized(a, keep) ==
  /\ <<a, "AUTHORIZED">> \in deliveries
  /\ pay[a].state # "CANCELLED"
  /\ IF pay[a].state = "AUTHORIZED"
       THEN /\ Capture(a)
            /\ deliveries' = (IF keep THEN deliveries ELSE deliveries \ {<<a, "AUTHORIZED">>})
                               \cup {<<a, "CAPTURED">>}
       ELSE pay' = pay /\ Acknowledge(a, "AUTHORIZED", keep)
  /\ UNCHANGED <<vars, found, acked, offered>>

(* GetMobilePayContext: the return page polls, and captures an authorized  *)
(* payment itself.                                                         *)
Poll(a) ==
  /\ pay[a].state = "AUTHORIZED"
  /\ reg[pay[a].user].id = pay[a].regId
  /\ ~reg[pay[a].user].registered
  /\ offered
  /\ event.type = "EVENT"
  /\ Capture(a)
  /\ deliveries' = deliveries \cup {<<a, "CAPTURED">>}
  /\ UNCHANGED <<vars, found, acked, offered>>

(* Success webhook (CAPTURED, checkout.session.completed), the part before *)
(* the lock: look up the row, MobilePay's by its id, Stripe's by its user, *)
(* and the event.  A failed lookup throws, so the delivery comes again.    *)
FindRow(a) ==
  LET u == pay[a].user
  IN  /\ <<a, "CAPTURED">> \in deliveries
      /\ found[a] = 0
      /\ event.type = "EVENT"
      /\ HasRow(u)
      /\ IF pay[a].provider = "MOBILEPAY" THEN reg[u].id = pay[a].regId ELSE Counts(reg[u])
      /\ found' = [found EXCEPT ![a] = reg[u].id]
      /\ UNCHANGED <<vars, pay, deliveries, acked, offered>>

(* Mutant: the locked row is not looked at again.                          *)
MarkRow_NoRecheck(a, keep) ==
  /\ \E u \in Users :
       /\ HasRow(u) /\ reg[u].id = found[a]
       /\ reg' = [reg EXCEPT ![u].registered = TRUE]
  /\ found' = [found EXCEPT ![a] = 0]
  /\ acked' = acked \cup {a}
  /\ Acknowledge(a, "CAPTURED", keep)
  /\ UNCHANGED <<event, accounts, nextId, editor, pay, offered>>

(* Mutant: organizers are taken to be free of charge.                      *)
MarkRow_AttendeesOnly(a, keep) ==
  /\ \E u \in Users :
       /\ reg[u].type = "ATTENDEE" /\ reg[u].id = found[a]
       /\ reg' = [reg EXCEPT ![u].registered = TRUE]
  /\ found' = [found EXCEPT ![a] = 0]
  /\ acked' = acked \cup {a}
  /\ Acknowledge(a, "CAPTURED", keep)
  /\ UNCHANGED <<event, accounts, nextId, editor, pay, offered>>

(* The part under the lock: read the row again by its id, check that it    *)
(* holds a place and mark it.  (A row that is marked already stays so.)    *)
MarkRow(a, keep) ==
  /\ \E u \in Users :
       /\ IsParticipant(u) /\ reg[u].id = found[a]
       /\ reg' = [reg EXCEPT ![u].registered = TRUE]
  /\ found' = [found EXCEPT ![a] = 0]
  /\ acked' = acked \cup {a}
  /\ Acknowledge(a, "CAPTURED", keep)
  /\ UNCHANGED <<event, accounts, nextId, editor, pay, offered>>

(* Mutant: a failure is answered with 200 and never retried.               *)
GiveUp_Acknowledges(a) ==
  /\ found[a] # 0
  /\ found' = [found EXCEPT ![a] = 0]
  /\ acked' = acked \cup {a}
  /\ Acknowledge(a, "CAPTURED", FALSE)
  /\ UNCHANGED <<vars, pay, offered>>

(* The locked row is gone or holds no place, or the process stops: the     *)
(* handler answers 502, or nothing, and the delivery stays.                *)
GiveUp(a) ==
  /\ found[a] # 0
  /\ found' = [found EXCEPT ![a] = 0]
  /\ UNCHANGED <<vars, pay, deliveries, acked, offered>>

(* Mutant: whatever has the wrong form is acknowledged.                    *)
HandleIgnored_Everything(a, keep) ==
  /\ \E name \in {"CAPTURED", "REFUNDED"} :
       <<a, name>> \in deliveries /\ Acknowledge(a, name, keep)
  /\ UNCHANGED <<vars, found, pay, acked, offered>>

(* Every other event name is acknowledged and ignored.                     *)
HandleIgnored(a, keep) ==
  /\ <<a, "REFUNDED">> \in deliveries
  /\ Acknowledge(a, "REFUNDED", keep)
  /\ UNCHANGED <<vars, found, pay, acked, offered>>

(* The offer is deactivated, or deleted, while payments are under way.     *)
WithdrawOffer ==
  /\ offered
  /\ offered' = FALSE
  /\ UNCHANGED <<vars, pay, deliveries, found, acked>>

Provider(a) == Approve(a) \/ Abandon(a) \/ Refund(a)
Handle(a, keep) ==
  HandleAuthorized(a, keep) \/ MarkRow(a, keep) \/ HandleIgnored(a, keep)

PayNext ==
  \/ Next /\ UNCHANGED payVars
  \/ \E u \in Users, a \in Attempts, p \in Providers : Checkout(u, a, p)
  \/ \E a \in Attempts : Provider(a) \/ Poll(a) \/ FindRow(a) \/ GiveUp(a)
  \/ \E a \in Attempts, keep \in BOOLEAN : Handle(a, keep)
  \/ WithdrawOffer

PaySpec == PayInit /\ [][PayNext]_allVars

(* The providers deliver an event until an acknowledgement reaches them, a *)
(* handler that has started comes to an end, and a handler that could mark *)
(* the row again and again does not crash each time.                       *)
Redelivery ==
  \A a \in Attempts :
    /\ WF_allVars(HandleAuthorized(a, FALSE))
    /\ WF_allVars(FindRow(a))
    /\ WF_allVars(GiveUp(a))
    /\ SF_allVars(MarkRow(a, FALSE))
FairPaySpec == PaySpec /\ Redelivery

-----------------------------------------------------------------------------
(* Types, and what an event in flight says about the payment.              *)
PayTypeOK ==
  /\ pay \in [Attempts -> Payment \cup {Unused}]
  /\ deliveries \subseteq Delivery
  /\ acked \subseteq Attempts
  /\ found \in [Attempts -> Nat]
  /\ offered \in BOOLEAN
  /\ \A a \in Attempts : <<a, "AUTHORIZED">> \in deliveries =>
       pay[a].state # "CREATED" /\ pay[a].provider = "MOBILEPAY"

Taken(a) == pay[a].state \in {"CAPTURED", "REFUNDED"}

(* Success is announced and acknowledged only for money that was taken,    *)
(* and money that was taken is announced until it is acknowledged: no      *)
(* payment is forgotten between the provider and the webhook.              *)
NoPaymentIsForgotten ==
  \A a \in Attempts :
    Taken(a) <=> <<a, "CAPTURED">> \in deliveries \/ a \in acked

(* A registration becomes paid only because an administrator says so or    *)
(* because the provider took the money of that user, for that very row     *)
(* when the reference names one, and the user holds a place at the time.   *)
AdminMarks(u) ==
  /\ \E t \in RegistrationTypes : Add(u, t, TRUE) \/ Update(u, t, TRUE)
  /\ UNCHANGED payVars
PaidFor(u, a) ==
  /\ Taken(a) /\ pay[a].user = u /\ Counts(reg'[u])
  /\ pay[a].provider = "MOBILEPAY" => pay[a].regId = reg'[u].id
PaidOnlyByProviderOrAdmin ==
  [][\A u \in Users : ~reg[u].registered /\ reg'[u].registered =>
       (\E a \in Attempts : PaidFor(u, a)) \/ AdminMarks(u)]_allVars

(* The first acknowledgement of a success leaves the row paid: a payment   *)
(* that cannot be credited is retried, never swallowed.                    *)
AcknowledgedMeansPaid ==
  [][\A a \in Attempts : a \in acked' \ acked => reg'[pay[a].user].registered]_allVars

(* A payment whose row holds a place is credited in the end, whatever the  *)
(* order of the events, unless the row changes first.                      *)
Payable(a) ==
  /\ event.type = "EVENT"
  /\ IsParticipant(pay[a].user)
  /\ pay[a].provider = "MOBILEPAY" => reg[pay[a].user].id = pay[a].regId
Creditable(a) == Taken(a) /\ Payable(a)
TakenIsCredited ==
  \A a \in Attempts : Creditable(a) ~> a \in acked \/ ~Creditable(a)

(* An authorized payment is captured in the end, even if the member never  *)
(* comes back to the page, unless it is cancelled first.                   *)
AuthorizedIsCaptured ==
  \A a \in Attempts : pay[a].state = "AUTHORIZED" ~> pay[a].state # "AUTHORIZED"

-----------------------------------------------------------------------------
(* "Event payment status is changed only after confirmed payment from the  *)
(* provider": a member who answers again, and keeps the place, keeps the   *)
(* mark of a payment that was credited and never refunded.                 *)
HasPaid(u) == \E a \in acked : pay[a].user = u /\ pay[a].state = "CAPTURED"
MemberKeepsPaidMark ==
  [][\A u \in Users, t \in RegistrationTypes :
       Register(u, t) /\ HasPaid(u) /\ IsUnpaidParticipant(u)' => ~reg[u].registered]_allVars

=============================================================================
