-------------------------- MODULE MobilePaySubscription --------------------------
(***************************************************************************)
(* The membership subscription of one member, paid with MobilePay: the one *)
(* PaymentSubscriptions row the member may have, the agreements MobilePay  *)
(* keeps, the requests that create, look up, abandon and cancel them, and  *)
(* the recurring webhooks.                                                 *)
(*                                                                         *)
(* Source: CheckoutMobilePayRecurringMembershipAsync (and the start of     *)
(* Checkout) of ApiPaymentOffersController, ApiPaymentSubscriptions-       *)
(* Controller, MobilePaySubscriptionReconciliationService and              *)
(* HandleRecurringPaymentAsync of VippsWebhookController.  Requests read   *)
(* the row, call MobilePay and write the row later, without a lock: a      *)
(* request advances in steps.  One recurring offer is modelled.            *)
(***************************************************************************)
EXTENDS Integers, FiniteSets

CONSTANTS
  Agreements,   \* payment references; MobilePay makes one agreement for each
  Requests,     \* requests of the member that may run at once
  Handlers,     \* webhook deliveries that may be handled at once
  MaxTime,      \* bound: how many events MobilePay ever announces
  None

ASSUME MaxTimeAssumption == MaxTime \in Nat
ASSUME NoneAssumption == None \notin Agreements

VARIABLES
  row,         \* the PaymentSubscriptions row of the member
  paid,        \* the member's Status is BETALT
  agr,         \* agr[a]: the agreement at MobilePay
  now,         \* the time of the latest event
  deliveries,  \* events MobilePay has yet to see acknowledged
  req,         \* req[r]: a request in progress
  hook,        \* hook[h]: the event a handler has looked the row up for
  credited     \* history: agreements the member was marked as paid for

vars == <<row, paid, agr, now, deliveries, req, hook, credited>>

OpenStatuses == {"PENDING", "ACTIVE", "PAST_DUE"}
TerminalStatuses == {"CANCELED", "EXPIRED"}
Names == {"activated", "captured", "failed", "stopped", "expired"}
Event == [agreement : Agreements, name : Names, at : 0 .. MaxTime]

(* ProviderSubscriptionId: "pending:" and the reference until MobilePay    *)
(* has answered, the id of the agreement afterwards.                       *)
Pending(a) == [kind |-> "pending", of |-> a]
Agreement(a) == [kind |-> "agreement", of |-> a]
Ids == [kind : {"pending", "agreement"}, of : Agreements]
ASSUME NoIdAssumption == None \notin Ids

NoRow == [id |-> None, status |-> "NONE", last |-> None]
Row == [id : Ids, status : OpenStatuses \cup TerminalStatuses, last : Event \cup {None}]
Reserved(a) == [id |-> Pending(a), status |-> "PENDING", last |-> None]

Open(s) == s.status \in OpenStatuses
Terminal(s) == s.status \in TerminalStatuses
IsPendingAgreement(s) == s.status = "PENDING" /\ s.id.kind = "pending"
HasAgreement(s) == s # NoRow /\ s.id.kind = "agreement"

AgreementStates == {"NONE", "PENDING", "ACTIVE", "STOPPED", "EXPIRED"}
AgreementRecord == [state : AgreementStates, scheduled : BOOLEAN, charged : BOOLEAN]
Live(a) == agr[a].state \in {"PENDING", "ACTIVE"}

(* checkout: the request is a checkout; seen: the row as it tracks it; of: *)
(* the reference it uses; status: the status it is about to store.         *)
Idle == [pc |-> "idle", checkout |-> FALSE, seen |-> NoRow, of |-> None, status |-> None]
Steps == {"read", "commit", "abandon", "terminate", "check", "reserve", "create", "save",
          "stop", "cancel"}
Request == [pc : Steps, checkout : BOOLEAN, seen : Row \cup {NoRow}, of : Agreements \cup {None},
            status : OpenStatuses \cup TerminalStatuses \cup {None}]

Checkout(pc, seen) == [Idle EXCEPT !.pc = pc, !.checkout = TRUE, !.seen = seen]
Other(pc, seen) == [Idle EXCEPT !.pc = pc, !.seen = seen]
Proceed(r, request) == req' = [req EXCEPT ![r] = request]
Finish(r) == Proceed(r, Idle)
At(r, pc) == req[r].pc = pc

(* SaveChangesAsync writes the columns that differ from the tracked row.   *)
Written(seen, new) == [f \in DOMAIN new |-> IF new[f] # seen[f] THEN new[f] ELSE row[f]]

Init ==
  /\ row \in {NoRow} \cup {[Reserved(a) EXCEPT !.status = "EXPIRED"] : a \in Agreements}
  /\ paid = FALSE
  /\ agr = [a \in Agreements |-> [state |-> "NONE", scheduled |-> FALSE, charged |-> FALSE]]
  /\ now = 0
  /\ deliveries = {}
  /\ req = [r \in Requests |-> Idle]
  /\ hook = [h \in Handlers |-> None]
  /\ credited = {}

-----------------------------------------------------------------------------
(* MobilePay                                                                *)

Announce(a, name) ==
  /\ now < MaxTime
  /\ now' = now + 1
  /\ deliveries' = deliveries \cup {[agreement |-> a, name |-> name, at |-> now + 1]}

(* The member accepts: the initial charge is captured, at the latest when  *)
(* the agreement becomes active.                                           *)
Accept(a) ==
  /\ agr[a].state = "PENDING"
  /\ now < MaxTime
  /\ now' = now + 1
  /\ \E t \in {now, now + 1} :
       deliveries' = deliveries \cup
         {[agreement |-> a, name |-> "captured", at |-> t],
          [agreement |-> a, name |-> "activated", at |-> now + 1]}
  /\ agr' = [agr EXCEPT ![a].state = "ACTIVE", ![a].charged = TRUE]
  /\ UNCHANGED <<row, paid, req, hook, credited>>

(* The member declines, or does not answer in time.                        *)
Decline(a) ==
  /\ agr[a].state = "PENDING"
  /\ Announce(a, "expired")
  /\ agr' = [agr EXCEPT ![a].state = "EXPIRED"]
  /\ UNCHANGED <<row, paid, req, hook, credited>>

(* A scheduled charge falls due and is captured or fails.                  *)
ChargeDue(a) ==
  /\ agr[a].state = "ACTIVE" /\ agr[a].scheduled
  /\ \E name \in {"captured", "failed"} : Announce(a, name)
  /\ agr' = [agr EXCEPT ![a].scheduled = FALSE]
  /\ UNCHANGED <<row, paid, req, hook, credited>>

Stopped(a) == agr' = [agr EXCEPT ![a].state = "STOPPED", ![a].scheduled = FALSE]

(* The member stops the agreement in the MobilePay app.                    *)
StopInApp(a) ==
  /\ agr[a].state = "ACTIVE"
  /\ Announce(a, "stopped")
  /\ Stopped(a)
  /\ UNCHANGED <<row, paid, req, hook, credited>>

(* StopAgreementAsync: stops what is not stopped yet.                      *)
StopAgreement(a) ==
  IF Live(a) THEN Announce(a, "stopped") /\ Stopped(a)
             ELSE UNCHANGED <<agr, now, deliveries>>

(* An administrator takes the mark off for a new year.                     *)
MembershipEnds ==
  /\ paid
  /\ paid' = FALSE
  /\ UNCHANGED <<row, agr, now, deliveries, req, hook, credited>>

-----------------------------------------------------------------------------
(* Requests of the member                                                   *)

Outside == <<agr, now, deliveries, hook, credited>>

(* Checkout of the recurring offer.  An open subscription that has an      *)
(* agreement is reconciled first.  EF tracks the row it has loaded, if any.*)
Subscribe(r) ==
  /\ At(r, "idle")
  /\ ~paid
  /\ IF Open(row) /\ ~IsPendingAgreement(row)
       THEN Proceed(r, Checkout("read", row))
       ELSE Proceed(r, Checkout("check", IF Open(row) THEN row ELSE NoRow))
  /\ UNCHANGED <<row, paid, Outside>>

(* Where a pending subscription is abandoned: one that has no agreement    *)
(* yet is marked at once.                                                  *)
BeginAbandon(r) ==
  Proceed(r, IF IsPendingAgreement(row)
               THEN [Other("terminate", NoRow) EXCEPT !.status = "EXPIRED"]
               ELSE Other("abandon", row))

(* Checkout of a one-time membership abandons what is pending.             *)
PayOnce(r) ==
  /\ At(r, "idle")
  /\ ~paid
  /\ row.status = "PENDING"
  /\ BeginAbandon(r)
  /\ UNCHANGED <<row, paid, Outside>>

(* The subscription page, and the page MobilePay returns to.               *)
View(r) ==
  /\ At(r, "idle")
  /\ Open(row) /\ HasAgreement(row)
  /\ Proceed(r, Other("read", row))
  /\ UNCHANGED <<row, paid, Outside>>

(* The member cancels the subscription on the page.                        *)
Cancel(r) ==
  /\ At(r, "idle")
  /\ IF row.status = "PENDING"
       THEN BeginAbandon(r)
       ELSE HasAgreement(row) /\ Proceed(r, Other("stop", row))
  /\ UNCHANGED <<row, paid, Outside>>

(* Mutant: an agreement that waits for the member counts as active.        *)
LocalStatus_PendingIsActive(state) ==
  CASE state \in {"ACTIVE", "PENDING"} -> "ACTIVE"
    [] state = "STOPPED" -> "CANCELED"
    [] state = "EXPIRED" -> "EXPIRED"
    [] OTHER -> None

LocalStatus(state) ==
  CASE state = "ACTIVE"  -> "ACTIVE"
    [] state = "STOPPED" -> "CANCELED"
    [] state = "EXPIRED" -> "EXPIRED"
    [] OTHER             -> None

(* ReconcileAsync, first part: ask MobilePay, which may not answer.        *)
ReadAgreement(r) ==
  /\ At(r, "read")
  /\ \E answer \in {agr[req[r].seen.id.of].state, "UNAVAILABLE"} :
       LET status == LocalStatus(answer)
           next == IF req[r].seen.status = "PENDING" THEN "abandon" ELSE "check"
       IN  CASE status # None ->
                  req' = [req EXCEPT ![r].pc = "commit", ![r].status = status]
             [] status = None /\ req[r].checkout -> req' = [req EXCEPT ![r].pc = next]
             [] OTHER -> Finish(r)
  /\ UNCHANGED <<row, paid, Outside>>

(* What follows a write of the row: a checkout goes on.                    *)
GoOn(r) ==
  Proceed(r, IF req[r].checkout THEN Checkout("check", row') ELSE Idle)

(* Mutant: a late answer leaves the row closed, but marks the member.      *)
CommitReconcile_PaysLate(r) ==
  LET active == req[r].status = "ACTIVE"
      late == active /\ Terminal(row)
  IN  /\ At(r, "commit")
      /\ row' = IF late THEN row ELSE [row EXCEPT !.status = req[r].status]
      /\ paid' = (paid \/ active)
      /\ credited' = IF active /\ ~late THEN credited \cup {req[r].seen.id.of} ELSE credited
      /\ GoOn(r)
      /\ UNCHANGED <<agr, now, deliveries, hook>>

(* ReconcileAsync, second part, under the row lock: store the status of    *)
(* the agreement.  It does not look which agreement the row has now.       *)
CommitReconcile(r) ==
  LET active == req[r].status = "ACTIVE"
      late == active /\ Terminal(row)
  IN  /\ At(r, "commit")
      /\ row' = IF late THEN row ELSE [row EXCEPT !.status = req[r].status]
      /\ paid' = (paid \/ (active /\ ~late))
      /\ credited' = IF active /\ ~late THEN credited \cup {req[r].seen.id.of} ELSE credited
      /\ GoOn(r)
      /\ UNCHANGED <<agr, now, deliveries, hook>>

(* TryAbandonPendingAsync: stop the agreement unless it has ended, whether *)
(* or not the member has accepted it meanwhile ...                         *)
AbandonAgreement(r) ==
  LET a == req[r].seen.id.of
  IN  /\ At(r, "abandon")
      /\ StopAgreement(a)
      /\ Proceed(r, [req[r] EXCEPT !.pc = "terminate", !.seen = NoRow,
                        !.status = IF agr[a].state = "EXPIRED" THEN "EXPIRED" ELSE "CANCELED"])
      /\ UNCHANGED <<row, paid, hook, credited>>

(* ... or leave it if MobilePay does not answer; a checkout goes on ...     *)
AbandonFails(r) ==
  /\ At(r, "abandon")
  /\ Proceed(r, IF req[r].checkout THEN [req[r] EXCEPT !.pc = "check"] ELSE Idle)
  /\ UNCHANGED <<row, paid, Outside>>

(* ... and MarkTerminalAsync, under the row lock.                          *)
MarkTerminal(r) ==
  /\ At(r, "terminate")
  /\ row' = IF row.status = "PENDING"
              THEN [row EXCEPT !.status = req[r].status] ELSE row
  /\ GoOn(r)
  /\ UNCHANGED <<paid, Outside>>

(* Checkout, after the clean-up: refuse a second subscription, or resume   *)
(* the one whose agreement MobilePay has not answered for.  The reference  *)
(* comes from the key of the browser session, or of the last 15 minutes,   *)
(* so it may be the one of an earlier attempt.                             *)
Check(r) ==
  LET seen == req[r].seen
      resume == seen # NoRow /\ IsPendingAgreement(seen)
      new == IF seen = NoRow THEN row ELSE seen
  IN  /\ At(r, "check")
      /\ IF Open(row) /\ ~resume THEN Finish(r)
         ELSE \E a \in Agreements :
                /\ resume => a = seen.id.of
                /\ req' = [req EXCEPT ![r].pc = "reserve", ![r].of = a, ![r].seen = new]
      /\ UNCHANGED <<row, paid, Outside>>

(* Checkout: reserve the row.  A second insert violates the unique index.  *)
Reserve(r) ==
  LET seen == req[r].seen
      new == Reserved(req[r].of)
  IN  /\ At(r, "reserve")
      /\ IF seen = NoRow /\ row # NoRow
           THEN Finish(r) /\ UNCHANGED row
           ELSE /\ row' = IF seen = NoRow THEN new ELSE Written(seen, new)
                /\ Proceed(r, [req[r] EXCEPT !.pc = "create", !.seen = NoRow])
      /\ UNCHANGED <<paid, Outside>>

(* CreateRecurringAgreementAsync: idempotent for the reference.            *)
Create(r) ==
  LET a == req[r].of
  IN  /\ At(r, "create")
      /\ agr' = [agr EXCEPT ![a].state = IF @ = "NONE" THEN "PENDING" ELSE @]
      /\ req' = [req EXCEPT ![r].pc = "save"]
      /\ UNCHANGED <<row, paid, now, deliveries, hook, credited>>

(* Checkout: store the id of the agreement, the one column that differs.   *)
SaveId(r) ==
  /\ At(r, "save")
  /\ row' = [row EXCEPT !.id = Agreement(req[r].of)]
  /\ Finish(r)
  /\ UNCHANGED <<paid, Outside>>

(* Delete: stop the agreement ...                                          *)
CancelAgreement(r) ==
  /\ At(r, "stop")
  /\ StopAgreement(req[r].seen.id.of)
  /\ req' = [req EXCEPT ![r].pc = "cancel"]
  /\ UNCHANGED <<row, paid, hook, credited>>

(* ... and store that.                                                     *)
SaveCancel(r) ==
  /\ At(r, "cancel")
  /\ row' = Written(req[r].seen, [req[r].seen EXCEPT !.status = "CANCELED"])
  /\ Finish(r)
  /\ UNCHANGED <<paid, Outside>>

(* The request fails, MobilePay does not answer, or the process stops.     *)
Abort(r) ==
  /\ ~At(r, "idle")
  /\ Finish(r)
  /\ UNCHANGED <<row, paid, Outside>>

-----------------------------------------------------------------------------
(* Recurring webhooks                                                       *)

(* Mutant: an event for an agreement no row has yet is acknowledged.       *)
FindSubscription_DropsUnknown(h, e) ==
  /\ hook[h] = None
  /\ e \in deliveries
  /\ IF row.id = Agreement(e.agreement)
       THEN hook' = [hook EXCEPT ![h] = e] /\ UNCHANGED deliveries
       ELSE deliveries' = deliveries \ {e} /\ UNCHANGED hook
  /\ UNCHANGED <<row, paid, agr, now, req, credited>>

(* The part before the lock: find the row by the id of the agreement.      *)
FindSubscription(h, e) ==
  /\ hook[h] = None
  /\ e \in deliveries
  /\ row.id = Agreement(e.agreement)
  /\ hook' = [hook EXCEPT ![h] = e]
  /\ UNCHANGED <<row, paid, agr, now, deliveries, req, credited>>

(* Mutant: only the last event is recognised, not its time.                *)
Processed_ByIdOnly(e) == row.last = e

(* A duplicate of the last event, or an event older than it.               *)
Processed(e) == row.last # None /\ (row.last = e \/ e.at < row.last.at)

Acknowledge(h, keep) ==
  /\ hook' = [hook EXCEPT ![h] = None]
  /\ deliveries' = IF keep THEN deliveries ELSE deliveries \ {hook[h]}

(* A payment: the subscription is active, the member has paid, and the     *)
(* next charge is created at MobilePay, which refuses it for an agreement  *)
(* that is no longer active; the handler then fails as a whole.            *)
Credit(e) ==
  /\ agr[e.agreement].state = "ACTIVE"
  /\ row' = [row EXCEPT !.status = "ACTIVE", !.last = e]
  /\ paid' = TRUE
  /\ credited' = credited \cup {e.agreement}
  /\ agr' = [agr EXCEPT ![e.agreement].scheduled = TRUE]

Store(e, status) ==
  /\ row' = [row EXCEPT !.status = status, !.last = e]
  /\ UNCHANGED <<paid, credited, agr>>

Ignore == UNCHANGED <<row, paid, credited, agr>>

(* Mutant: the activation of a closed subscription is stored.              *)
Activated_Resurrects(e) == Credit(e)

Activated(e) ==
  IF Terminal(row) THEN Store(e, row.status) ELSE Credit(e)

(* Mutant: stopping does not change a subscription that failed to pay.     *)
Apply_FailedStaysOpen(e) ==
  CASE Processed(e) -> Ignore
    [] ~Processed(e) /\ e.name = "activated" -> Activated(e)
    [] ~Processed(e) /\ e.name = "captured"  -> Credit(e)
    [] ~Processed(e) /\ e.name = "failed"    -> Store(e, "PAST_DUE")
    [] ~Processed(e) /\ e.name = "stopped"   ->
         Store(e, IF row.status = "PAST_DUE" THEN "PAST_DUE" ELSE "CANCELED")
    [] ~Processed(e) /\ e.name = "expired"   -> Store(e, "EXPIRED")

Apply(e) ==
  CASE Processed(e) -> Ignore
    [] ~Processed(e) /\ e.name = "activated" -> Activated(e)
    [] ~Processed(e) /\ e.name = "captured"  -> Credit(e)
    [] ~Processed(e) /\ e.name = "failed"    -> Store(e, "PAST_DUE")
    [] ~Processed(e) /\ e.name = "stopped"   -> Store(e, "CANCELED")
    [] ~Processed(e) /\ e.name = "expired"   -> Store(e, "EXPIRED")

(* The part under the lock.  The acknowledgement may be lost (keep).       *)
ApplyEvent(h, keep) ==
  /\ hook[h] # None
  /\ Apply(hook[h])
  /\ Acknowledge(h, keep)
  /\ UNCHANGED <<now, req>>

(* The handler fails or stops, perhaps after it has created the next       *)
(* charge; the transaction is rolled back and the delivery stays.          *)
GiveUp(h) ==
  /\ hook[h] # None
  /\ \/ UNCHANGED agr
     \/ /\ hook[h].name \in {"activated", "captured"}
        /\ agr[hook[h].agreement].state = "ACTIVE"
        /\ agr' = [agr EXCEPT ![hook[h].agreement].scheduled = TRUE]
  /\ hook' = [hook EXCEPT ![h] = None]
  /\ UNCHANGED <<row, paid, now, deliveries, req, credited>>

MobilePay(a) == Accept(a) \/ Decline(a) \/ ChargeDue(a) \/ StopInApp(a)

Step(r) ==
  \/ Subscribe(r) \/ PayOnce(r) \/ View(r) \/ Cancel(r)
  \/ ReadAgreement(r) \/ CommitReconcile(r)
  \/ AbandonAgreement(r) \/ AbandonFails(r) \/ MarkTerminal(r)
  \/ Check(r) \/ Reserve(r) \/ Create(r) \/ SaveId(r)
  \/ CancelAgreement(r) \/ SaveCancel(r)
  \/ Abort(r)

Next ==
  \/ \E a \in Agreements : MobilePay(a)
  \/ \E r \in Requests : Step(r)
  \/ \E h \in Handlers, e \in deliveries : FindSubscription(h, e)
  \/ \E h \in Handlers, keep \in BOOLEAN : ApplyEvent(h, keep)
  \/ \E h \in Handlers : GiveUp(h)
  \/ MembershipEnds

Spec == Init /\ [][Next]_vars

(* MobilePay delivers the end and the beginning of an agreement until they *)
(* are acknowledged; a handler comes to an end, and one that could succeed *)
(* again and again does not fail each time.                                *)
Beginning == {"activated"}
Ending == {"stopped", "expired"}
Finds(a, names) ==
  \E h \in Handlers, name \in names, t \in 0 .. MaxTime :
    FindSubscription(h, [agreement |-> a, name |-> name, at |-> t])
Applies(a, names) ==
  \E h \in Handlers :
    hook[h] # None /\ hook[h].agreement = a /\ hook[h].name \in names /\ ApplyEvent(h, FALSE)
Redelivery ==
  /\ \A h \in Handlers : WF_vars(GiveUp(h))
  /\ \A a \in Agreements, names \in {Beginning, Ending} :
       SF_vars(Finds(a, names)) /\ SF_vars(Applies(a, names))
FairSpec == Spec /\ Redelivery

-----------------------------------------------------------------------------
TypeOK ==
  /\ row \in Row \cup {NoRow}
  /\ paid \in BOOLEAN
  /\ agr \in [Agreements -> AgreementRecord]
  /\ now \in 0 .. MaxTime
  /\ deliveries \subseteq Event
  /\ req \in [Requests -> Request \cup {Idle}]
  /\ hook \in [Handlers -> Event \cup {None}]
  /\ credited \subseteq Agreements

(* A member is marked as paid, by a webhook or by a page that asks, only   *)
(* for an agreement whose charge was captured: neither a late, repeated or *)
(* reordered event nor an old answer credits an agreement that was never   *)
(* accepted.                                                               *)
CreditedWasCharged == \A a \in credited : agr[a].charged

(* The member becomes paid only by the credit of an agreement whose charge *)
(* was captured, by a webhook or by a page that asks; an activation that   *)
(* comes too late may be dropped (Membership.tla).                         *)
Charged == {a \in Agreements : agr[a].charged}
Due == {e.agreement : e \in {d \in deliveries : d.name \in {"activated", "captured"}}}
Promised == INSTANCE Membership WITH
  Charges <- Agreements, Forgetful <- TRUE, taken <- Charged, due <- Due
PaidForWithMobilePay == Promised!Spec

(* A closed subscription is not opened again by an activation or by the    *)
(* answer to an earlier question, however late they come; only a charge    *)
(* event or the reservation of a new checkout opens it.                    *)
AppliesCharge ==
  \E h \in Handlers, keep \in BOOLEAN :
    hook[h] # None /\ hook[h].name \in {"captured", "failed"} /\ ApplyEvent(h, keep)
Reserves == \E r \in Requests : Reserve(r)
ClosedStaysClosed ==
  [][Terminal(row) /\ Open(row') => AppliesCharge \/ Reserves]_vars

(* However the deliveries are ordered, repeated or lost, the status of the *)
(* row never goes back to that of an event older than the one it shows,    *)
(* unless a checkout starts over.                                          *)
EventsInOrder ==
  [][row.last # None /\ row'.last # row.last
       => Reserves \/ row'.last.at >= row.last.at]_vars

(* Once MobilePay has announced the end of the agreement of the row, the   *)
(* row is closed in the end, even if the request that stopped it crashed   *)
(* before it stored that and the announcement came before the id of the    *)
(* agreement was stored; unless it was applied before and a checkout has   *)
(* used the ended agreement again since, with the key of the old attempt.  *)
EndAnnounced(a) ==
  /\ row.id = Agreement(a)
  /\ \E e \in deliveries :
       e.agreement = a /\ e.name \in Ending /\ row.last # e
EndedIsClosed ==
  \A a \in Agreements : EndAnnounced(a) ~> Terminal(row) \/ row.id # Agreement(a)

(* A member who accepted the agreement is credited in the end, even if the *)
(* webhook comes before its id is stored, unless a later charge failed.    *)
Accepted(a) == row.id = Agreement(a) /\ agr[a].state = "ACTIVE"
AcceptedIsCredited ==
  \A a \in Agreements :
    Accepted(a) ~> a \in credited \/ ~Accepted(a) \/ Terminal(row) \/ row.status = "PAST_DUE"

-----------------------------------------------------------------------------
(* "Reserve the user's unique subscription row before calling MobilePay.   *)
(* This prevents concurrent requests from creating multiple agreements."   *)
OneLiveAgreement == \A a, b \in Agreements : Live(a) /\ Live(b) => a = b

(* "Failed payments must move the subscription into a non-paid or grace-   *)
(* period state": only a captured charge makes an overdue one active.      *)
OverdueUntilCaptured ==
  [][row.status = "PAST_DUE" /\ row'.status = "ACTIVE" => AppliesCharge]_vars

(* "... we reload and lock the current row so a stale request cannot       *)
(* overwrite a webhook or cancellation that won the race": an answer about *)
(* one agreement does not change the row of another.                       *)
StaleAnswerIsDropped ==
  [][\A r \in Requests :
       CommitReconcile(r) /\ row' # row => row.id = req[r].seen.id]_vars

=============================================================================
