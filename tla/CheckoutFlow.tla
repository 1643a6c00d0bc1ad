------------------------------ MODULE CheckoutFlow ------------------------------
(***************************************************************************)
(* Buying a membership or paying for an event from one browser tab.  Each  *)
(* checkout sends an idempotency key kept for its offer in sessionStorage; *)
(* offer and key name the payment at the provider, so a retry with the same*)
(* key finds the same payment.  The provider sends the user back to a page *)
(* that asks for the outcome a few times and drops the keys of what ended. *)
(***************************************************************************)
EXTENDS Naturals, FiniteSets

CONSTANTS
  Offers,       \* the payment offers the user meets
  StripeOffers, \* those paid by card; the others by MobilePay
  EventOffers,  \* those of an event; the others buy the membership
  MaxKeys,      \* bound: keys created
  MaxPolls      \* how often the status page asks (20 in the code)

ASSUME CheckoutAssumption ==
  /\ StripeOffers \subseteq Offers /\ EventOffers \subseteq Offers
  /\ MaxKeys \in Nat /\ MaxPolls \in Nat \ {0}

VARIABLES
  keys,      \* sessionStorage: the key of each offer, 0 when there is none
  created,   \* number of keys created
  payments,  \* the provider's payments: [Payments -> state], "none" before it exists
  credited,  \* server: offers whose purchase is registered
  page,      \* the page in the tab
  stray,     \* checkouts of pages that were left; the server still gets them
  listening  \* those of them whose answer still redirects the tab

checkoutVars == <<keys, created, payments, credited, page, stray, listening>>

Attempts == [offer : Offers, key : 1 .. MaxKeys]
Attempt(o, k) == [offer |-> o, key |-> k]

(* A membership is one purchase, whichever offer it is bought by.          *)
SamePurchase(o) == IF o \in EventOffers THEN {o} ELSE Offers \ EventOffers

At(what, attempt) == [what |-> what, attempt |-> attempt, polls |-> 0, shown |-> "loading"]
PayPage(o) == At("pay", Attempt(o, 0))
Pages == [what : {"pay", "starting", "provider", "status"},
          attempt : [offer : Offers, key : 0 .. MaxKeys], polls : 0 .. MaxPolls,
          shown : {"loading", "ready", "closed", "error", "pending", "success", "cancelled"}]

CheckoutInit ==
  /\ keys = [o \in Offers |-> 0] /\ created = 0
  /\ payments = [a \in Attempts |-> "none"]
  /\ credited = {}
  /\ page \in {PayPage(o) : o \in Offers}
  /\ stray = {} /\ listening = {}

-----------------------------------------------------------------------------
(* PaymentPage loads what is for sale and whether a membership is paid.    *)
(* Each of its requests may fail: then nothing can be bought ("closed"), or*)
(* the status known when the application was loaded is taken.              *)
LoadMembership ==
  /\ page.what = "pay" /\ page.shown = "loading" /\ page.attempt.offer \notin EventOffers
  /\ \E shown \in {"ready", "closed"} : page' = [page EXCEPT !.shown = shown]
  /\ UNCHANGED <<keys, created, payments, credited, stray, listening>>

(* EventPaymentPage reads the offer, then the user's own registration:     *)
(* only a place that is not paid for can be paid for.                      *)
LoadEvent ==
  /\ page.what = "pay" /\ page.shown = "loading" /\ page.attempt.offer \in EventOffers
  /\ \E shown \in {"closed"} \cup (IF page.attempt.offer \in credited THEN {} ELSE {"ready"}) :
       page' = [page EXCEPT !.shown = shown]
  /\ UNCHANGED <<keys, created, payments, credited, stray, listening>>

(* getOrCreateCheckoutKey: a usable key of the offer is used again.        *)
GetOrCreateCheckoutKey(o) ==
  \/ keys[o] # 0 /\ UNCHANGED <<keys, created>>
  \/ /\ keys[o] = 0 /\ created < MaxKeys
     /\ created' = created + 1
     /\ keys' = [keys EXCEPT ![o] = created + 1]

(* startStripeCheckout, startMobilePayCheckout, checkout: one at a time.   *)
Checkout(o) ==
  /\ page.what = "pay" /\ page.shown \in {"ready", "error"}
  /\ o \in SamePurchase(page.attempt.offer)
  /\ GetOrCreateCheckoutKey(o)
  /\ page' = At("starting", Attempt(o, keys'[o]))
  /\ UNCHANGED <<payments, credited, stray, listening>>

(* The server asks the provider for the payment of this offer and key.     *)
CreatePayment(a) ==
  /\ a.offer \notin credited
  /\ payments' = [payments EXCEPT ![a] = IF @ = "none" THEN "open" ELSE @]

(* The answer leads the tab to the provider, and the document is gone.     *)
ServerStarts ==
  /\ page.what = "starting" /\ CreatePayment(page.attempt)
  /\ page' = [page EXCEPT !.what = "provider"]
  /\ listening' = {}
  /\ UNCHANGED <<keys, created, credited, stray>>

(* The checkout fails, before or after the provider made the payment.  The *)
(* membership page shows the error next to its buttons, the event's page   *)
(* shows the error alone.                                                  *)
StartFailed ==
  /\ page.what = "starting"
  /\ CreatePayment(page.attempt) \/ UNCHANGED payments
  /\ page' = [PayPage(page.attempt.offer) EXCEPT !.shown =
       IF page.attempt.offer \in EventOffers THEN "closed" ELSE "error"]
  /\ UNCHANGED <<keys, created, credited, stray, listening>>

(* The checkout of a page that was left: it fails, or nobody hears of it.  *)
ServerStartsStray(a) ==
  /\ CreatePayment(a) \/ UNCHANGED payments
  /\ stray' = stray \ {a} /\ listening' = listening \ {a}
  /\ UNCHANGED <<keys, created, credited, page>>

LeftBehind == IF page.what = "starting" THEN {page.attempt} ELSE {}

(* A page left by a link of the application cancels nothing: its answer    *)
(* redirects the tab, wherever the user is by then.                        *)
StrayRedirects(a) ==
  /\ a \in listening /\ CreatePayment(a)
  /\ page' = At("provider", a)
  /\ stray' = (stray \ {a}) \cup LeftBehind /\ listening' = {}
  /\ UNCHANGED <<keys, created, credited>>

(* The user leaves the page for a payment page: by a link, or by a reload  *)
(* or an address, after which no answer is heard.                          *)
OpenPay(o) ==
  /\ page' = PayPage(o)
  /\ stray' = stray \cup LeftBehind
  /\ listening' \in {listening \cup LeftBehind, {}}
  /\ UNCHANGED <<keys, created, payments, credited>>

-----------------------------------------------------------------------------
(* The provider (external): the user pays, or gives up; MobilePay and an   *)
(* expired payment are cancelled for good, a Stripe session stays open.    *)
Pay ==
  /\ page.what = "provider" /\ payments[page.attempt] = "open"
  /\ payments' = [payments EXCEPT ![page.attempt] = "paid"]
  /\ UNCHANGED <<keys, created, credited, page, stray, listening>>

Cancel(a) ==
  /\ payments[a] = "open" /\ a.offer \notin StripeOffers
  /\ payments' = [payments EXCEPT ![a] = "cancelled"]
  /\ UNCHANGED <<keys, created, credited, page, stray, listening>>

(* The webhook registers the purchase; EventPayment.tla and                *)
(* MobilePaySubscription.tla model it in full.                             *)
Credit(a) ==
  /\ payments[a] = "paid"
  /\ credited' = credited \cup SamePurchase(a.offer)
  /\ UNCHANGED <<keys, created, payments, page, stray, listening>>

(* A key is used for eight minutes.                                        *)
Expire(o) ==
  /\ keys[o] # 0
  /\ keys' = [keys EXCEPT ![o] = 0]
  /\ UNCHANGED <<created, payments, credited, page, stray, listening>>

ClearCheckoutKey(o) == keys' = [keys EXCEPT ![o] = 0]
ClearAllCheckoutKeys == keys' = [o \in Offers |-> 0]

-----------------------------------------------------------------------------
(* Stripe's way back: the success page of a finished session.  The page of *)
(* an event does not ask for the outcome.                                  *)
ReturnFromStripe ==
  /\ page.what = "provider" /\ page.attempt.offer \in StripeOffers
  /\ payments[page.attempt] = "paid"
  /\ page' = [At("status", page.attempt) EXCEPT !.shown =
       IF page.attempt.offer \in EventOffers THEN "success" ELSE "loading"]
  /\ UNCHANGED <<keys, created, payments, credited, stray, listening>>

(* Stripe's cancel link: /pay/cancel drops the keys, that of an event leads*)
(* back to the event's payment page.                                       *)
CancelAtStripe ==
  /\ page.what = "provider" /\ page.attempt.offer \in StripeOffers
  /\ payments[page.attempt] = "open"
  /\ IF page.attempt.offer \in EventOffers
       THEN page' = PayPage(page.attempt.offer) /\ UNCHANGED keys
       ELSE /\ page' = [At("status", page.attempt) EXCEPT !.shown = "cancelled"]
            /\ ClearAllCheckoutKeys
  /\ UNCHANGED <<created, payments, credited, stray, listening>>

(* MobilePay has one way back, whatever became of the payment.             *)
ReturnFromMobilePay ==
  /\ page.what = "provider" /\ page.attempt.offer \notin StripeOffers
  /\ page' = At("status", page.attempt)
  /\ UNCHANGED <<keys, created, payments, credited, stray, listening>>

(* A context of an event names the offer whose key is dropped; that of a   *)
(* membership names none, and all keys go.                                 *)
DropKeys(o) == IF o \in EventOffers THEN ClearCheckoutKey(o) ELSE ClearAllCheckoutKeys

Asking == page.what = "status" /\ page.shown \in {"loading", "pending"} /\ page.polls < MaxPolls

(* success-context: a pending purchase is asked for again.                 *)
SessionAnswered ==
  /\ Asking /\ page.attempt.offer \in StripeOffers
  /\ IF page.attempt.offer \in credited
       THEN page' = [page EXCEPT !.shown = "success"] /\ DropKeys(page.attempt.offer)
       ELSE page' = [page EXCEPT !.shown = "pending", !.polls = @ + 1] /\ UNCHANGED keys
  /\ UNCHANGED <<created, payments, credited, stray, listening>>

(* A failed answer ends the questions; the first one leaves the success    *)
(* page of a purchase nothing is known about.                              *)
SessionFailed ==
  /\ Asking /\ page.attempt.offer \in StripeOffers
  /\ page' = [page EXCEPT !.shown = IF @ = "loading" THEN "success" ELSE @, !.polls = MaxPolls]
  /\ UNCHANGED <<keys, created, payments, credited, stray, listening>>

(* Mutant: what is not known after the last question is called a success.  *)
ReferenceAnswered_Optimist ==
  /\ Asking /\ page.shown = "loading" /\ page.attempt.offer \notin StripeOffers
  /\ IF page.attempt.offer \in credited \/ payments[page.attempt] = "cancelled"
       THEN /\ page' = [page EXCEPT !.shown =
                 IF page.attempt.offer \in credited THEN "success" ELSE "cancelled"]
            /\ DropKeys(page.attempt.offer)
       ELSE /\ page' = [page EXCEPT !.polls = @ + 1,
                                    !.shown = IF page.polls + 1 = MaxPolls THEN "success" ELSE @]
            /\ UNCHANGED keys
  /\ UNCHANGED <<created, payments, credited, stray, listening>>

(* Mutant: the key of a payment that was cancelled is kept.                *)
ReferenceAnswered_KeepsKey ==
  /\ Asking /\ page.shown = "loading" /\ page.attempt.offer \notin StripeOffers
  /\ IF page.attempt.offer \in credited \/ payments[page.attempt] = "cancelled"
       THEN /\ page' = [page EXCEPT !.shown =
                 IF page.attempt.offer \in credited THEN "success" ELSE "cancelled"]
            /\ IF page.attempt.offer \in credited THEN DropKeys(page.attempt.offer)
               ELSE UNCHANGED keys
       ELSE /\ page' = [page EXCEPT !.polls = @ + 1,
                                    !.shown = IF page.polls + 1 = MaxPolls THEN "pending" ELSE @]
            /\ UNCHANGED keys
  /\ UNCHANGED <<created, payments, credited, stray, listening>>

(* mobilepay-context: only an outcome ends the questions before the last.  *)
ReferenceAnswered ==
  /\ Asking /\ page.shown = "loading" /\ page.attempt.offer \notin StripeOffers
  /\ IF page.attempt.offer \in credited \/ payments[page.attempt] = "cancelled"
       THEN /\ page' = [page EXCEPT !.shown =
                 IF page.attempt.offer \in credited THEN "success" ELSE "cancelled"]
            /\ DropKeys(page.attempt.offer)
       ELSE /\ page' = [page EXCEPT !.polls = @ + 1,
                                    !.shown = IF page.polls + 1 = MaxPolls THEN "pending" ELSE @]
            /\ UNCHANGED keys
  /\ UNCHANGED <<created, payments, credited, stray, listening>>

(* Mutant: a failed answer ends the questions and shows nothing.           *)
ReferenceFailed_Silent ==
  /\ Asking /\ page.shown = "loading" /\ page.attempt.offer \notin StripeOffers
  /\ page' = [page EXCEPT !.polls = MaxPolls]
  /\ UNCHANGED <<keys, created, payments, credited, stray, listening>>

(* A failed answer ends the questions; the cards below say what it looks   *)
(* like.                                                                   *)
ReferenceFailed ==
  /\ Asking /\ page.shown = "loading" /\ page.attempt.offer \notin StripeOffers
  /\ page' = [page EXCEPT !.shown = "error"]
  /\ UNCHANGED <<keys, created, payments, credited, stray, listening>>

Ask == SessionAnswered \/ SessionFailed \/ ReferenceAnswered \/ ReferenceFailed

CheckoutNext ==
  \/ LoadMembership \/ LoadEvent
  \/ \E o \in Offers : Checkout(o) \/ OpenPay(o) \/ Expire(o)
  \/ ServerStarts \/ StartFailed
  \/ \E a \in stray : ServerStartsStray(a) \/ StrayRedirects(a)
  \/ Pay
  \/ \E a \in Attempts : Cancel(a) \/ Credit(a)
  \/ ReturnFromStripe \/ CancelAtStripe \/ ReturnFromMobilePay
  \/ Ask

CheckoutSpec == CheckoutInit /\ [][CheckoutNext]_checkoutVars

(* The questions of the status page are answered or fail.                  *)
CheckoutFairSpec == CheckoutSpec /\ WF_checkoutVars(Ask)

-----------------------------------------------------------------------------
CheckoutTypeOK ==
  /\ keys \in [Offers -> 0 .. created] /\ created \in 0 .. MaxKeys
  /\ payments \in [Attempts -> {"none", "open", "paid", "cancelled"}]
  /\ credited \subseteq Offers
  /\ page \in Pages
  /\ stray \subseteq Attempts /\ listening \subseteq stray

(* The first question about a membership failed: without a context no card *)
(* of the page matches, and its last line is "Koeb gennemfoert".  An event  *)
(* has a card for an error, and after a context there is one that says the *)
(* payment was not made.                                                   *)
FirstQuestionFailed ==
  /\ page.what = "status" /\ page.shown = "error"
  /\ page.attempt.offer \notin EventOffers /\ page.polls = 0

AnnouncesSuccess == (page.what = "status" /\ page.shown = "success") \/ FirstQuestionFailed
IsPaid == page.attempt.offer \in credited \/ payments[page.attempt] = "paid"

(* Coming back to the success page does not make a purchase paid           *)
(* (payment-provider-integration.md): what the status page announces after *)
(* an answer, after the last question, for an event and for a card, whose  *)
(* first question may fail too, was paid.  The exception is a failed first *)
(* question about a MobilePay membership: the code announces that purchase *)
(* without knowing of any payment.                                         *)
ToldSuccessIsPaid ==
  AnnouncesSuccess => IsPaid \/ (FirstQuestionFailed /\ page.attempt.offer \notin StripeOffers)

(* After an answer said that a payment was cancelled the next checkout gets*)
(* a fresh key, so the user is never sent to a dead payment: the comment in*)
(* PaymentStatusPage, and the contexts that name no offer.                 *)
CancelledGetsAFreshKey ==
  (page.what = "status" /\ page.shown = "cancelled")
    => keys[page.attempt.offer] # page.attempt.key

(* A user who waits for the outcome is told something in the end: the      *)
(* questions are bounded and each answer or failure leads to a message.    *)
StatusPageSettles ==
  (page.what = "status" /\ page.shown = "loading")
    ~> ~(page.what = "status" /\ page.shown = "loading")

=============================================================================
