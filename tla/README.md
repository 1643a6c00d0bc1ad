# A TLA+ model of GamMaSite

GamMaSite is the site of a student association: an ASP.NET Core back end
(`src/src/backend/GamMaSite`) over MySQL, a React front end (`src/src/frontend`)
and two payment providers, Stripe and MobilePay (Vipps), that the back end calls
and that call back through webhooks. This directory models two things: the back
end where several actors change the same rows (registrations for an event, the
payments for them, memberships with MobilePay and with Stripe), and the pages of
the front end that keep state while requests are under way. Paths below are relative to
`src/src/backend/GamMaSite` unless they start with `src/`; `FP` is
`src/src/frontend/pages/AdminFinancePage.jsx`.

## 1. Inventory

| Component | State it keeps | Operations | Interacts with |
|---|---|---|---|
| Event registrations (`Services/EventRegistrationService.cs`, `EventRegistrationRules.cs`) | `EventRegistrations`, one row per user and event | register, add, update, withdraw, remove, promote the waiting list | locks the `ContentItems` row of the event; reads capacity and dates; `Registered` is written by the payment webhooks |
| Content (`Services/ContentService.cs`, `ContentMediaService.cs`) | `ContentItems`, links, files | create, update, delete, upload | calls promotion after an update; archives Stripe prices on deletion |
| Event payments (`ApiPaymentOffersController`, `VippsWebhookController`, `StripeWebhookController`) | the paid mark of a registration; the payments live at the provider | checkout, return page, webhooks | registrations, content, the providers |
| MobilePay subscriptions (`ApiPaymentOffersController`, `ApiPaymentSubscriptionsController`, `MobilePaySubscriptionReconciliationService`, `VippsWebhookController`) | `PaymentSubscriptions`, one row per member; agreements at MobilePay | subscribe, view, cancel, abandon, reconcile, recurring webhooks | members (`Status`), offers, MobilePay |
| Stripe subscriptions (`StripeWebhookController`, `StripeService`) | the same `PaymentSubscriptions` row | checkout, subscription and invoice webhooks | members, offers, Stripe |
| Payment offers (`ApiPaymentOffersController`, `ApiAdminPaymentSubscriptionsController`) | `PaymentOffers`; prices at the provider | create, change price, deactivate | every open agreement, with compensation |
| Finance (`FinanceImportService`, `FinanceMobilePayReferenceService`, `FinanceReportService`) | PostgreSQL finance tables | import statements, remember references, report | the MobilePay and Stripe webhooks |
| Members and roles (`ApiMembersController`, `ApiRolesController`, `AccessControlService`) | Identity users, roles, permissions | mass status update, role edits | the paid mark |
| Accounts (`ApiAccountController`, `Areas/Identity`) | Identity users | sign up, sign in, delete | the cascade to registrations and subscription |
| Messages and templates (`ApiMessagesController`, `EmailService`, `SmsSender`, `SystemEmailTemplateService`) | templates | mass mail, confirmations | called after the commit of the others |
| Calendar, library, repository links | none | read external data | - |
| Router and menus (`app/main.jsx`, `utils/access.js`, `routes/navigation.jsx`, `layouts/AdminLayout.jsx`) | the browser's history, the permissions of the user | open, follow a link, back and forward | every page has a permission of its own |
| Checkout pages (`pages/PaymentPage.jsx`, `services/api.js`) | session storage: one idempotency key per offer; the page | start, return, poll, cancel, retry | the payment end points, the providers' pages |
| Finance pages (`FP`) | rows, forms, lists of imports in the page | edit, rename, save, copy, delete, import, change the year, export | the finance API; other cashiers |
| Tables (`FP`, `pages/MembersPage.jsx`, `pages/AdminMembersPage.jsx`) | search, order, page size, page | search, sort, leaf | the rows change under them |
| Role editor (`pages/AdminRolesPage.jsx`, `ApiRolesController`) | selected members, ticked permissions | toggle, save, open another role | other administrators |
| Event pages (`pages/ContentDetailPage.jsx`, `pages/EventRegistrationsPage.jsx`) | the registration, the rows, a dialog | register, note, withdraw; add, edit, remove | the registration service |
| Command line tools (`src/src/services`) | none | register webhooks, test calls | the providers |

What is hard here: the web server handles requests and webhooks concurrently; only
the registration service and the second half of a webhook or a reconciliation hold a
row lock; everything else reads a row, awaits a provider and writes the row later.
Webhooks come late, more than once and in any order; a handler that fails answers 502
and is called again. In the browser, requests are not cancelled, buttons are not always
disabled, handlers go on with what they read before an `await`, and answers overtake each
other. Each component's correctness is stated with its module in
section 3. The list `hazards` in `PROJECT.json` names the lines.

## 2. Plan

Order: what members lose money or places by comes first.

| Module | State of the work |
|---|---|
| `EventRegistration` | modelled, checked, proved |
| `EventPayment`, which extends it by the providers and the webhooks | modelled, checked, its safety proved |
| `MobilePaySubscription` | modelled, checked, its safety proved |
| `StripeSubscription` | modelled, checked, its safety proved; next: its composition with `MobilePaySubscription` on one row |
| `Membership`, which both subscriptions implement | stated, checked, both implementations proved |
| `FileVerdict`, and `FinanceImportPage` that implements it twice | modelled, checked, the implementation proved |
| `CheckoutFlow` | modelled, checked, its safety proved |
| `EventPages`, which extends `EventRegistration` by the two pages that use it | modelled, checked, its safety proved |
| `FinanceRegister`, `PostingsTable`, `FinanceDetail` | modelled, checked, their safety proved |
| `RoleEditor`, `PagedTable`, `SiteRouter` | modelled, checked, their safety proved |
| `FinanceOverview` | modelled, checked, its safety proved |

Left, in this order: the two subscriptions on one row; the price
change of `UpdateForAdmin` with its compensation; the deletion of content with its Stripe
archive; overlapping imports and the references of MobilePay payments on the server; the
charge calendar (`GetNextChargeDate`, `CreateNextChargeId`) as functions; the editor of
content with its offer (`AdminContentPage.jsx`); messages.

## 3. Modules

### `EventRegistration`

One event. `reg[u]` is the row of user `u` (the unique index allows one), `event` the
type, capacity and position in time of the content item, `nextId` the
auto-increment counter. `Created` is set under the event lock, so it grows with the id
and the id stands for both. Every operation of `EventRegistrationService` runs in a
serializable transaction that locks the event first: one action each, the promotion at its end
included. `ContentService.UpdateAsync` takes no lock: `LoadEdit`, `CheckEdit`,
`SaveEdit` and `PromoteEdit` are steps, and `AbortEdit` is a failure or crash between
them. `SaveEdit` writes only what differs from the loaded row, as EF Core does.
`window` abstracts status and dates: registration is open until the deadline,
withdrawal until the end. An event starts empty. `DeleteUser` is the cascade of an account
deletion.

| Action | Code |
|---|---|
| `Register`, `Add`, `Update` | `RegisterAsync`, `AddAsync`, `UpdateAsync` |
| `Unregister`, `Delete` | `UnregisterAsync`, `DeleteAsync` |
| `LoadEdit` ... `PromoteEdit` | `ContentService.UpdateAsync` and the public `PromoteWaitlistedAsync` |
| `DeleteUser` | `ApiAccountController.DeleteAccount` and the cascade in `ApplicationDbContext` |

Properties: ids are unique (`IdsAreUnique`, proved only); no step of the service overbooks, even an
event that an edit has made too small (`NeverOverbooks`); a freed place is offered in
the same transaction (`FreedPlaceIsOffered`); the queue is served in order
(`PromotedInOrder`); others' rows are left alone (`OthersAreLeftAlone`). `CapacityIsNeverUndercut`
fails, see section 6.

### `EventPayment` (extends `EventRegistration`)

`pay[a]` is the payment of attempt `a` at its provider, `deliveries` the webhook
events not yet acknowledged (a set: an event may be delivered again as long as it is
there, in any order), `found[a]` the registration id the handler of a success has looked up
before it takes the row lock. MobilePay's reference carries the id of the registration,
Stripe's metadata the user: `FindRow` differs in that. `MarkRow` is the part under the
lock. `GiveUp` is a handler that throws or stops: the delivery stays. `keep` in the
handlers is an acknowledgement that gets lost. One handler per attempt is at work at a
time; handlers of different attempts interleave. `acked` is a history variable: attempts
whose success was acknowledged once.

The providers' own steps (`Approve`, `Abandon`, `Refund`, `Capture`) are external. We assume of
them only what the code relies on: an event follows the money, and capture is idempotent for a reference.

Properties: money that was taken is announced until a handler has acknowledged it, and
nothing else is (`NoPaymentIsForgotten`); an acknowledgement leaves the row paid
(`AcknowledgedMeansPaid`); a row becomes paid only for money of that user and, with
MobilePay, for that very row, and only while the user holds a place
(`PaidOnlyByProviderOrAdmin`); liveness `TakenIsCredited`, `AuthorizedIsCaptured`.

### `MobilePaySubscription`

One member, one recurring offer, several payment references. `row` is the member's
`PaymentSubscriptions` row with its status, its `ProviderSubscriptionId` (`pending:` and
the reference, or the id of an agreement) and the last processed webhook; `agr[a]` is the
agreement MobilePay keeps for reference `a`; `req[r]` a request of the member that has
got to step `pc`, with the row as EF tracks it (`seen`); `hook[h]` the event a handler
has looked the row up for.

| Request | Steps |
|---|---|
| checkout of the recurring offer | `Subscribe`, [`ReadAgreement`, `CommitReconcile` or `AbandonAgreement`, `MarkTerminal`], `Check`, `Reserve`, `Create`, `SaveId` |
| checkout of a one-time membership | `PayOnce`, then abandon as above |
| subscription page, return page | `View`, `ReadAgreement`, `CommitReconcile` |
| cancel | `Cancel`, then `CancelAgreement`, `SaveCancel`, or abandon |
| any | `Abort`: an exception or crash |

`Written` is EF's write of the columns that differ from the tracked row. `Create` uses the
reference as idempotency key, and we assume that MobilePay replays the agreement for a key it has seen.
`Check` may choose any reference, one used before included, because the key comes from
the browser session or a 15-minute bucket. A handler's first half is `FindSubscription`, its second half
`ApplyEvent`; `Credit` needs an active agreement because MobilePay refuses a charge for another,
and the handler then fails as a whole. `GiveUp` may leave the charge behind.

Left out: period dates and the date of the next charge, amounts, administrators who set the paid mark by
hand (they would only add reasons to be paid; `MembershipEnds` takes the mark off), Stripe rows,
read and stop inside `TryAbandonPendingAsync` as two calls (one step here), and the two queries between which `Check` could be
interrupted (one step here). `Announce` is bounded by `MaxTime`, so MobilePay stops doing things when time is used up,
and a stop of an agreement waits with it.

Properties: `CreditedWasCharged`, `ClosedStaysClosed`, `EventsInOrder`, `PaidForWithMobilePay` (see
`Membership`); liveness `EndedIsClosed`, `AcceptedIsCredited`. The last exempts a subscription that is
overdue: a failed charge processed first makes the older activation out of order, and the
code drops it.

### `StripeSubscription`

One member. `stripe[s]` is a checkout session and, once it is paid, the subscription of
the same name; `row` the member's `PaymentSubscriptions` row; `hook[h]` what a webhook
handler has learnt before it locks the row: the status the event carries
(`customer.subscription.*`) or the status Stripe answers when it is asked (an invoice or a
completed session). `cancelling` is a `Delete` request between Stripe's answer and the
save of its tracked row.

| Action | Code |
|---|---|
| `Checkout` | `CheckoutStripeMembershipAsync`; nothing is stored, so two sessions may be open |
| `Cancel`, `SaveCancel`, `AbortCancel` | the Stripe part of `ApiPaymentSubscriptionsController.Delete` |
| `Learn`, `ApplyEvent`, `GiveUp` | `StripeWebhookController`: before the lock, under it, and a failure |
| `Complete`, `Renew`, `EndOutside` | external: Stripe and the member |

`Processed` is the order check with its exemption for confirmed payments, `Stored` is
`ApplySubscriptionState`; the second try after a duplicate insert repeats both
under the lock and is the same step. Several events of one second are told apart by
their kind. `incomplete` stands for every state before the first payment; `trialing`, `unpaid`
and `paused` are left out.

Properties: no payment is lost between Stripe and the member (`NoPaymentIsLost`, proved only);
`PaidForWithStripe` (below); liveness `PaymentIsCredited` (again and again everything
taken so far is credited) and `EndIsNoticed`; `EndedStaysEnded` fails, see section 6.

History variables: `taken` holds the payments Stripe has taken, `credited` those the member was
marked as paid for. A payment is told by its event, so a renewal is a payment of its own.

### `Membership`

What a paid membership promises, whichever provider takes the money. `taken`, `due` and
`credited` are the payments taken, still announced and credited; the member becomes `paid`
only by `Credit` of a payment that was taken, and what is due stays so until it is credited. `Forgetful`
weakens the last half: what is due may be dropped. Both subscriptions implement it, under these
refinement mappings:

| | Stripe (`PaidForWithStripe`) | MobilePay (`PaidForWithMobilePay`) |
|---|---|---|
| a payment | the event of a paid invoice or session | an agreement whose initial charge was captured |
| `taken` | `taken` | `Charged` |
| `due` | the payments in `deliveries` | `Due`: agreements with an activation or a capture in `deliveries` |
| `Forgetful` | `FALSE` | `TRUE` |

The two differ in `Forgetful` because the controllers do: the Stripe handler exempts a payment from
its order check (`StripeWebhookController.cs:642`), the MobilePay handler acknowledges an activation that comes after a
failed charge or the end of the agreement without crediting it (`VippsWebhookController.cs:383`). For MobilePay the
mapping says nothing of charges after the first, because `agr[a].charged` is the initial charge; a page that
asks may credit an agreement too (`CommitReconcile`), which is why `Credit` needs `taken` and not `due`.

### `FileVerdict` and `FinanceImportPage`

`FileVerdict` is what a file field promises: its verdict is that of the file chosen now.
`FinanceImportPage` is the page: a file is validated by a request of its own, requests
overtake each other, and the number in `validationRequestRef` tells whether an answer is
still wanted (`FileValidated`). `BankVerdict` and `MobilePayVerdict` are the refinement
mappings: the field's file and status are the abstract ones. The page also imports
(`Submit`, `ImportStripe`, with the server's `Store` and the answer as separate steps),
lists the imports (`loads`) and makes postings. Properties: `VerdictOfChosenFile`
(the refinement), `OnlyValidFilesAreImported`, liveness `ImportIsListed`: an import that was
answered is listed for good, or ends with an error. Exempt is a list that an older answer has
replaced (`overtaken`): `loadHistory` keeps no number of its requests.

### The tables and forms of the cashier

- `FinanceRegister`: budgets and posting groups, edited in place. A row is an object
  with the id it was loaded under; the page finds it again after an `await` by identity
  (`rev`). `TypedEditsSurvive`, `BudgetRowsAreStored`.
- `PostingsTable`: the postings, saved field by field, loaded again after every write;
  the year chosen; the export. One cashier is modelled, and a posting without a date, which the
  page refuses, is not. `TableShowsTheYear`.
- `FinanceDetail`: the three pages with one record in a form, under a URL that may
  change while they load or save. `WritesItsOwnRecord`.
- `FinanceOverview`: grouping and totals of the overview and the workbook. A formula names its
  columns by letters, the code that computes its value uses indexes that start at 0, and the rows of a sheet are
  shifted by the line of headings: the cells keep all three as the code writes them (`SumOf`, `Diff`), and
  `Computed` evaluates them as a spreadsheet program would. Amounts are whole øre, where the code has
  floating point numbers and takes less than half an øre for nothing. `FormulasMatchValues`, `PageAddsUpToTheBook`.
- `PagedTable`: search, order and pages of eleven tables, with rows that change. A row's
  place is the number of matches up to it in the order shown (`UpTo`). `EveryMatchIsFound`.

### `RoleEditor`, `SiteRouter`

`RoleEditor` puts the page of one role over `ApiRolesController`: a save is two requests,
members are stored person by person without a transaction, other administrators do
the same. A request of the page's effect is sent, read by the server (`ServerReadsRole`) and
delivered in three steps, and nothing cancels it: it may be read before a save and arrive before the save's
answer or after it. `OnlyToggledPeopleMove`; `PageShowsTheRole`, except after members that
arrived late (`late`). `SiteRouter` translates the three
tables that decide about a URL (the gate, the page, the menus) as lists of rules in the
order of the code, over paths of the site and over wrong ones, with the browser's history and
the redirects. A path is any sequence of `Segments`, which contain those the links of the site
are made of (`LinkedSegments`); the first rule that fits decides. `GateAndPageAgree` (whom the gate
lets in the page lets in; not the converse, since some pages have no gate and check alone),
`MenuItemsLeadSomewhere`.

### `CheckoutFlow`, `EventPages`

`CheckoutFlow` is one tab that buys: keys in session storage, the provider's page, the
status page that asks up to `MaxPolls` times. A checkout whose page was left by a link of the
site still redirects the tab (`listening`, `StrayRedirects`); after a reload nobody hears its answer.
`FirstQuestionFailed` is the state the code shows as a purchase although nothing is known (section 6);
`ToldSuccessIsPaid` counts it as an announcement and excepts it for MobilePay, where it may be false. `CancelledGetsAFreshKey`, liveness `StatusPageSettles`. A reload of the status page is not modelled.

`EventPages` extends `EventRegistration` by a member's page and an administrator's list, each with requests
that are carried out and answered in any order. The pages may be opened on any rows the service
can have stored (`Storable`, `OpenedOn`). A change is carried out in two steps, as the service does it:
`Commit` is the transaction, `Reread` the reading of the row for the answer, outside the lock, with
other changes in between. Reads and deletions are one step (`Serve`). A request fails because it is refused or lost,
and also after the commit: the row is gone when it is read again, or the answer does not arrive
(`MemberFailed`, `AdminFailed`). So a page shows the row as it was read for the last of its own requests,
which `left` keeps. `MineIsAsLeft` and `RowsAreAsLeft` except what the code gives no guarantee for
(`missed`): answers that overtook each other, a registration that could not be read, and rows
changed by a request whose answer never came. `ActsOnTheRowShown` has no exception.

## 4. Runs

The check of a module is a behaviour of a small instance of it. Parts that share no state
are put into one MC module in which a behaviour belongs to one part (`side`, `mounted`)
and the variables of the others stay at one initial state: the states add up instead
of multiplying, and nothing is lost because no part reads the others. The MC modules of the pages
extend the modules they check, so a run checks the very definitions the theorems are about.

| Run | Configuration | Question | Bounds |
|---|---|---|---|
| `places_and_payments` | `MCRegistrationsOrPayments.cfg` | is the waiting list right under every operation; who becomes paid, and is a payment ever forgotten? | 3 users, capacity 1, 2 or unlimited, 4 rows ever; or 1 user, 2 payments, 2 rows, 1 place |
| `edits` | `MCEditsOrPages.cfg` | do edits of the event break the service; do the pages show what was stored? | 2 users, 1 editor, capacity 0, 1 or unlimited, 3 rows; or 1 place and 3 requests of the two pages, the administrator offering participation only |
| `redelivery` | `MCRedelivery.cfg` | is everything credited, captured and closed in the end; does the Stripe side implement `Membership`? | 1 user, 1 payment, 2 rows; or 1 agreement, 1 request, 1 handler, 3 event times; or 1 Stripe session, 1 handler, 2 event times |
| `subscription` | `MCRequestsOrEvents.cfg` | do requests and webhooks of MobilePay interleave safely, and implement `Membership`? | 2 agreements, 2 requests, 1 handler, 1 event; or 1 agreement, 1 request, 2 handlers, 3 event times |
| `site_pages` | `MCSitePages.cfg` | do the router, the tables, the forms, the role editor and the workbook hold what they promise? | 2 or 3 records, 2 requests of a kind, 2 years, 13 sets of permissions; 2 roles, 1 person, 3 saves (at most 2), changes by others and pages opened; see `MCSitePages.cfg` |
| `answers` | `MCAnsweringPages.cfg` | do the import and the checkout come to the right end? | 2 files, 3 choices, 2 imports, 1 more load of the list; 4 offers, 2 keys, 2 polls |

Why the bounds are enough. Registration: three users give a holder, a first and a second in the queue; a
fourth row lets one of them come back with a new id. Capacity 0 is a value the code
accepts. Edits: `"keep"` leaves the dates, `"open"` reopens a closed event. Payments: two
attempts, or one attempt and two rows for one user, are what it takes to credit the
wrong row. Subscription: a second agreement and a second request are what it takes to
store one agreement's answer for another; three event times allow accept, a charge and an
end, which is the shortest sequence with a reordering that matters. Stripe: the first
payment may be announced in the second of the subscription or in the next, the end in the same second
as something else, and a renewal between the two. Pages: a second request is what it takes to overtake the
first, a second record to confuse the two; the code treats further ones alike. Of the pages of an event
the administrator offers one type (`OfferedTypes`): that a participant is sent to the waiting list by
hand is in the service's own runs, and the proofs are for any types. Roles: three moves let the page be left and opened
again and a save pass between the reading and the arrival of its members; each person is added and
removed alone, so one person is enough. The run saves once; saves that overlap
are left to the proof of `OthersKeepTheirRoles`, which holds for any number of them. Twenty
polls of the status page are two, because all but the last are treated alike.
In `redelivery` the requests of the member begin before the last event (`RequestsComeEarly`): a
request after it has only closed or credited rows to meet. Symmetry is
used only in runs without liveness properties. Runs whose ids, attempts or events run
out do not check deadlock: those are bounds of the model, not of the code.

The remaining six configurations are expected to be violated; each belongs to a
finding (section 6).

Every property of a passing run has a mutant in its module (`X_Something`, listed in
`PROJECT.json`): a plausible bug under which TLC finds the property violated.

### Fairness

Both providers deliver an event again until they get a success answer, so a delivery
that stays enabled is eventually handled (weak fairness on the handlers' first
step), a handler that has started comes to an end (weak fairness on `GiveUp`, its
failing end), and a handler that could succeed again and again does not crash every time
(strong fairness on the step under the lock). For the subscriptions the first step needs strong fairness as well,
because a handler may be busy with another event when a delivery comes. `MCRedelivery` states the
`Redelivery` of the three modules as common conditions; that is the same because only one
side is alive and there is one payment (`OnePayment`). In the browser, a request is answered or fails
(`Store`, `Imported`, `ImportFailed`, the loads of the history; `Ask` of the status page).
Nothing is assumed about members, administrators or cashiers: they may never come back.

## 5. Proofs

`EventRegistration_proofs` proves for every set of users (finite), editors, limits and
windows:

| Theorem | States |
|---|---|
| `TypeCorrect` | `Spec => []TypeOK` |
| `IdsUnique` | `Spec => []IdsAreUnique` |
| `NoOverbooking` | `Spec => NeverOverbooks` |
| `PlacesAreOffered` | `Spec => FreedPlaceIsOffered` |
| `ServedInOrder` | `Spec => PromotedInOrder` |
| `OthersUntouched` | `Spec => OthersAreLeftAlone` |

The inductive invariant is `IInv == TypeOK /\ IdsAreUnique`. `IdsAreUnique` alone is not
enough for itself, because a new row needs to know that the counter is a number above every id given out;
the action properties need both: that the queue is totally ordered by id makes "the
number of those ahead of me" strictly increasing along the queue. From that, the central
lemma: promotion fills exactly the free places, so the number of confirmed participants after it is at most the
capacity if anybody was promoted, and whoever is not promoted finds the event full. It
is proved by looking at the newest of the promoted and the oldest of those left waiting, and
counting those ahead of them, so no induction over sets is needed (that a newest and an oldest exist
follows from the well-foundedness of the natural numbers, `WFMin`). The facts about cardinalities are from
`FiniteSetTheorems`. Assumptions on the constants: `Users` is finite, limits are natural
numbers, `Unlimited` is not a number, and the sets of answers and windows are those of the
code.

`EventPayment_proofs` builds on it, for every set of attempts:

| Theorem | States |
|---|---|
| `PaymentsTyped` | `PaySpec => []PayTypeOK` |
| `NothingIsForgotten` | `PaySpec => []NoPaymentIsForgotten` |
| `PaidRightfully` | `PaySpec => PaidOnlyByProviderOrAdmin` |
| `AcknowledgedIsPaid` | `PaySpec => AcknowledgedMeansPaid` |

The inductive invariant is `PayInv == IInv /\ PayTypeOK /\ NoPaymentIsForgotten /\
HandlersKnowTheRow /\ UnusedIsSilent`. `NoPaymentIsForgotten` is not inductive: a handler
may acknowledge only what was announced, so a handler at work must belong to money that was taken
and to a row id that was handed out to the payer (`HandlersKnowTheRow`), and an attempt that was
never started must have no event (`UnusedIsSilent`). That the row a handler marks is the
payer's follows from the uniqueness of the ids: a row with the id looked up is the row that
was looked up, because ids are never reused. A step of the registrations is lifted by the invariant of the
first proof.

The three action properties of the registrations hold for the system with payments too, which is more than the
first module says, since `MarkRow` writes rows without being a step of `EventRegistration`:

| Theorem | States |
|---|---|
| `PaymentsNeverOverbook` | `PaySpec => NeverOverbooks` |
| `PayingKeepsPlacesOffered` | `PaySpec => FreedPlaceIsOffered` |
| `PayingJumpsNoQueue` | `PaySpec => PromotedInOrder` |

A step of the payments leaves every row its type (`PaymentsKeepTypes`, from `MarkedRow`), so nobody holds,
gives up or waits for another place after it.

`AnsweringPages_proofs` is about the two modules of the run `answers`. For every set of files and any
number of requests:

| Theorem | States |
|---|---|
| `ImportTyped` | `Spec => []TypeOK` (of `FinanceImportPage`) |
| `OnlyAcceptedFiles` | `Spec => []OnlyValidFilesAreImported` |
| `FieldsImplementFileVerdict` | `Spec => VerdictOfChosenFile` |

The refinement rests on an invariant about the numbers: a validation under way with the
number of the last request is about the file chosen now and its field is pending, there is
no validation with a later number, a field that says valid has an accepted file chosen, and
one that is idle has none; then every step of the page is, for each field, a step of `FileVerdict` or none.

For every set of offers and any number of keys and polls:

| Theorem | States |
|---|---|
| `CheckoutTyped` | `CheckoutSpec => []CheckoutTypeOK` |
| `SuccessIsTrue` | `CheckoutSpec => []ToldSuccessIsPaid` |
| `NoDeadPayment` | `CheckoutSpec => []CancelledGetsAFreshKey` |

`ToldSuccessIsPaid` is not inductive: with Stripe, the status page says success when its
questions run out, without having heard so. It may, because Stripe opens that page only after
the session was finished (`StripeReturned`), and because every page past the first is about an attempt
that was made (`HasAttempt`). The card of an error is reached only from MobilePay (`ErrorAtMobilePay`), so the exception
of the theorem is the failed first question there and nothing else. Assumptions: the status page asks at least once; the offers of Stripe and those of events are offers.

`MobilePaySubscription_proofs`, for every set of agreements, requests and handlers and any
number of events:

| Theorem | States |
|---|---|
| `SubscriptionTyped` | `Spec => []TypeOK` |
| `CreditedRightfully` | `Spec => []CreditedWasCharged` |
| `ClosedForGood` | `Spec => ClosedStaysClosed` |
| `NeverGoesBack` | `Spec => EventsInOrder` |
| `MobilePayImplementsMembership` | `Spec => PaidForWithMobilePay` |

`CreditedWasCharged` needs to know why a member is credited: for a charge event, which is
there only after the charge, or for the answer `ACTIVE`. `RequestsAreSound` carries
that answer through the steps of a request: whatever is about to be committed as active was
charged, the row a request tracks is a row, the row it is about to write exists, and
what it is about to terminate is terminal. `ActiveWasCharged` says the same of the
provider, and `HandlersFoundTheRow` that a delivery under way has a row. No row is ever deleted
and no charge taken back (`RowStays`, `ChargesStay`), so other actors cannot spoil
what a request relies on. Assumptions: `None` is neither an agreement nor an id.

That the model implements `Membership` follows from the same invariant: each step maps to `Take`, `Credit`,
`Discard` or `End` of one agreement or to a stutter (`MembershipStep`). The two steps that make a member paid,
a page's commit of the answer `ACTIVE` and a handler's credit, need what the invariant knows of the
agreement: that it was charged. A handler that acknowledges and drops, and one that fails after it has
scheduled the next charge, are `Discard` and a stutter.

`StripeSubscription_proofs`, for every set of sessions and handlers and any number of events:

| Theorem | States |
|---|---|
| `StripeTyped` | `Spec => []TypeOK` |
| `PaymentsAreKept` | `Spec => []NoPaymentIsLost` |
| `StripeImplementsMembership` | `Spec => PaidForWithStripe` |

`NoPaymentIsLost` is not inductive: a handler acknowledges an event it read long ago, and credits what that
event says was paid. So the events at work and on their way must be sound (`DeliveriesAreSound`,
`HandlersAreSound`): whatever reports a payment reports one that was taken, and whatever is about a
subscription is about a session that became one, so that Stripe has a status for it that can be stored. A
payment may also be acknowledged without a credit, when the row shows that very event already; that it was credited
then is `RowIsSound`. What spoils none of it is that Stripe takes back neither a start nor a payment
(`StartsStay`). The refinement then needs only that a delivery disappears when it is a
payment credited or credited already. Assumption: `None` is not a session.

`EventPages_proofs` builds on `EventRegistration_proofs`, for every set of users, any number of
requests side by side, and every state of the service the pages may be opened on:

| Theorem | States |
|---|---|
| `MineIsWhatWasLeft` | `PagesSpec => []MineIsAsLeft` |
| `RowsAreWhatWasLeft` | `PagesSpec => []RowsAreAsLeft` |
| `EditsTheRowShown` | `PagesSpec => ActsOnTheRowShown` |
| `PagesUseTheService` | `PagesSpec => [][Next]_vars` |
| `PagesNeverOverbook` | `PagesSpec => NeverOverbooks` |
| `PagesKeepPromises` | `PagesSpec => FreedPlaceIsOffered /\ PromotedInOrder /\ OthersAreLeftAlone` |

`RowsAreAsLeft` speaks of the moment when no answer is on its way, and says nothing about how one gets
there. The invariant does: the requests whose answers were read and did not arrive are
ordered (`OrdersDiffer`), and one after the other they lead from the row the page shows to the row as
it was read for the last of them (`Leads`). A change that is committed and not read yet alters nothing the page
was told or will be told by the answers on their way (`CommitKeepsIInv`); the step that reads it appends a link (`ReadKeepsIInv`). Each answer is about the row the one before it shows (`Meets`). An
answer that comes in its turn takes one link off the front of that chain; one that overtakes another
breaks it and is named by `missed`, as is one that never comes; the property excepts both. The page sends the id it
shows, and the id may have been deleted and the user registered again meanwhile; that no later row
has the same id (`KnownId`) is what makes the edit miss instead of hitting the new row. That among the answers
on their way there is a last one is no assumption about their number: orders are numbers with a bound,
and the greatest comes from well-foundedness (`Greatest`). `PagesUseTheService` shows that the pages
implement the service: each of their steps is, for the rows, a step of `EventRegistration` or none. The lemmas behind
the action properties of `EventRegistration` then carry over to everything the pages do, from rows stored before too.

`SitePages_proofs`, for every set of roles, people and permissions and any number of saves, every
finite set of rows, and every set of path segments:

| Theorem | States |
|---|---|
| `RolesTyped` | `RoleSpec => []RoleTypeOK` |
| `PageIsTheRole` | `RoleSpec => []PageShowsTheRole` |
| `OthersKeepTheirRoles` | `RoleSpec => OnlyToggledPeopleMove` |
| `TableTyping` | `TableSpec => []TableTypeOK` |
| `PagesPartTheMatches` | `TableSpec => []EveryMatchIsFound` |
| `RouterTyping` | `RouterSpec => []RouterTypeOK` |
| `PagesGrantWhatUrlsGrant` | `RouterSpec => []GateAndPageAgree` |
| `MenusLeadSomewhere` | `RouterSpec => []MenuItemsLeadSomewhere` |
| `PagesTyped` | `Spec => []TypeOK` (of `MCSitePages`) |

Roles: whoever differs from what was read was toggled, and so was everybody
a save adds or deletes (`DifferencesAreToggled`); the members the page shows are those stored, or the save that
changed them is still to be answered and its answer says what they are, or they came late (`ReadIsStored`);
what was read for a request under way is what is stored, unless it is marked late (`LoadsFit`); and a role that
is gone has no members, so creating it again gives it to nobody (`GoneIsEmpty`).

Tables: the invariant itself is small, since a search, a sort or a change of the rows may leave the
page asked for far behind the last one; what carries the theorem are lemmas about the operators. Counting
gives each match a place of its own without gaps (`PlacesAreOrdered`, `MatchesAreInOrder`), the slices of a sequence
at multiples of the page size join to the sequence, and their number is the one the code
computes by rounding up (`PagesNeeded`, `PagesPartitionTheMatches`). The pages are joined by
`FlattenSeq`, whose recursion is resolved at the least page where it could go wrong (`FlattenedStepByStep`).

Router: the invariant only says that the history holds paths and the position is in it. The theorem is
about the tables: for a path under `/admin`, the first rule of the gate that applies and the first
rule of the pages that applies ask for permissions of which the one implies the other, for paths of any
length, those no link leads to included (`GateOfAPath`, `PageOfAnAdminPath`, `GatesGrantTheirPages`); the menus are then compared
link by link (`MenuPathsAreOpen`), and the first destination of an editor is one the gate opens.

The pages together: each step of `MCSitePages` is, for every page, a step of that page or none
(`EveryPageAsAlone`), so each theorem about one page holds in the composition that TLC runs; `PagesTyped` collects the
types.

`FinancePages_proofs`, for every set of records, postings, years and overviews and any number of requests:

| Theorem | States |
|---|---|
| `RegisterTyped` | `RegisterSpec => []RegisterTypeOK` |
| `NothingTypedIsLost` | `RegisterSpec => TypedEditsSurvive` |
| `BudgetsShowWhatIsStored` | `RegisterSpec => []BudgetRowsAreStored` |
| `PostingsTyping` | `PostingsSpec => []PostingsTypeOK` |
| `TableShowsWhatIsStored` | `PostingsSpec => []TableShowsTheYear` |
| `FormTyping` | `FormSpec => []FormTypeOK` |
| `FormsWriteTheirOwnRecord` | `FormSpec => []WritesItsOwnRecord` |
| `OverviewTyped` | `OverviewSpec => []OverviewTypeOK` |
| `FormulasAreRight` | `OverviewSpec => []FormulasMatchValues` |
| `PageIsTheBook` | `OverviewSpec => []PageAddsUpToTheBook` |

Register: `SavesKnowTheirRow` is about the identity of the row object: a write under way carries
one that is not newer than the row's, and if it is the row's, the row still says what was sent.
The answer gives the row a new identity, so no other answer on its way matches it any more. That is enough for
`TypedEditsSurvive`. For `BudgetRowsAreStored` the invariant must also know what the answer of a save is going
to put in the row's place (`CallOfRow`), that what a clean row shows is stored or about to be deleted
(`StoredOrGoing`), and that no other row's save is about to take the record away by renaming it
(`NoOtherSaves`). Rows whose record two writes may have met in are in `met` and excepted; that a
row outside it has at most one write under way (`OneCall`) is part of the invariant.

Postings: the load that was sent last and not overtaken has read what is still stored
(`LastLoadIsCurrent`), because every write that was accepted sends another load after it
(`NoneAccepted` is the state in which all of them have). The table is that load's answer
(`ListedIsCurrent`).

Forms: every change of the URL sends a load, so the last load an effect has sent is of the URL of
the page unless one sent after it ended before (`ReadIsOfTheUrl`); once it has ended, the form is of the URL (`FormIsOfTheUrl`). A load
that renews the heading after a write does not touch the form, and the two kinds must be told apart
for the invariant to be inductive.

Overview: the invariant is small again (`BookIsOfAnOverview`: the workbook was made of typed figures); the
theorems rest on lemmas about sums, for any number of rows. `SumFunction` is a fold over a finite set whose value the
library defines by a choice, so it has to be shown that a sum exists, that any two agree, and what it is
without one element (`SumsExist`, `SumsAgree`, `SumUnfolds`, `SumWithout`). These are inductions on the number of
elements; since no rule with an operator parameter can be used, they are stated with sets: the numbers for
which the claim holds contain 0 and successors, so they are all (`AllNumbers`, `AllSubsets`). From them follow
the sum of a union, of zeros and of parts by a key (`SumOfUnion`, `SumOfZeros`, `SumOfParts`). The last
is `accountGroups`: the sums by context add up to the sum of a sub-account, those by sub-account to that of the accounts
listed, and what is not listed adds nothing (`GroupsAddUp`, `AccountTableAddsUp`). For the workbook,
`SheetComputes` says of any sheet with one row appended that a formula over the letters computes the value beside it if
letter and index name the same column and the range ends one row above; the five sheets are its instances.

What the constants are assumed to be is stated with them (`CheckoutAssumption`, `PagesAssumption`,
`RegisterAssumption`, `OverviewAssumption`, ...): the special values are not values, what is loaded is part of what
may be stored, the server answers overviews of the declared shape, the bookmarks are made of segments (`BookmarksAssumption`),
bounds are natural numbers. TLC evaluates each on the runs.

Every invariant and every action property of the passing runs is stated by a theorem. Only
model-checked is liveness: `TakenIsCredited`, `AuthorizedIsCaptured`, `EndedIsClosed`, `AcceptedIsCredited`,
`PaymentIsCredited`, `EndIsNoticed`, `ImportIsListed` and `StatusPageSettles`; the prover has no rules for fairness
and `ENABLED` here. The six properties of the table in section 6 are refuted by TLC and have no theorem.

## 6. Where the code and its documentation disagree

| Run | Property | In short |
|---|---|---|
| `capacity_edit` | `CapacityIsNeverUndercut` | the capacity check is not atomic with the save and can be skipped |
| `register_again` | `MemberKeepsPaidMark` | sending the form again after paying takes the mark off |
| `one_live_agreement` | `OneLiveAgreement` | two checkouts at a time make two agreements |
| `overdue` | `OverdueUntilCaptured` | the page makes an overdue subscription active |
| `stale_answer` | `StaleAnswerIsDropped` | an answer about one agreement is stored for another |
| `ended_subscription` | `EndedStaysEnded` | an answer Stripe gave before the end reopens the row of an ended subscription |

Seen in the models as well, without a run of their own. Back end: a refund is acknowledged and the place stays paid
(`VippsWebhookController.cs:270`; `src/docs/payment-provider-integration.md:37` asks
for the opposite); a CAPTURED event delivered again marks a row that was unmarked
meanwhile (`:306`); charge-captured makes a closed subscription active (`:534`, only
activation looks at the status); a reservation is abandoned while the call that makes its
agreement runs (`MobilePaySubscriptionReconciliationService.cs:208`); a
retry with the key of an attempt the server has ended gets the ended agreement
(`ApiPaymentOffersController.cs:1497`); two Stripe checkouts opened before the first is
credited make two subscriptions, and the row follows whichever was heard of last
(`:1299`; the document, line 17, allows one); a Stripe cancellation saves its tracked row
without a lock, so it may close the row of another subscription, and an event from before the
end opens the row again until the end is announced
(`ApiPaymentSubscriptionsController.cs:130`), and that of a MobilePay agreement likewise (`:179`); deleting an account promotes nobody
(`ApplicationDbContext.cs:206`); `ApiRolesController.cs:111` ignores the result of each
change of a member.

Front end, seen in the models or excepted from their properties: `/pay/cancel` and the pages of memberships drop the keys of all offers, although
the comment at `PaymentPage.jsx:339` keeps a key while its payment is unresolved; the
success page of a card payment announces a purchase even if its question fails (`:384`, `:554`; it is
reached only after the payment), and that of a MobilePay membership does so too when its first question fails, although the payment
may have been cancelled or never made (`:554`; `src/docs/payment-provider-integration.md:22` does not take a return to the page for a
payment, and `:435` sets a text that only the card of an event shows), while one whose later question fails is shown as
not carried out (`:505`) although it may be paid; the list of imports is set by whatever answer arrives last, also one read
before an import (`FP:3537`); members of a role read before a save may arrive after it and replace
those the save answered (`AdminRolesPage.jsx:121`); a change of a registration may be carried out and answered
with an error, when the row is deleted before it is read again (`EventRegistrationService.cs:98`, `:170`, `:394`);
the list of registrations sends the whole row as it was
shown, so it may take back a promotion or a mark (`EventRegistrationsPage.jsx:78`); after
a write the cashier's table is loaded with the year of the click (`FP:1401`); an answer
about a record the user has left fills the form of the next (`FP:2657`).

The passing properties are worded so that they hold beside all these: `NeverOverbooks` speaks
of steps that add participants, `ClosedStaysClosed` allows a charge event to open a closed
row, `EndedIsClosed`, `AcceptedIsCredited` and `EndIsNoticed` speak of the subscription the row names,
`TableShowsTheYear` and `WritesItsOwnRecord` except answers that were overtaken, as do `MineIsAsLeft`,
`RowsAreAsLeft` (`missed`), `PageShowsTheRole` (`late`) and `ImportIsListed` (`overtaken`), and `ToldSuccessIsPaid`
excepts the failed first question. What that leaves unchecked: a repeated capture and a second charge (the providers are
assumed to replay them), a cancellation that closes another agreement, a subscription whose row another
took over, other cashiers, and the keys of offers other than the one cancelled.

## 7. Not modelled

Listed with reasons in `PROJECT.json` (`components`). In short: the administration of offers,
content deletion and its editor, the server side of the finance import (parsing, duplicates, the
references of MobilePay payments) and messages (section 2); calendar, library and templates only read and format; sign-in
belongs to ASP.NET Identity; the command line tools keep no state. The aggregation of the finance reports is SQL.
The one subscription row is modelled with each provider alone: a Stripe event that takes over the row of
a MobilePay agreement, and the reverse, is not. Inside the modelled parts,
e-mails, texts (`UpdateMyNoteAsync` changes nothing else), slugs, pictures, signatures and amounts (but for the
workbook) are left out: no property depends on them.

Hazards without a property: a promotion that never runs after an edit (nothing promises its
recovery), the finance reference lost between commit and store, the id of the next charge, and
the three partial failures in parts that are not modelled.
