-------------------------- MODULE EventPayment_proofs --------------------------
(***************************************************************************)
(* Proofs about EventPayment, for any number of users, payments and edits: *)
(* no payment is forgotten, and a row becomes paid only for money that was *)
(* taken from its user.  They rest on the invariant of the registrations.  *)
(***************************************************************************)
EXTENDS EventPayment, EventRegistration_proofs

(* What a success handler at work has looked up: money that was taken, and *)
(* a row that belongs to its user for as long as it exists, because ids    *)
(* are never used again.                                                   *)
LookedUp(a) ==
  /\ Taken(a)
  /\ found[a] < nextId
  /\ pay[a].provider = "MOBILEPAY" => pay[a].regId = found[a]
  /\ \A u \in Users : HasRow(u) /\ reg[u].id = found[a] => u = pay[a].user

(* The invariant that is inductive.                                        *)
HandlersKnowTheRow == \A a \in Attempts : found[a] # 0 => LookedUp(a)
UnusedIsSilent == \A a \in Attempts : pay[a] = Unused => <<a, "AUTHORIZED">> \notin deliveries
PayInv == IInv /\ PayTypeOK /\ NoPaymentIsForgotten /\ HandlersKnowTheRow /\ UnusedIsSilent

-----------------------------------------------------------------------------
(* What a step of the registrations does to one row                        *)

(* A promotion keeps the paid mark.                                        *)
LEMMA PromoteKeepsMarks ==
  ASSUME NEW r \in [Users -> Row], NEW excluded, NEW u \in Users
  PROVE  Promote(r, excluded)[u].registered = r[u].registered
<1>1. r[u] \in Row
  OBVIOUS
<1>2. Promote(r, excluded)[u] \in {r[u], [r[u] EXCEPT !.type = "ATTENDEE"]}
  BY DEF Promote
<1> QED BY <1>1, <1>2 DEF Row

(* Storing a row keeps its id, or gives it the next one, and sets its mark.*)
LEMMA StoredRow ==
  ASSUME IInv, NEW u \in accounts, NEW type \in RegistrationTypes,
         NEW registered \in BOOLEAN, TakeId(u), StoreAndPromote(u, type, registered)
  PROVE  /\ reg'[u].id = IF HasRow(u) THEN reg[u].id ELSE nextId
         /\ reg'[u].registered = registered
<1> DEFINE stored == Store(u, type, registered)
<1>1. stored \in [Users -> Row] /\ u \in Users
  BY StoreRows DEF RowsOK, IInv, TypeOK
<1>2. stored[u].id = (IF HasRow(u) THEN reg[u].id ELSE nextId) /\ stored[u].registered = registered
  BY DEF Store, IInv, TypeOK
<1>3. reg' \in {stored, Promote(stored, {u})}
  BY DEF StoreAndPromote
<1> HIDE DEF stored
<1> QED BY <1>1, <1>2, <1>3, PromoteKeepsRows, PromoteKeepsMarks

(* A row that is removed is gone, whoever is promoted.                     *)
LEMMA RemovedRow ==
  ASSUME IInv, NEW u \in Users, NEW excluded,
         reg' \in {Remove(u), Promote(Remove(u), excluded)}
  PROVE  reg'[u].type = "NONE" /\ ~reg'[u].registered
<1>1. Remove(u) \in [Users -> Row]
  BY RemoveRows DEF RowsOK
<1>2. Remove(u)[u].type = "NONE" /\ ~Remove(u)[u].registered
  BY DEF Remove, NoRow, IInv, TypeOK
<1> QED BY <1>1, <1>2, PromoteKeepsRows, PromoteKeepsMarks

(* Ids are never used again, and only an administrator marks a row.        *)
KeepsOrTakesId(u) ==
  reg'[u].type # "NONE" =>
    (HasRow(u) /\ reg'[u].id = reg[u].id) \/ reg'[u].id = nextId
MarkedByAdmin(u) ==
  ~reg[u].registered /\ reg'[u].registered =>
    \E t \in RegistrationTypes : Add(u, t, TRUE) \/ Update(u, t, TRUE)
RowStep(u) == nextId <= nextId' /\ KeepsOrTakesId(u) /\ MarkedByAdmin(u)

LEMMA IdTaken ==
  ASSUME nextId \in Nat, NEW u \in Users, TakeId(u),
         reg'[u].id = IF HasRow(u) THEN reg[u].id ELSE nextId
  PROVE  nextId <= nextId' /\ KeepsOrTakesId(u)
<1>1. nextId <= nextId'
  BY DEF TakeId
<1>2. KeepsOrTakesId(u)
  BY DEF KeepsOrTakesId
<1> QED BY <1>1, <1>2

LEMMA OwnRowStep ==
  ASSUME IInv, NEW u \in Users, Registering(u)
  PROVE  RowStep(u)
<1>0. nextId \in Nat
  BY DEF IInv, TypeOK
<1>1. ASSUME NEW t \in RegistrationTypes, Register(u, t) PROVE RowStep(u)
  <2> DEFINE type == IF t = "ATTENDEE" /\ ~Counts(reg[u]) /\ ~HasCapacity(u)
                       THEN "WAITLISTED" ELSE t
  <2>1. type \in RegistrationTypes
    BY DEF RegistrationTypes
  <2>2. u \in accounts /\ TakeId(u) /\ StoreAndPromote(u, type, FALSE)
    BY <1>1 DEF Register
  <2> HIDE DEF type
  <2>3. /\ reg'[u].id = IF HasRow(u) THEN reg[u].id ELSE nextId
        /\ reg'[u].registered = FALSE
    BY <2>1, <2>2, StoredRow
  <2>4. MarkedByAdmin(u)
    BY <2>3 DEF MarkedByAdmin
  <2> QED BY <1>0, <2>2, <2>3, <2>4, IdTaken DEF RowStep
<1>2. ASSUME NEW t \in RegistrationTypes, NEW paid \in BOOLEAN, Add(u, t, paid)
      PROVE  RowStep(u)
  <2>1. u \in accounts /\ TakeId(u) /\ StoreAndPromote(u, t, paid)
    BY <1>2 DEF Add
  <2>2. /\ reg'[u].id = IF HasRow(u) THEN reg[u].id ELSE nextId
        /\ reg'[u].registered = paid
    BY <2>1, StoredRow
  <2>3. ASSUME reg'[u].registered PROVE Add(u, t, TRUE)
    <3>1. paid = TRUE
      BY <2>2, <2>3
    <3> QED BY <1>2, <3>1
  <2>4. MarkedByAdmin(u)
    BY <2>3 DEF MarkedByAdmin
  <2> QED BY <1>0, <2>1, <2>2, <2>4, IdTaken DEF RowStep
<1>3. ASSUME NEW t \in RegistrationTypes, NEW paid \in BOOLEAN, Update(u, t, paid)
      PROVE  RowStep(u)
  <2>1. u \in accounts /\ TakeId(u) /\ StoreAndPromote(u, t, paid)
    BY <1>3 DEF Update, IInv, TypeOK, TakeId
  <2>2. /\ reg'[u].id = IF HasRow(u) THEN reg[u].id ELSE nextId
        /\ reg'[u].registered = paid
    BY <2>1, StoredRow
  <2>3. ASSUME reg'[u].registered PROVE Update(u, t, TRUE)
    <3>1. paid = TRUE
      BY <2>2, <2>3
    <3> QED BY <1>3, <3>1
  <2>4. MarkedByAdmin(u)
    BY <2>3 DEF MarkedByAdmin
  <2> QED BY <1>0, <2>1, <2>2, <2>4, IdTaken DEF RowStep
<1>4. CASE Unregister(u) \/ Delete(u) \/ DeleteUser(u)
  <2>1. nextId' = nextId /\ reg' \in {Remove(u), Promote(Remove(u), {})}
    BY <1>4 DEF Unregister, Delete, DeleteUser, RemoveAndPromote
  <2>2. reg'[u].type = "NONE" /\ ~reg'[u].registered
    BY <2>1, RemovedRow
  <2>3. KeepsOrTakesId(u) /\ MarkedByAdmin(u)
    BY <2>2 DEF KeepsOrTakesId, MarkedByAdmin
  <2>4. nextId <= nextId'
    BY <1>0, <2>1
  <2> QED BY <2>3, <2>4 DEF RowStep
<1> QED BY <1>1, <1>2, <1>3, <1>4 DEF Registering

LEMMA NextIdGrows ==
  ASSUME IInv, [Next]_vars
  PROVE  nextId <= nextId'
<1>0. nextId \in Nat
  BY DEF IInv, TypeOK
<1>1. ASSUME NEW u \in Users, Registering(u) PROVE nextId <= nextId'
  BY <1>1, OwnRowStep DEF RowStep
<1>2. ASSUME NEW e \in Editors, EditStep(e) PROVE nextId' = nextId
  BY <1>2 DEF EditStep, LoadEdit, CheckEdit, SaveEdit, PromoteEdit, AbortEdit
<1>3. TimePasses \/ UNCHANGED vars => nextId' = nextId
  BY DEF TimePasses, vars
<1> QED BY <1>0, <1>1, <1>2, <1>3 DEF Next

LEMMA NextRowStep ==
  ASSUME IInv, [Next]_vars, NEW u \in Users
  PROVE  RowStep(u)
<1>1. CASE Registering(u)
  BY <1>1, OwnRowStep
<1>2. CASE Untouched(u)
  <2>1. reg[u] \in Row
    BY DEF IInv, TypeOK
  <2>2. reg'[u].id = reg[u].id /\ reg'[u].registered = reg[u].registered
    BY <1>2, <2>1 DEF Untouched, Row
  <2>3. reg'[u].type # "NONE" => HasRow(u)
    BY <1>2 DEF Untouched, IsPromoted, HasRow
  <2>4. KeepsOrTakesId(u) /\ MarkedByAdmin(u)
    BY <2>2, <2>3 DEF KeepsOrTakesId, MarkedByAdmin
  <2> QED BY <2>4, NextIdGrows DEF RowStep
<1> QED BY <1>1, <1>2, NextOthers

-----------------------------------------------------------------------------
(* PayInv is an invariant                                                  *)

LEMMA PayInitInv == PayInit => PayInv
<1> SUFFICES ASSUME PayInit PROVE PayInv
  OBVIOUS
<1>1. IInv
  BY InitIInv DEF PayInit
<1>2. PayTypeOK
  BY DEF PayInit, PayTypeOK
<1>3. \A a \in Attempts : pay[a].state = "UNUSED"
  BY DEF PayInit, Unused
<1>4. NoPaymentIsForgotten
  BY <1>3 DEF PayInit, NoPaymentIsForgotten, Taken
<1>5. HandlersKnowTheRow /\ UnusedIsSilent
  BY DEF PayInit, HandlersKnowTheRow, UnusedIsSilent
<1> QED BY <1>1, <1>2, <1>4, <1>5 DEF PayInv

(* What was looked up stays right while the registrations change.          *)
LEMMA RegistrationKeepsPayInv ==
  ASSUME PayInv, [Next]_vars, UNCHANGED payVars
  PROVE  PayInv'
<1>1. IInv'
  BY NextIInv DEF PayInv
<1>2. PayTypeOK' /\ NoPaymentIsForgotten' /\ UnusedIsSilent'
  BY DEF PayInv, PayTypeOK, NoPaymentIsForgotten, UnusedIsSilent, payVars, Taken
<1>3. HandlersKnowTheRow'
  <2> SUFFICES ASSUME NEW a \in Attempts, found[a] # 0
               PROVE  LookedUp(a)'
    BY DEF HandlersKnowTheRow, payVars
  <2>1. LookedUp(a) /\ found[a] \in Nat /\ nextId \in Nat /\ nextId' \in Nat
    BY <1>1 DEF PayInv, HandlersKnowTheRow, PayTypeOK, IInv, TypeOK
  <2>2. nextId <= nextId'
    BY NextIdGrows DEF PayInv
  <2>3. ASSUME NEW u \in Users, reg'[u].type # "NONE", reg'[u].id = found[a]
        PROVE  u = pay[a].user
    <3>1. RowStep(u)
      BY NextRowStep DEF PayInv
    <3> QED BY <2>1, <2>3, <3>1 DEF LookedUp, RowStep, KeepsOrTakesId
  <2> QED BY <2>1, <2>2, <2>3 DEF LookedUp, payVars, Taken, HasRow
<1> QED BY <1>1, <1>2, <1>3 DEF PayInv

(* A payment that was made has all of its fields.                          *)
LEMMA PaymentFields ==
  ASSUME PayInv, NEW a \in Attempts, pay[a].state # "UNUSED"
  PROVE  pay[a] \in Payment
BY DEF PayInv, PayTypeOK, Unused

LEMMA CheckoutKeepsPayInv ==
  ASSUME PayInv, NEW u \in Users, NEW a \in Attempts, NEW p \in Providers, Checkout(u, a, p)
  PROVE  PayInv'
<1> DEFINE new == [state |-> "CREATED", provider |-> p, user |-> u, regId |-> reg[u].id]
<1>1. pay' = [pay EXCEPT ![a] = new] /\ new \in Payment /\ new.state = "CREATED"
  BY DEF Checkout, Payment, PaymentStates, PayInv, IInv, TypeOK, Row
<1>2. pay[a] = Unused /\ pay[a].state = "UNUSED"
      /\ UNCHANGED <<vars, deliveries, found, acked, offered>>
  BY DEF Checkout, Unused
<1>3. pay' \in [Attempts -> Payment \cup {Unused}]
  BY <1>1 DEF PayInv, PayTypeOK
<1>4. \A b \in Attempts : pay'[b] = IF b = a THEN new ELSE pay[b]
  BY <1>1 DEF PayInv, PayTypeOK
<1> HIDE DEF new
<1>5. PayTypeOK' /\ UnusedIsSilent'
  BY <1>1, <1>2, <1>3, <1>4 DEF PayInv, PayTypeOK, UnusedIsSilent
<1>6. NoPaymentIsForgotten'
  BY <1>1, <1>2, <1>4 DEF PayInv, NoPaymentIsForgotten, Taken
<1>7. HandlersKnowTheRow'
  BY <1>1, <1>2, <1>4 DEF PayInv, HandlersKnowTheRow, LookedUp, Taken, vars, HasRow
<1>8. IInv'
  BY <1>2 DEF PayInv, IInv, TypeOK, IdsAreUnique, vars, HasRow
<1> QED BY <1>5, <1>6, <1>7, <1>8 DEF PayInv

(* The payment of one attempt moves to another state, and what is announced*)
(* is what PayTypeOK and NoPaymentIsForgotten ask for.                     *)
OthersKeepTheirEvents(a) ==
  \A b \in Attempts, name \in {"AUTHORIZED", "CAPTURED"} :
    b # a => (<<b, name>> \in deliveries' <=> <<b, name>> \in deliveries)

LEMMA StateKeepsPayInv ==
  ASSUME PayInv, NEW a \in Attempts, pay[a].state # "UNUSED", NEW s \in PaymentStates,
         pay' = [pay EXCEPT ![a].state = s],
         UNCHANGED <<vars, found, acked, offered>>,
         deliveries' \subseteq Delivery, OthersKeepTheirEvents(a),
         <<a, "AUTHORIZED">> \in deliveries' =>
           s # "CREATED" /\ pay[a].provider = "MOBILEPAY",
         s \in {"CAPTURED", "REFUNDED"} <=> <<a, "CAPTURED">> \in deliveries' \/ a \in acked,
         Taken(a) => s \in {"CAPTURED", "REFUNDED"}
  PROVE  PayInv'
<1>1. pay[a] \in Payment
  BY PaymentFields
<1>2. [pay[a] EXCEPT !.state = s] \in Payment /\ [pay[a] EXCEPT !.state = s].state = s
      /\ [pay[a] EXCEPT !.state = s].provider = pay[a].provider
      /\ [pay[a] EXCEPT !.state = s].user = pay[a].user
      /\ [pay[a] EXCEPT !.state = s].regId = pay[a].regId
  BY <1>1 DEF Payment
<1> DEFINE new == [pay[a] EXCEPT !.state = s]
<1>3. pay' \in [Attempts -> Payment \cup {Unused}]
  BY <1>2 DEF PayInv, PayTypeOK
<1>4. \A b \in Attempts : pay'[b] = IF b = a THEN new ELSE pay[b]
  BY DEF PayInv, PayTypeOK
<1>5. new \in Payment /\ new.state = s /\ new.provider = pay[a].provider
      /\ new.user = pay[a].user /\ new.regId = pay[a].regId
  BY <1>2
<1> HIDE DEF new
<1>6. new # Unused
  BY <1>5 DEF Unused, PaymentStates
<1>7. PayTypeOK'
  BY <1>3, <1>4, <1>5 DEF PayInv, PayTypeOK, OthersKeepTheirEvents
<1>8. UnusedIsSilent'
  BY <1>4, <1>6 DEF PayInv, UnusedIsSilent, OthersKeepTheirEvents
<1>9. NoPaymentIsForgotten'
  BY <1>4, <1>5 DEF PayInv, NoPaymentIsForgotten, Taken, OthersKeepTheirEvents
<1>10. HandlersKnowTheRow'
  BY <1>4, <1>5 DEF PayInv, HandlersKnowTheRow, LookedUp, Taken, vars, HasRow
<1>11. IInv'
  BY DEF PayInv, IInv, TypeOK, IdsAreUnique, vars, HasRow
<1> QED BY <1>7, <1>8, <1>9, <1>10, <1>11 DEF PayInv

LEMMA ProviderKeepsPayInv ==
  ASSUME PayInv, NEW a \in Attempts, Provider(a)
  PROVE  PayInv'
<1>0. /\ deliveries \subseteq Delivery
      /\ <<a, "AUTHORIZED">> \in deliveries =>
           pay[a].state # "CREATED" /\ pay[a].provider = "MOBILEPAY"
      /\ Taken(a) <=> <<a, "CAPTURED">> \in deliveries \/ a \in acked
  BY DEF PayInv, PayTypeOK, NoPaymentIsForgotten
<1>1. CASE Approve(a)
  <2>1. pay[a] \in Payment /\ ~Taken(a)
    BY <1>1, PaymentFields DEF Approve, Taken
  <2> DEFINE next == IF pay[a].provider = "MOBILEPAY" THEN "AUTHORIZED" ELSE "CAPTURED"
  <2>2. /\ pay[a].state = "CREATED"
        /\ pay' = [pay EXCEPT ![a].state = next]
        /\ deliveries' = deliveries \cup {<<a, next>>}
        /\ UNCHANGED <<vars, found, acked, offered>>
    BY <1>1 DEF Approve
  <2>3. next \in {"AUTHORIZED", "CAPTURED"} /\ (next = "AUTHORIZED" <=> pay[a].provider = "MOBILEPAY")
    OBVIOUS
  <2> HIDE DEF next
  <2>4. <<a, "AUTHORIZED">> \notin deliveries
    BY <1>0, <2>2
  <2>5. next \in PaymentStates /\ next # "CREATED" /\ pay[a].state # "UNUSED"
    BY <2>2, <2>3 DEF PaymentStates
  <2>6. deliveries' \subseteq Delivery
    BY <1>0, <2>2, <2>3 DEF Delivery
  <2>7. OthersKeepTheirEvents(a)
    BY <2>2 DEF OthersKeepTheirEvents
  <2>8. <<a, "AUTHORIZED">> \in deliveries' => next # "CREATED" /\ pay[a].provider = "MOBILEPAY"
    BY <2>2, <2>3, <2>4
  <2>9. next \in {"CAPTURED", "REFUNDED"} <=> <<a, "CAPTURED">> \in deliveries' \/ a \in acked
    BY <1>0, <2>1, <2>2, <2>3
  <2> QED BY <2>1, <2>2, <2>5, <2>6, <2>7, <2>8, <2>9, StateKeepsPayInv
<1>2. CASE Abandon(a)
  <2>1. ~Taken(a)
    BY <1>2 DEF Abandon, Taken
  <2> QED BY <1>0, <1>2, <2>1, StateKeepsPayInv DEF Abandon, PaymentStates, OthersKeepTheirEvents
<1>3. CASE Refund(a)
  <2>1. Taken(a)
    BY <1>3 DEF Refund, Taken
  <2>2. /\ pay[a].state = "CAPTURED"
        /\ pay' = [pay EXCEPT ![a].state = "REFUNDED"]
        /\ deliveries' = deliveries \cup {<<a, "REFUNDED">>}
        /\ UNCHANGED <<vars, found, acked, offered>>
    BY <1>3 DEF Refund
  <2>3. "REFUNDED" \in PaymentStates /\ pay[a].state # "UNUSED"
    BY <2>2 DEF PaymentStates
  <2>4. deliveries' \subseteq Delivery
    BY <1>0, <2>2 DEF Delivery
  <2>5. OthersKeepTheirEvents(a)
    BY <2>2 DEF OthersKeepTheirEvents
  <2>6. <<a, "AUTHORIZED">> \in deliveries' => pay[a].provider = "MOBILEPAY"
    BY <1>0, <2>2
  <2>7. <<a, "CAPTURED">> \in deliveries' \/ a \in acked
    BY <1>0, <2>1, <2>2
  <2> QED BY <2>2, <2>3, <2>4, <2>5, <2>6, <2>7, StateKeepsPayInv
<1> QED BY <1>1, <1>2, <1>3 DEF Provider

(* A capture is announced in the same step.                                *)
LEMMA CaptureKeepsPayInv ==
  ASSUME PayInv, NEW a \in Attempts, pay[a].state = "AUTHORIZED", Capture(a),
         UNCHANGED <<vars, found, acked, offered>>,
         NEW rest \in SUBSET deliveries, deliveries \ {<<a, "AUTHORIZED">>} \subseteq rest,
         deliveries' = rest \cup {<<a, "CAPTURED">>}
  PROVE  PayInv'
<1>1. /\ deliveries \subseteq Delivery
      /\ <<a, "AUTHORIZED">> \in deliveries => pay[a].provider = "MOBILEPAY"
  BY DEF PayInv, PayTypeOK
<1>2. ~Taken(a)
  BY DEF Taken
<1>3. deliveries' \subseteq Delivery
  BY <1>1 DEF Delivery
<1>4. OthersKeepTheirEvents(a)
  BY DEF OthersKeepTheirEvents
<1>5. <<a, "AUTHORIZED">> \in deliveries' => pay[a].provider = "MOBILEPAY"
  BY <1>1
<1>6. <<a, "CAPTURED">> \in deliveries'
  OBVIOUS
<1>7. "CAPTURED" \in PaymentStates /\ pay[a].state # "UNUSED"
  BY DEF PaymentStates
<1> QED BY <1>2, <1>3, <1>4, <1>5, <1>6, <1>7, StateKeepsPayInv DEF Capture

(* Deliveries may go that nothing depends on.                              *)
LEMMA DeliveredKeepsPayInv ==
  ASSUME PayInv, NEW a \in Attempts, UNCHANGED <<vars, pay, found, acked, offered>>,
         deliveries' \subseteq deliveries,
         \A b \in Attempts : <<b, "CAPTURED">> \in deliveries => <<b, "CAPTURED">> \in deliveries'
  PROVE  PayInv'
<1>1. IInv'
  BY DEF PayInv, IInv, TypeOK, IdsAreUnique, vars, HasRow
<1>2. PayTypeOK' /\ UnusedIsSilent' /\ NoPaymentIsForgotten'
  BY DEF PayInv, PayTypeOK, UnusedIsSilent, NoPaymentIsForgotten, Taken
<1>3. HandlersKnowTheRow'
  BY DEF PayInv, HandlersKnowTheRow, LookedUp, Taken, vars, HasRow
<1> QED BY <1>1, <1>2, <1>3 DEF PayInv

(* The handler looks up the row of the user who paid.                      *)
LEMMA FindRowKeepsPayInv ==
  ASSUME PayInv, NEW a \in Attempts, FindRow(a)
  PROVE  PayInv'
<1> DEFINE u == pay[a].user
<1>0. UNCHANGED <<vars, pay, deliveries, acked, offered>>
  BY DEF FindRow
<1>1. Taken(a)
  BY DEF FindRow, PayInv, NoPaymentIsForgotten
<1>2. pay[a] \in Payment /\ u \in Users
  BY <1>1, PaymentFields DEF Taken, Payment
<1>3. reg[u].id \in 1 .. (nextId - 1) /\ nextId \in Nat
  BY <1>2 DEF FindRow, PayInv, IInv, IdsAreUnique, TypeOK
<1>4. /\ found' \in [Attempts -> Nat]
      /\ \A b \in Attempts : found'[b] = IF b = a THEN reg[u].id ELSE found[b]
  BY <1>3 DEF FindRow, PayInv, PayTypeOK
<1>5. \A v \in Users : HasRow(v) /\ reg[v].id = reg[u].id => v = u
  BY <1>2 DEF FindRow, PayInv, IInv, IdsAreUnique
<1>6. pay[a].provider = "MOBILEPAY" => pay[a].regId = reg[u].id
  BY DEF FindRow
<1> HIDE DEF u
<1>7. HandlersKnowTheRow'
  <2> SUFFICES ASSUME NEW b \in Attempts, found'[b] # 0 PROVE LookedUp(b)'
    BY DEF HandlersKnowTheRow
  <2>1. CASE b = a
    BY <1>0, <1>1, <1>3, <1>4, <1>5, <1>6, <2>1 DEF LookedUp, Taken, vars, HasRow, u
  <2>2. CASE b # a
    BY <1>0, <1>4, <2>2 DEF PayInv, HandlersKnowTheRow, LookedUp, Taken, vars, HasRow
  <2> QED BY <2>1, <2>2
<1>8. PayTypeOK' /\ UnusedIsSilent' /\ NoPaymentIsForgotten'
  BY <1>0, <1>4 DEF PayInv, PayTypeOK, UnusedIsSilent, NoPaymentIsForgotten, Taken
<1>9. IInv'
  BY <1>0 DEF PayInv, IInv, TypeOK, IdsAreUnique, vars, HasRow
<1> QED BY <1>7, <1>8, <1>9 DEF PayInv

(* What the handler marks is the row of the user who paid.                 *)
LEMMA MarkedRow ==
  ASSUME PayInv, NEW a \in Attempts, NEW keep \in BOOLEAN, MarkRow(a, keep)
  PROVE  LET u == pay[a].user IN
         /\ Taken(a) /\ u \in Users /\ IsParticipant(u) /\ reg[u].id = found[a]
         /\ reg' = [reg EXCEPT ![u].registered = TRUE]
         /\ pay[a].provider = "MOBILEPAY" => pay[a].regId = reg[u].id
<1>1. PICK u \in Users :
        /\ IsParticipant(u) /\ reg[u].id = found[a]
        /\ reg' = [reg EXCEPT ![u].registered = TRUE]
  BY DEF MarkRow
<1>2. HasRow(u)
  BY <1>1 DEF IsParticipant, Counts, Counting, HasRow
<1>3. found[a] # 0
  BY <1>1, <1>2 DEF PayInv, IInv, IdsAreUnique, TypeOK
<1>4. LookedUp(a)
  BY <1>3 DEF PayInv, HandlersKnowTheRow
<1>5. u = pay[a].user
  BY <1>1, <1>2, <1>4 DEF LookedUp
<1> QED BY <1>1, <1>4, <1>5 DEF LookedUp

LEMMA MarkRowKeepsPayInv ==
  ASSUME PayInv, NEW a \in Attempts, NEW keep \in BOOLEAN, MarkRow(a, keep)
  PROVE  PayInv'
<1> DEFINE u == pay[a].user
<1>0. /\ found' = [found EXCEPT ![a] = 0] /\ acked' = acked \cup {a}
      /\ deliveries' \in {deliveries, deliveries \ {<<a, "CAPTURED">>}}
      /\ UNCHANGED <<event, accounts, nextId, editor, pay, offered>>
  BY DEF MarkRow, Acknowledge
<1>1. Taken(a) /\ u \in Users /\ reg' = [reg EXCEPT ![u].registered = TRUE]
  BY MarkedRow
<1>2. \A v \in Users : reg'[v].id = reg[v].id /\ reg'[v].type = reg[v].type
  <2>1. \A v \in Users : reg[v] \in Row
    BY DEF PayInv, IInv, TypeOK
  <2>2. \A v \in Users : reg'[v] \in {reg[v], [reg[v] EXCEPT !.registered = TRUE]}
    BY <1>1 DEF PayInv, IInv, TypeOK
  <2> QED BY <2>1, <2>2 DEF Row
<1>3. reg' \in [Users -> Row]
  <2>1. reg \in [Users -> Row] /\ [reg[u] EXCEPT !.registered = TRUE] \in Row
    BY <1>1 DEF PayInv, IInv, TypeOK, Row
  <2> QED BY <1>1, <2>1
<1> HIDE DEF u
<1>4. IInv'
  BY <1>0, <1>2, <1>3 DEF PayInv, IInv, TypeOK, IdsAreUnique, HasRow
<1>5. PayTypeOK' /\ UnusedIsSilent'
  BY <1>0 DEF PayInv, PayTypeOK, UnusedIsSilent
<1>6. NoPaymentIsForgotten'
  BY <1>0, <1>1 DEF PayInv, NoPaymentIsForgotten, Taken
<1>7. HandlersKnowTheRow'
  <2> SUFFICES ASSUME NEW b \in Attempts, found'[b] # 0 PROVE LookedUp(b)'
    BY DEF HandlersKnowTheRow
  <2>1. b # a /\ found'[b] = found[b]
    BY <1>0 DEF PayInv, PayTypeOK
  <2> QED BY <1>0, <1>2, <2>1 DEF PayInv, HandlersKnowTheRow, LookedUp, Taken, HasRow
<1> QED BY <1>4, <1>5, <1>6, <1>7 DEF PayInv

LEMMA GiveUpKeepsPayInv ==
  ASSUME PayInv, NEW a \in Attempts, GiveUp(a)
  PROVE  PayInv'
<1>0. found' = [found EXCEPT ![a] = 0] /\ UNCHANGED <<vars, pay, deliveries, acked, offered>>
  BY DEF GiveUp
<1>1. IInv'
  BY <1>0 DEF PayInv, IInv, TypeOK, IdsAreUnique, vars, HasRow
<1>2. PayTypeOK' /\ UnusedIsSilent' /\ NoPaymentIsForgotten'
  BY <1>0 DEF PayInv, PayTypeOK, UnusedIsSilent, NoPaymentIsForgotten, Taken
<1>3. HandlersKnowTheRow'
  <2> SUFFICES ASSUME NEW b \in Attempts, found'[b] # 0 PROVE LookedUp(b)'
    BY DEF HandlersKnowTheRow
  <2>1. b # a /\ found'[b] = found[b]
    BY <1>0 DEF PayInv, PayTypeOK
  <2> QED BY <1>0, <2>1 DEF PayInv, HandlersKnowTheRow, LookedUp, Taken, vars, HasRow
<1> QED BY <1>1, <1>2, <1>3 DEF PayInv

LEMMA HandleKeepsPayInv ==
  ASSUME PayInv, NEW a \in Attempts, NEW keep \in BOOLEAN, Handle(a, keep)
  PROVE  PayInv'
<1>1. CASE HandleAuthorized(a, keep)
  <2>1. CASE pay[a].state = "AUTHORIZED"
    <3> DEFINE rest == IF keep THEN deliveries ELSE deliveries \ {<<a, "AUTHORIZED">>}
    <3>1. rest \in SUBSET deliveries /\ deliveries \ {<<a, "AUTHORIZED">>} \subseteq rest
      OBVIOUS
    <3>2. Capture(a) /\ deliveries' = rest \cup {<<a, "CAPTURED">>}
          /\ UNCHANGED <<vars, found, acked, offered>>
      BY <1>1, <2>1 DEF HandleAuthorized
    <3> HIDE DEF rest
    <3> QED BY <2>1, <3>1, <3>2, CaptureKeepsPayInv
  <2>2. CASE pay[a].state # "AUTHORIZED"
    <3>1. UNCHANGED <<vars, pay, found, acked, offered>>
          /\ deliveries' \in {deliveries, deliveries \ {<<a, "AUTHORIZED">>}}
      BY <1>1, <2>2 DEF HandleAuthorized, Acknowledge
    <3> QED BY <3>1, DeliveredKeepsPayInv
  <2> QED BY <2>1, <2>2
<1>2. CASE MarkRow(a, keep)
  BY <1>2, MarkRowKeepsPayInv
<1>3. CASE HandleIgnored(a, keep)
  <2>1. UNCHANGED <<vars, pay, found, acked, offered>>
        /\ deliveries' \in {deliveries, deliveries \ {<<a, "REFUNDED">>}}
    BY <1>3 DEF HandleIgnored, Acknowledge
  <2> QED BY <2>1, DeliveredKeepsPayInv
<1> QED BY <1>1, <1>2, <1>3 DEF Handle

LEMMA PayNextInv == PayInv /\ [PayNext]_allVars => PayInv'
<1> SUFFICES ASSUME PayInv, [PayNext]_allVars PROVE PayInv'
  OBVIOUS
<1>1. CASE Next /\ UNCHANGED payVars
  BY <1>1, RegistrationKeepsPayInv
<1>2. ASSUME NEW u \in Users, NEW a \in Attempts, NEW p \in Providers, Checkout(u, a, p)
      PROVE  PayInv'
  BY <1>2, CheckoutKeepsPayInv
<1>3. ASSUME NEW a \in Attempts, Provider(a) PROVE PayInv'
  BY <1>3, ProviderKeepsPayInv
<1>4. ASSUME NEW a \in Attempts, Poll(a) PROVE PayInv'
  BY <1>4, CaptureKeepsPayInv DEF Poll
<1>5. ASSUME NEW a \in Attempts, FindRow(a) PROVE PayInv'
  BY <1>5, FindRowKeepsPayInv
<1>6. ASSUME NEW a \in Attempts, GiveUp(a) PROVE PayInv'
  BY <1>6, GiveUpKeepsPayInv
<1>7. ASSUME NEW a \in Attempts, NEW keep \in BOOLEAN, Handle(a, keep) PROVE PayInv'
  BY <1>7, HandleKeepsPayInv
<1>8. CASE WithdrawOffer
  <2>1. UNCHANGED <<vars, pay, deliveries, found, acked>> /\ offered' \in BOOLEAN
    BY <1>8 DEF WithdrawOffer
  <2>2. IInv'
    BY <2>1 DEF PayInv, IInv, TypeOK, IdsAreUnique, vars, HasRow
  <2>3. PayTypeOK' /\ UnusedIsSilent' /\ NoPaymentIsForgotten'
    BY <2>1 DEF PayInv, PayTypeOK, UnusedIsSilent, NoPaymentIsForgotten, Taken
  <2>4. HandlersKnowTheRow'
    BY <2>1 DEF PayInv, HandlersKnowTheRow, LookedUp, Taken, vars, HasRow
  <2> QED BY <2>2, <2>3, <2>4 DEF PayInv
<1>9. CASE UNCHANGED allVars
  <2>1. UNCHANGED vars /\ UNCHANGED payVars
    BY <1>9 DEF allVars, vars, payVars
  <2> QED BY <2>1, RegistrationKeepsPayInv
<1> QED BY <1>1, <1>2, <1>3, <1>4, <1>5, <1>6, <1>7, <1>8, <1>9 DEF PayNext

LEMMA PayInvariant == PaySpec => []PayInv
<1> QED BY PayInitInv, PayNextInv, PTL DEF PaySpec

-----------------------------------------------------------------------------
(* The payments keep their types, and an authorization is announced only   *)
(* by MobilePay for a payment that was approved.                           *)
THEOREM PaymentsTyped == PaySpec => []PayTypeOK
<1>1. PayInv => PayTypeOK
  BY DEF PayInv
<1> QED BY <1>1, PayInvariant, PTL

(* Money that was taken is announced until it is acknowledged, and nothing *)
(* else is: for any number of payments of any users, whatever handlers     *)
(* crash and whatever acknowledgements are lost.                           *)
THEOREM NothingIsForgotten == PaySpec => []NoPaymentIsForgotten
<1>1. PayInv => NoPaymentIsForgotten
  BY DEF PayInv
<1> QED BY <1>1, PayInvariant, PTL

(* Only MarkRow touches a row from the side of the payments.               *)
LEMMA PaymentStep ==
  ASSUME [PayNext]_allVars
  PROVE  \/ Next /\ UNCHANGED payVars
         \/ \E a \in Attempts, keep \in BOOLEAN : MarkRow(a, keep)
         \/ reg' = reg /\ acked' = acked
BY DEF PayNext, Checkout, Provider, Approve, Abandon, Refund, Poll, FindRow, GiveUp, Handle,
       HandleAuthorized, HandleIgnored, WithdrawOffer, vars, allVars

(* A registration becomes paid only by an administrator or for money taken *)
(* from its user, for that very row when the reference names one.          *)
THEOREM PaidRightfully == PaySpec => PaidOnlyByProviderOrAdmin
<1>1. PayInv /\ [PayNext]_allVars =>
        [\A u \in Users : ~reg[u].registered /\ reg'[u].registered =>
           (\E a \in Attempts : PaidFor(u, a)) \/ AdminMarks(u)]_allVars
  <2> SUFFICES ASSUME PayInv, [PayNext]_allVars, NEW u \in Users,
                      ~reg[u].registered, reg'[u].registered
               PROVE  (\E a \in Attempts : PaidFor(u, a)) \/ AdminMarks(u)
    OBVIOUS
  <2>1. CASE Next /\ UNCHANGED payVars
    <3>1. RowStep(u)
      BY <2>1, NextRowStep DEF PayInv
    <3> QED BY <2>1, <3>1 DEF RowStep, MarkedByAdmin, AdminMarks
  <2>2. ASSUME NEW a \in Attempts, NEW keep \in BOOLEAN, MarkRow(a, keep)
        PROVE  PaidFor(u, a)
    <3>1. /\ Taken(a) /\ pay[a].user \in Users /\ IsParticipant(pay[a].user)
          /\ reg' = [reg EXCEPT ![pay[a].user].registered = TRUE]
          /\ pay[a].provider = "MOBILEPAY" => pay[a].regId = reg[pay[a].user].id
      BY <2>2, MarkedRow
    <3>2. u = pay[a].user
      BY <3>1 DEF PayInv, IInv, TypeOK
    <3>3. reg[u] \in Row /\ reg'[u] = [reg[u] EXCEPT !.registered = TRUE]
      BY <3>1, <3>2 DEF PayInv, IInv, TypeOK
    <3>4. reg'[u].id = reg[u].id /\ reg'[u].type = reg[u].type
      BY <3>3 DEF Row
    <3> QED BY <3>1, <3>2, <3>4 DEF PaidFor, IsParticipant, Counts
  <2>3. CASE reg' = reg /\ acked' = acked
    BY <2>3
  <2> QED BY <2>1, <2>2, <2>3, PaymentStep
<1> QED BY <1>1, PayInvariant, PTL DEF PaySpec, PaidOnlyByProviderOrAdmin

(* The first acknowledgement of a success leaves the row of the user who   *)
(* paid marked: a handler that cannot credit the payment answers nothing.  *)
THEOREM AcknowledgedIsPaid == PaySpec => AcknowledgedMeansPaid
<1>1. PayInv /\ [PayNext]_allVars =>
        [\A a \in Attempts : a \in acked' \ acked => reg'[pay[a].user].registered]_allVars
  <2> SUFFICES ASSUME PayInv, [PayNext]_allVars, NEW a \in Attempts, a \in acked' \ acked
               PROVE  reg'[pay[a].user].registered
    OBVIOUS
  <2>1. PICK b \in Attempts, keep \in BOOLEAN : MarkRow(b, keep)
    BY PaymentStep DEF payVars
  <2>2. a = b
    BY <2>1 DEF MarkRow
  <2>3. pay[a].user \in Users /\ reg' = [reg EXCEPT ![pay[a].user].registered = TRUE]
    BY <2>1, <2>2, MarkedRow
  <2>4. reg[pay[a].user] \in Row /\ reg'[pay[a].user] = [reg[pay[a].user] EXCEPT !.registered = TRUE]
    BY <2>3 DEF PayInv, IInv, TypeOK
  <2> QED BY <2>4 DEF Row
<1> QED BY <1>1, PayInvariant, PTL DEF PaySpec, AcknowledgedMeansPaid

-----------------------------------------------------------------------------
(* What the payments do to the places                                       *)

(* A step of the payments answers for nobody: every row keeps its type.    *)
LEMMA PaymentsKeepTypes ==
  ASSUME PayInv, [PayNext]_allVars
  PROVE  \/ [Next]_vars
         \/ \A u \in Users : reg'[u].type = reg[u].type
<1>1. ASSUME NEW a \in Attempts, NEW keep \in BOOLEAN, MarkRow(a, keep), NEW u \in Users
      PROVE  reg'[u].type = reg[u].type
  <2>1. /\ pay[a].user \in Users
        /\ reg' = [reg EXCEPT ![pay[a].user].registered = TRUE]
    BY <1>1, MarkedRow
  <2>2. reg[u] \in Row /\ reg'[u] \in {reg[u], [reg[u] EXCEPT !.registered = TRUE]}
    BY <2>1 DEF PayInv, IInv, TypeOK
  <2> QED BY <2>2 DEF Row
<1> QED BY <1>1, PaymentStep

(* So nobody gains, gives up or waits for a place by it.                   *)
LEMMA PaymentsKeepPlaces ==
  ASSUME PayInv, [PayNext]_allVars
  PROVE  \/ [Next]_vars
         \/ /\ Confirmed(reg') = Confirmed(reg)
            /\ \A u \in Users : ~GivesUpPlace(u) /\ ~IsPromoted(u)
BY PaymentsKeepTypes DEF Confirmed, Counts, Counting, GivesUpPlace, IsPromoted

(* With payments of any number of users under way, and their webhooks      *)
(* between any two requests, no step overbooks the event.                  *)
THEOREM PaymentsNeverOverbook == PaySpec => NeverOverbooks
<1>1. PayInv /\ [PayNext]_allVars =>
        [Cardinality(Confirmed(reg')) > Cardinality(Confirmed(reg))
           => FitsIn(Cardinality(Confirmed(reg')), event'.max)]_vars
  <2> SUFFICES ASSUME PayInv, [PayNext]_allVars
               PROVE  [Cardinality(Confirmed(reg')) > Cardinality(Confirmed(reg))
                         => FitsIn(Cardinality(Confirmed(reg')), event'.max)]_vars
    OBVIOUS
  <2>1. CASE [Next]_vars
    BY <2>1, NoStepOverbooks DEF PayInv
  <2>2. CASE Confirmed(reg') = Confirmed(reg)
    <3>1. Cardinality(Confirmed(reg)) \in Nat
      BY UsersFinite DEF Confirmed
    <3> QED BY <2>2, <3>1
  <2> QED BY <2>1, <2>2, PaymentsKeepPlaces
<1> QED BY <1>1, PayInvariant, PTL DEF PaySpec, NeverOverbooks

(* A place given up while payments are under way is offered in the same    *)
(* transaction, and no webhook takes one away.                             *)
THEOREM PayingKeepsPlacesOffered == PaySpec => FreedPlaceIsOffered
<1>1. PayInv /\ [PayNext]_allVars =>
        [\A u \in Users : GivesUpPlace(u) =>
           \/ Waiting(reg') \subseteq {u}
           \/ ~FitsIn(Cardinality(Confirmed(reg')) + 1, event'.max)
           \/ DeleteUser(u)]_vars
  <2> SUFFICES ASSUME PayInv, [PayNext]_allVars, NEW u \in Users, GivesUpPlace(u)
               PROVE  \/ Waiting(reg') \subseteq {u}
                      \/ ~FitsIn(Cardinality(Confirmed(reg')) + 1, event'.max)
                      \/ DeleteUser(u)
    OBVIOUS
  <2>1. [Next]_vars /\ IInv
    BY PaymentsKeepPlaces DEF PayInv
  <2>2. vars' # vars
    BY DEF GivesUpPlace, vars
  <2> QED BY <2>1, <2>2, StepOffersPlaces
<1> QED BY <1>1, PayInvariant, PTL DEF PaySpec, FreedPlaceIsOffered

(* And nobody is promoted out of turn for having paid.                     *)
THEOREM PayingJumpsNoQueue == PaySpec => PromotedInOrder
<1>1. PayInv /\ [PayNext]_allVars =>
        [\A u, v \in Users : IsPromoted(u) /\ StillWaits(v)
            => reg[u].id < reg[v].id \/ Registering(u)]_vars
  <2> SUFFICES ASSUME PayInv, [PayNext]_allVars, NEW u \in Users, NEW v \in Users,
                      IsPromoted(u), StillWaits(v)
               PROVE  reg[u].id < reg[v].id \/ Registering(u)
    OBVIOUS
  <2>1. [Next]_vars /\ IInv
    BY PaymentsKeepPlaces DEF PayInv
  <2> QED BY <2>1, NextOthers DEF InOrder
<1> QED BY <1>1, PayInvariant, PTL DEF PaySpec, PromotedInOrder

=============================================================================
