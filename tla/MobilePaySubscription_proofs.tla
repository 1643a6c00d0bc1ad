---------------------- MODULE MobilePaySubscription_proofs ----------------------
(***************************************************************************)
(* Proofs about MobilePaySubscription, for every set of agreements,        *)
(* requests and handlers and any number of events: nobody is credited for  *)
(* an agreement that was never charged, a closed subscription stays closed *)
(* and the row never goes back to an older event.                          *)
(***************************************************************************)
EXTENDS MobilePaySubscription, TLAPS

(* What a request in progress may rely on: the steps that work on a        *)
(* subscription track a row, the steps that write one find it there, the   *)
(* status to be stored and the reference are known when they are needed,   *)
(* and an answer that says active was given after the first charge.        *)
Sound(q) ==
  /\ q.pc \in {"read", "commit", "abandon", "stop", "cancel"} => q.seen # NoRow
  /\ q.pc \in {"terminate", "create", "save"} \/ q.seen # NoRow => row # NoRow
  /\ q.pc = "commit" => q.status \in {"ACTIVE"} \cup TerminalStatuses
  /\ q.pc = "terminate" => q.status \in TerminalStatuses
  /\ q.pc \in {"reserve", "create", "save"} => q.of \in Agreements
  /\ q.pc = "commit" /\ q.status = "ACTIVE" => agr[q.seen.id.of].charged
RequestsAreSound == \A r \in Requests : Sound(req[r])

(* A delivery is handled only when its row was found, and an agreement is  *)
(* active only after its first charge.                                     *)
HandlersFoundTheRow == \A h \in Handlers : hook[h] # None => row # NoRow
ActiveWasCharged == \A a \in Agreements : agr[a].state = "ACTIVE" => agr[a].charged

(* The invariant that is inductive.                                        *)
IInv ==
  /\ TypeOK
  /\ RequestsAreSound /\ HandlersFoundTheRow
  /\ ActiveWasCharged /\ CreditedWasCharged

(* What no step may do: lose the row, forget a charge, or let an agreement *)
(* be active that was not charged.                                         *)
RowStays == row' \in Row \cup {NoRow} /\ (row # NoRow => row' # NoRow)
ChargesStay ==
  /\ agr' \in [Agreements -> AgreementRecord]
  /\ \A a \in Agreements :
       /\ agr[a].charged => agr'[a].charged
       /\ agr'[a].state = "ACTIVE" => agr[a].state = "ACTIVE" \/ agr'[a].charged

-----------------------------------------------------------------------------
(* The row                                                                  *)

LEMMA NoRowIsNoRow == NoRow \notin Row
BY DEF NoRow, Row, OpenStatuses, TerminalStatuses

(* SaveChangesAsync writes a row, and a column as it is unless it differs  *)
(* from the one that is tracked.                                           *)
LEMMA WrittenIsARow ==
  ASSUME NEW seen \in Row, NEW new \in Row, row \in Row
  PROVE  /\ Written(seen, new) \in Row
         /\ Written(seen, new).status = IF new.status # seen.status THEN new.status ELSE row.status
         /\ Written(seen, new).last = IF new.last # seen.last THEN new.last ELSE row.last
<1> DEFINE w == Written(seen, new)
<1>1. DOMAIN new = {"id", "status", "last"}
  BY DEF Row
<1>2. /\ w.id = IF new.id # seen.id THEN new.id ELSE row.id
      /\ w.status = IF new.status # seen.status THEN new.status ELSE row.status
      /\ w.last = IF new.last # seen.last THEN new.last ELSE row.last
  BY <1>1 DEF Written
<1>3. w = [id |-> w.id, status |-> w.status, last |-> w.last]
  BY <1>1 DEF Written
<1>4. w \in Row
  BY <1>2, <1>3 DEF Row
<1> QED BY <1>2, <1>4

LEMMA ReservedIsARow ==
  ASSUME NEW a \in Agreements
  PROVE  Reserved(a) \in Row /\ Reserved(a).last = None
BY DEF Reserved, Row, Pending, Ids, OpenStatuses

-----------------------------------------------------------------------------
(* How the parts of the invariant carry over                                *)

LEMMA InitEstablishes == Init => IInv
<1> SUFFICES ASSUME Init PROVE IInv
  OBVIOUS
<1> USE DEF Init
<1>1. row \in Row \cup {NoRow}
  <2>1. CASE row = NoRow
    BY <2>1
  <2>2. CASE row # NoRow
    <3>1. PICK a \in Agreements : row = [Reserved(a) EXCEPT !.status = "EXPIRED"]
      BY <2>2
    <3> QED BY <3>1, ReservedIsARow DEF Row, TerminalStatuses
  <2> QED BY <2>1, <2>2
<1>2. agr \in [Agreements -> AgreementRecord] /\ now \in 0 .. MaxTime
  BY MaxTimeAssumption DEF AgreementRecord, AgreementStates
<1>3. TypeOK
  BY <1>1, <1>2 DEF TypeOK
<1>4. RequestsAreSound
  BY DEF RequestsAreSound, Sound, Idle
<1>5. HandlersFoundTheRow /\ ActiveWasCharged /\ CreditedWasCharged
  BY DEF HandlersFoundTheRow, ActiveWasCharged, CreditedWasCharged
<1> QED BY <1>3, <1>4, <1>5 DEF IInv

(* What is true of a request stays true while others act.                  *)
LEMMA SoundStays ==
  ASSUME IInv, RowStays, ChargesStay, NEW q \in Request \cup {Idle}, Sound(q)
  PROVE  Sound(q)'
<1>1. ASSUME q.pc = "commit" PROVE q.seen.id.of \in Agreements
  <2>1. q \in Request /\ q.seen \in Row
    BY <1>1 DEF Sound, Request, Idle
  <2> QED BY <2>1 DEF Row, Ids
<1> QED BY <1>1 DEF Sound, RowStays, ChargesStay

(* A step of MobilePay or a handler leaves the requests sound.             *)
LEMMA RequestsStay ==
  ASSUME IInv, RowStays, ChargesStay, UNCHANGED req
  PROVE  RequestsAreSound'
<1> SUFFICES ASSUME NEW r \in Requests PROVE Sound(req[r])'
  BY DEF RequestsAreSound
<1>1. req[r] \in Request \cup {Idle} /\ Sound(req[r])
  BY DEF IInv, TypeOK, RequestsAreSound
<1> DEFINE q == req[r]
<1> QED BY <1>1, SoundStays DEF Sound

(* A step of one request: it has to leave that one sound.                  *)
LEMMA RequestPreserves ==
  ASSUME IInv, NEW r \in Requests, RowStays, ChargesStay,
         \E q \in Request \cup {Idle} : Proceed(r, q) /\ Sound(q)',
         paid' \in BOOLEAN, now' \in 0 .. MaxTime, deliveries' \subseteq Event,
         UNCHANGED hook, credited' \subseteq Agreements,
         \A a \in credited' \ credited : agr'[a].charged
  PROVE  IInv'
<1>1. PICK q \in Request \cup {Idle} : Proceed(r, q) /\ Sound(q)'
  OBVIOUS
<1>2. req' = [req EXCEPT ![r] = q] /\ req \in [Requests -> Request \cup {Idle}]
  BY <1>1 DEF Proceed, IInv, TypeOK
<1>3. TypeOK'
  BY <1>2 DEF IInv, TypeOK, RowStays, ChargesStay
<1>4. RequestsAreSound'
  <2> SUFFICES ASSUME NEW s \in Requests PROVE Sound(req[s])'
    BY DEF RequestsAreSound
  <2>1. CASE s = r
    BY <1>1, <1>2, <2>1 DEF Sound
  <2>2. CASE s # r
    <3>1. req[s] \in Request \cup {Idle} /\ Sound(req[s]) /\ req'[s] = req[s]
      BY <1>2, <2>2 DEF IInv, RequestsAreSound
    <3> DEFINE p == req[s]
    <3> QED BY <3>1, SoundStays DEF Sound
  <2> QED BY <2>1, <2>2
<1>5. HandlersFoundTheRow' /\ ActiveWasCharged' /\ CreditedWasCharged'
  BY DEF IInv, HandlersFoundTheRow, ActiveWasCharged, CreditedWasCharged, RowStays, ChargesStay, TypeOK
<1> QED BY <1>3, <1>4, <1>5 DEF IInv

(* A step of one request that writes nothing but its own state.            *)
LEMMA RequestOnlyPreserves ==
  ASSUME IInv, NEW r \in Requests, UNCHANGED <<row, paid, Outside>>,
         \E q \in Request \cup {Idle} : Proceed(r, q) /\ Sound(q)
  PROVE  IInv'
<1>1. RowStays /\ ChargesStay
  BY DEF Outside, RowStays, ChargesStay, IInv, TypeOK
<1>2. \E q \in Request \cup {Idle} : Proceed(r, q) /\ Sound(q)'
  BY DEF Outside, Sound
<1> QED BY <1>1, <1>2, RequestPreserves DEF Outside, IInv, TypeOK

-----------------------------------------------------------------------------
(* Requests of the member                                                   *)

LEMMA IdleIsSound == Idle \in Request \cup {Idle} /\ Sound(Idle)
BY DEF Idle, Sound

LEMMA SubscribePreserves ==
  ASSUME IInv, NEW r \in Requests, Subscribe(r)
  PROVE  IInv'
<1>1. CASE Open(row) /\ ~IsPendingAgreement(row)
  <2>1. row \in Row
    BY <1>1 DEF IInv, TypeOK, Open, NoRow, OpenStatuses
  <2>2. Proceed(r, Checkout("read", row))
    BY <1>1 DEF Subscribe
  <2>3. Checkout("read", row) \in Request /\ Sound(Checkout("read", row))
    BY <2>1, NoRowIsNoRow DEF Checkout, Idle, Request, Steps, Sound
  <2> QED BY <2>2, <2>3, RequestOnlyPreserves DEF Subscribe
<1>2. CASE ~(Open(row) /\ ~IsPendingAgreement(row))
  <2> DEFINE seen == IF Open(row) THEN row ELSE NoRow
  <2>1. seen \in Row \cup {NoRow} /\ (seen # NoRow => row # NoRow)
    BY DEF IInv, TypeOK
  <2>2. Proceed(r, Checkout("check", seen))
    BY <1>2 DEF Subscribe
  <2> HIDE DEF seen
  <2>3. Checkout("check", seen) \in Request /\ Sound(Checkout("check", seen))
    BY <2>1 DEF Checkout, Idle, Request, Steps, Sound
  <2> QED BY <2>2, <2>3, RequestOnlyPreserves DEF Subscribe
<1> QED BY <1>1, <1>2

(* What PayOnce and Cancel begin with.                                     *)
LEMMA BeginAbandonIsSound ==
  ASSUME IInv, NEW r \in Requests, row.status = "PENDING", BeginAbandon(r)
  PROVE  \E q \in Request \cup {Idle} : Proceed(r, q) /\ Sound(q)
<1>1. row \in Row /\ row # NoRow
  BY NoRowIsNoRow DEF IInv, TypeOK, NoRow
<1>2. CASE IsPendingAgreement(row)
  <2> DEFINE q == [Other("terminate", NoRow) EXCEPT !.status = "EXPIRED"]
  <2>1. q \in Request /\ Sound(q)
    BY <1>1 DEF Other, Idle, Request, Steps, Sound, TerminalStatuses
  <2> QED BY <1>2, <2>1 DEF BeginAbandon
<1>3. CASE ~IsPendingAgreement(row)
  <2> DEFINE q == Other("abandon", row)
  <2>1. q \in Request /\ Sound(q)
    BY <1>1 DEF Other, Idle, Request, Steps, Sound
  <2> QED BY <1>3, <2>1 DEF BeginAbandon
<1> QED BY <1>2, <1>3

LEMMA PayOncePreserves ==
  ASSUME IInv, NEW r \in Requests, PayOnce(r)
  PROVE  IInv'
BY BeginAbandonIsSound, RequestOnlyPreserves DEF PayOnce

(* A request that begins with the subscription that has an agreement.      *)
LEMMA OtherIsSound ==
  ASSUME IInv, HasAgreement(row), NEW pc \in {"read", "stop"}
  PROVE  Other(pc, row) \in Request /\ Sound(Other(pc, row))
<1>1. row \in Row /\ row # NoRow
  BY DEF IInv, TypeOK, HasAgreement
<1> QED BY <1>1 DEF Other, Idle, Request, Steps, Sound

LEMMA ViewPreserves ==
  ASSUME IInv, NEW r \in Requests, View(r)
  PROVE  IInv'
BY OtherIsSound, RequestOnlyPreserves DEF View

LEMMA CancelPreserves ==
  ASSUME IInv, NEW r \in Requests, Cancel(r)
  PROVE  IInv'
<1>1. CASE row.status = "PENDING"
  BY <1>1, BeginAbandonIsSound, RequestOnlyPreserves DEF Cancel
<1>2. CASE row.status # "PENDING"
  BY <1>2, OtherIsSound, RequestOnlyPreserves DEF Cancel
<1> QED BY <1>1, <1>2

(* A request at work, as the invariant knows it.                           *)
LEMMA AtWork ==
  ASSUME IInv, NEW r \in Requests, ~At(r, "idle")
  PROVE  req[r] \in Request /\ Sound(req[r])
BY DEF IInv, TypeOK, RequestsAreSound, At, Idle

(* A request that works on a subscription tracks one with an agreement.    *)
LEMMA Tracked ==
  ASSUME IInv, NEW r \in Requests,
         req[r].pc \in {"read", "commit", "abandon", "stop", "cancel"}
  PROVE  req[r].seen \in Row /\ req[r].seen.id.of \in Agreements /\ row \in Row
<1>1. req[r] \in Request /\ Sound(req[r])
  BY AtWork DEF At
<1>2. req[r].seen \in Row /\ row \in Row
  BY <1>1 DEF Request, Sound, IInv, TypeOK
<1> QED BY <1>2 DEF Row, Ids

LEMMA ReadAgreementPreserves ==
  ASSUME IInv, NEW r \in Requests, ReadAgreement(r)
  PROVE  IInv'
<1>1. req[r] \in Request /\ Sound(req[r]) /\ req[r].pc = "read"
  BY AtWork DEF ReadAgreement, At
<1>2. req[r].seen \in Row /\ req[r].seen # NoRow /\ row # NoRow
      /\ req[r].seen.id.of \in Agreements
  BY <1>1, Tracked DEF Sound
<1>3. PICK answer \in {agr[req[r].seen.id.of].state, "UNAVAILABLE"} :
        LET status == LocalStatus(answer)
            next == IF req[r].seen.status = "PENDING" THEN "abandon" ELSE "check"
        IN  CASE status # None -> req' = [req EXCEPT ![r].pc = "commit", ![r].status = status]
              [] status = None /\ req[r].checkout -> req' = [req EXCEPT ![r].pc = next]
              [] OTHER -> Finish(r)
  BY DEF ReadAgreement
<1> DEFINE status == LocalStatus(answer)
<1>4. CASE status # None
  <2> DEFINE q == [req[r] EXCEPT !.pc = "commit", !.status = status]
  <2>1. status \in {"ACTIVE"} \cup TerminalStatuses
    BY <1>4 DEF LocalStatus, TerminalStatuses
  <2>2. status = "ACTIVE" => agr[req[r].seen.id.of].state = "ACTIVE"
    BY <1>4 DEF LocalStatus
  <2>3. Proceed(r, q)
    BY <1>3, <1>4 DEF Proceed
  <2> HIDE DEF status
  <2>4. q \in Request /\ Sound(q)
    BY <1>1, <1>2, <2>1, <2>2 DEF Request, Steps, Sound, TerminalStatuses, OpenStatuses,
       IInv, ActiveWasCharged
  <2> QED BY <2>3, <2>4, RequestOnlyPreserves DEF ReadAgreement
<1>5. CASE status = None /\ req[r].checkout
  <2> DEFINE next == IF req[r].seen.status = "PENDING" THEN "abandon" ELSE "check"
             q == [req[r] EXCEPT !.pc = next]
  <2>1. next \in {"abandon", "check"}
    OBVIOUS
  <2>2. Proceed(r, q)
    BY <1>3, <1>5 DEF Proceed
  <2> HIDE DEF next
  <2>3. q \in Request /\ Sound(q)
    BY <1>1, <1>2, <2>1 DEF Request, Steps, Sound
  <2> QED BY <2>2, <2>3, RequestOnlyPreserves DEF ReadAgreement
<1>6. CASE status = None /\ ~req[r].checkout
  BY <1>3, <1>6, IdleIsSound, RequestOnlyPreserves DEF ReadAgreement, Finish
<1> QED BY <1>4, <1>5, <1>6

LEMMA AbandonFailsPreserves ==
  ASSUME IInv, NEW r \in Requests, AbandonFails(r)
  PROVE  IInv'
<1>1. req[r] \in Request /\ Sound(req[r]) /\ req[r].pc = "abandon"
  BY AtWork DEF AbandonFails, At
<1> DEFINE q == [req[r] EXCEPT !.pc = "check"]
<1>2. q \in Request /\ Sound(q)
  BY <1>1 DEF Request, Steps, Sound
<1>3. Proceed(r, q) \/ Proceed(r, Idle)
  BY DEF AbandonFails
<1> HIDE DEF q
<1> QED BY <1>2, <1>3, IdleIsSound, RequestOnlyPreserves DEF AbandonFails

LEMMA CheckPreserves ==
  ASSUME IInv, NEW r \in Requests, Check(r)
  PROVE  IInv'
<1>1. req[r] \in Request /\ Sound(req[r]) /\ req[r].pc = "check"
  BY AtWork DEF Check, At
<1> DEFINE seen == req[r].seen
           new == IF seen = NoRow THEN row ELSE seen
<1>2. new \in Row \cup {NoRow} /\ (new # NoRow => row # NoRow)
  BY <1>1 DEF Request, Sound, IInv, TypeOK
<1>3. CASE Finish(r)
  BY <1>3, IdleIsSound, RequestOnlyPreserves DEF Check, Finish
<1>4. CASE \E a \in Agreements :
             req' = [req EXCEPT ![r].pc = "reserve", ![r].of = a, ![r].seen = new]
  <2>1. PICK a \in Agreements :
          req' = [req EXCEPT ![r].pc = "reserve", ![r].of = a, ![r].seen = new]
    BY <1>4
  <2> HIDE DEF new
  <2> DEFINE q == [req[r] EXCEPT !.pc = "reserve", !.of = a, !.seen = new]
  <2>2. Proceed(r, q)
    BY <2>1 DEF Proceed
  <2>3. q \in Request /\ Sound(q)
    BY <1>1, <1>2 DEF Request, Steps, Sound
  <2> QED BY <2>2, <2>3, RequestOnlyPreserves DEF Check
<1> QED BY <1>3, <1>4 DEF Check

LEMMA AbortPreserves ==
  ASSUME IInv, NEW r \in Requests, Abort(r)
  PROVE  IInv'
BY IdleIsSound, RequestOnlyPreserves DEF Abort, Finish

(* A checkout that goes on tracks the row as it was written.               *)
LEMMA GoOnIsSound ==
  ASSUME IInv, NEW r \in Requests, RowStays, GoOn(r)
  PROVE  \E q \in Request \cup {Idle} : Proceed(r, q) /\ Sound(q)'
<1>1. PICK new \in Row \cup {NoRow} : new = row'
  BY DEF RowStays
<1>2. CASE req[r].checkout
  <2> DEFINE q == Checkout("check", new)
  <2>1. q \in Request /\ q.pc = "check" /\ q.seen = new
    BY DEF Checkout, Idle, Request, Steps
  <2>2. Proceed(r, q)
    BY <1>1, <1>2 DEF GoOn
  <2> HIDE DEF q
  <2>3. Sound(q)'
    BY <1>1, <2>1 DEF Sound
  <2> QED BY <2>1, <2>2, <2>3
<1>3. CASE ~req[r].checkout
  BY <1>3, IdleIsSound DEF GoOn, Sound, Idle
<1> QED BY <1>2, <1>3

LEMMA CommitReconcilePreserves ==
  ASSUME IInv, NEW r \in Requests, CommitReconcile(r)
  PROVE  IInv'
<1>1. req[r] \in Request /\ Sound(req[r]) /\ req[r].pc = "commit"
  BY AtWork DEF CommitReconcile, At
<1>2. row \in Row /\ req[r].seen.id.of \in Agreements
  BY <1>1, Tracked
<1>3. RowStays
  BY <1>1, <1>2, NoRowIsNoRow DEF CommitReconcile, RowStays, Row, Sound, TerminalStatuses, OpenStatuses
<1>4. ChargesStay
  BY DEF CommitReconcile, ChargesStay, IInv, TypeOK
<1>5. \A a \in credited' \ credited : agr'[a].charged
  BY <1>1 DEF CommitReconcile, Sound
<1>6. credited' \subseteq Agreements /\ paid' \in BOOLEAN
  BY <1>2 DEF CommitReconcile, IInv, TypeOK
<1>7. \E q \in Request \cup {Idle} : Proceed(r, q) /\ Sound(q)'
  BY <1>3, GoOnIsSound DEF CommitReconcile
<1> QED BY <1>3, <1>4, <1>5, <1>6, <1>7, RequestPreserves DEF CommitReconcile, IInv, TypeOK

LEMMA MarkTerminalPreserves ==
  ASSUME IInv, NEW r \in Requests, MarkTerminal(r)
  PROVE  IInv'
<1>1. req[r] \in Request /\ Sound(req[r]) /\ req[r].pc = "terminate"
  BY AtWork DEF MarkTerminal, At
<1>2. row \in Row
  BY <1>1 DEF Sound, IInv, TypeOK
<1>3. RowStays
  BY <1>1, <1>2, NoRowIsNoRow DEF MarkTerminal, RowStays, Row, Sound, TerminalStatuses
<1>4. ChargesStay
  BY DEF MarkTerminal, Outside, ChargesStay, IInv, TypeOK
<1>5. \E q \in Request \cup {Idle} : Proceed(r, q) /\ Sound(q)'
  BY <1>3, GoOnIsSound DEF MarkTerminal
<1> QED BY <1>3, <1>4, <1>5, RequestPreserves DEF MarkTerminal, Outside, IInv, TypeOK

(* Stopping an agreement announces that and takes its charge away.         *)
LEMMA StopAgreementTyped ==
  ASSUME IInv, NEW a \in Agreements, StopAgreement(a)
  PROVE  ChargesStay /\ now' \in 0 .. MaxTime /\ deliveries' \subseteq Event
<1>1. CASE Live(a)
  <2>1. now \in 0 .. MaxTime /\ now < MaxTime /\ now' = now + 1
    BY <1>1 DEF StopAgreement, Announce, IInv, TypeOK
  <2>2. now' \in 0 .. MaxTime
    BY <2>1, MaxTimeAssumption
  <2>3. [agreement |-> a, name |-> "stopped", at |-> now + 1] \in Event
    BY <2>1, <2>2 DEF Event, Names
  <2>4. deliveries' \subseteq Event
    BY <1>1, <2>3 DEF StopAgreement, Announce, IInv, TypeOK
  <2>5. agr \in [Agreements -> AgreementRecord]
        /\ agr' = [agr EXCEPT ![a].state = "STOPPED", ![a].scheduled = FALSE]
    BY <1>1 DEF StopAgreement, Stopped, IInv, TypeOK
  <2>6. ChargesStay
    BY <2>5 DEF ChargesStay, AgreementRecord, AgreementStates
  <2> QED BY <2>2, <2>4, <2>6
<1>2. CASE ~Live(a)
  BY <1>2 DEF StopAgreement, ChargesStay, IInv, TypeOK
<1> QED BY <1>1, <1>2

LEMMA AbandonAgreementPreserves ==
  ASSUME IInv, NEW r \in Requests, AbandonAgreement(r)
  PROVE  IInv'
<1>1. req[r] \in Request /\ Sound(req[r]) /\ req[r].pc = "abandon"
  BY AtWork DEF AbandonAgreement, At
<1>2. row \in Row /\ req[r].seen.id.of \in Agreements
  BY <1>1, Tracked
<1>3. RowStays
  BY <1>2 DEF AbandonAgreement, RowStays
<1>4. ChargesStay /\ now' \in 0 .. MaxTime /\ deliveries' \subseteq Event
  BY <1>2, StopAgreementTyped DEF AbandonAgreement
<1> DEFINE status == IF agr[req[r].seen.id.of].state = "EXPIRED" THEN "EXPIRED" ELSE "CANCELED"
<1>5. status \in TerminalStatuses
  BY DEF TerminalStatuses
<1>6. Proceed(r, [req[r] EXCEPT !.pc = "terminate", !.seen = NoRow, !.status = status])
  BY DEF AbandonAgreement
<1> HIDE DEF status
<1>7. PICK q : q = [req[r] EXCEPT !.pc = "terminate", !.seen = NoRow, !.status = status]
  OBVIOUS
<1>8. q \in Request /\ q.pc = "terminate" /\ q.seen = NoRow /\ q.status \in TerminalStatuses
  BY <1>1, <1>5, <1>7 DEF Request, Steps, TerminalStatuses
<1>9. Sound(q)'
  BY <1>2, <1>8, NoRowIsNoRow DEF Sound, AbandonAgreement
<1> QED BY <1>3, <1>4, <1>6, <1>7, <1>8, <1>9, RequestPreserves DEF AbandonAgreement, IInv, TypeOK

LEMMA CancelAgreementPreserves ==
  ASSUME IInv, NEW r \in Requests, CancelAgreement(r)
  PROVE  IInv'
<1>1. req[r] \in Request /\ Sound(req[r]) /\ req[r].pc = "stop"
  BY AtWork DEF CancelAgreement, At
<1>2. row \in Row /\ req[r].seen.id.of \in Agreements
  BY <1>1, Tracked
<1>3. RowStays
  BY <1>2 DEF CancelAgreement, RowStays
<1>4. ChargesStay /\ now' \in 0 .. MaxTime /\ deliveries' \subseteq Event
  BY <1>2, StopAgreementTyped DEF CancelAgreement
<1>5. PICK q : q = [req[r] EXCEPT !.pc = "cancel"]
  OBVIOUS
<1>6. q \in Request /\ q.pc = "cancel" /\ q.seen = req[r].seen /\ Proceed(r, q)
  BY <1>1, <1>5 DEF Request, Steps, CancelAgreement, Proceed
<1>7. Sound(q)'
  BY <1>1, <1>6 DEF Sound, CancelAgreement
<1> QED BY <1>3, <1>4, <1>6, <1>7, RequestPreserves DEF CancelAgreement, IInv, TypeOK

LEMMA ReservePreserves ==
  ASSUME IInv, NEW r \in Requests, Reserve(r)
  PROVE  IInv'
<1>1. req[r] \in Request /\ Sound(req[r]) /\ req[r].pc = "reserve"
  BY AtWork DEF Reserve, At
<1> DEFINE seen == req[r].seen
<1>2. seen \in Row \cup {NoRow} /\ (seen # NoRow => row \in Row)
  BY <1>1 DEF Request, Sound, IInv, TypeOK
<1>3. Reserved(req[r].of) \in Row
  BY <1>1, ReservedIsARow DEF Sound
<1>4. ChargesStay
  BY DEF Reserve, Outside, ChargesStay, IInv, TypeOK
<1>5. CASE seen = NoRow /\ row # NoRow
  BY <1>5, IdleIsSound, RequestOnlyPreserves DEF Reserve, Finish
<1>6. CASE ~(seen = NoRow /\ row # NoRow)
  <2>1. row' \in Row
    BY <1>2, <1>3, <1>6, WrittenIsARow DEF Reserve
  <2>2. RowStays
    BY <2>1, NoRowIsNoRow DEF RowStays
  <2>3. PICK q : q = [req[r] EXCEPT !.pc = "create", !.seen = NoRow]
    OBVIOUS
  <2>4. q \in Request /\ q.pc = "create" /\ q.seen = NoRow /\ q.of = req[r].of
    BY <1>1, <2>3 DEF Request, Steps
  <2>5. Proceed(r, q)
    BY <1>6, <2>3 DEF Reserve
  <2>6. Sound(q)'
    BY <1>1, <2>1, <2>4, NoRowIsNoRow DEF Sound
  <2> QED BY <1>4, <2>2, <2>4, <2>5, <2>6, RequestPreserves DEF Reserve, Outside, IInv, TypeOK
<1> QED BY <1>5, <1>6

LEMMA CreatePreserves ==
  ASSUME IInv, NEW r \in Requests, Create(r)
  PROVE  IInv'
<1>1. req[r] \in Request /\ Sound(req[r]) /\ req[r].pc = "create"
  BY AtWork DEF Create, At
<1> DEFINE a == req[r].of
<1>2. row # NoRow /\ a \in Agreements
  BY <1>1 DEF Sound
<1>3. RowStays
  BY DEF Create, RowStays, IInv, TypeOK
<1>4. agr \in [Agreements -> AgreementRecord]
      /\ agr' = [agr EXCEPT ![a].state = IF agr[a].state = "NONE" THEN "PENDING" ELSE agr[a].state]
  BY DEF Create, IInv, TypeOK
<1>5. ChargesStay
  BY <1>2, <1>4 DEF ChargesStay, AgreementRecord, AgreementStates
<1>6. PICK q : q = [req[r] EXCEPT !.pc = "save"]
  OBVIOUS
<1>7. q \in Request /\ q.pc = "save" /\ q.seen = req[r].seen /\ q.of = a /\ Proceed(r, q)
  BY <1>1, <1>6 DEF Request, Steps, Create, Proceed
<1>8. Sound(q)'
  BY <1>1, <1>2, <1>7 DEF Sound, Create
<1> QED BY <1>3, <1>5, <1>7, <1>8, RequestPreserves DEF Create, IInv, TypeOK

(* A request that ends with a write of the row.                            *)
LEMMA LastWritePreserves ==
  ASSUME IInv, NEW r \in Requests, row' \in Row, Finish(r), UNCHANGED <<paid, Outside>>
  PROVE  IInv'
<1>1. RowStays /\ ChargesStay
  BY NoRowIsNoRow DEF RowStays, Outside, ChargesStay, IInv, TypeOK
<1>2. \E q \in Request \cup {Idle} : Proceed(r, q) /\ Sound(q)'
  BY IdleIsSound DEF Finish, Sound, Idle
<1> QED BY <1>1, <1>2, RequestPreserves DEF Outside, IInv, TypeOK

LEMMA SaveIdPreserves ==
  ASSUME IInv, NEW r \in Requests, SaveId(r)
  PROVE  IInv'
<1>1. req[r] \in Request /\ Sound(req[r]) /\ req[r].pc = "save"
  BY AtWork DEF SaveId, At
<1>2. row \in Row /\ Agreement(req[r].of) \in Ids
  BY <1>1 DEF Sound, IInv, TypeOK, Agreement, Ids
<1>3. row' \in Row
  BY <1>2 DEF SaveId, Row
<1> QED BY <1>3, LastWritePreserves DEF SaveId

LEMMA SaveCancelPreserves ==
  ASSUME IInv, NEW r \in Requests, SaveCancel(r)
  PROVE  IInv'
<1>1. req[r].seen \in Row /\ row \in Row
  BY Tracked DEF SaveCancel, At
<1>2. [req[r].seen EXCEPT !.status = "CANCELED"] \in Row
  BY <1>1 DEF Row, TerminalStatuses
<1>3. row' \in Row
  BY <1>1, <1>2, WrittenIsARow DEF SaveCancel
<1> QED BY <1>3, LastWritePreserves DEF SaveCancel

LEMMA StepPreserves ==
  ASSUME IInv, NEW r \in Requests, Step(r)
  PROVE  IInv'
BY SubscribePreserves, PayOncePreserves, ViewPreserves, CancelPreserves,
   ReadAgreementPreserves, CommitReconcilePreserves, AbandonAgreementPreserves,
   AbandonFailsPreserves, MarkTerminalPreserves, CheckPreserves, ReservePreserves,
   CreatePreserves, SaveIdPreserves, CancelAgreementPreserves, SaveCancelPreserves,
   AbortPreserves
   DEF Step

-----------------------------------------------------------------------------
(* MobilePay and the webhooks                                               *)

(* A step of MobilePay: it announces events and keeps what was charged.    *)
LEMMA OutsidePreserves ==
  ASSUME IInv, ChargesStay, now' \in 0 .. MaxTime, deliveries' \subseteq Event,
         UNCHANGED <<row, paid, req, hook, credited>>
  PROVE  IInv'
<1>1. RowStays
  BY DEF RowStays, IInv, TypeOK
<1>2. RequestsAreSound'
  BY <1>1, RequestsStay
<1>3. TypeOK'
  BY DEF IInv, TypeOK, ChargesStay
<1>4. HandlersFoundTheRow' /\ ActiveWasCharged' /\ CreditedWasCharged'
  BY DEF IInv, TypeOK, HandlersFoundTheRow, ActiveWasCharged, CreditedWasCharged, ChargesStay
<1> QED BY <1>2, <1>3, <1>4 DEF IInv

LEMMA AnnounceTyped ==
  ASSUME IInv, NEW a \in Agreements, NEW name \in Names, Announce(a, name)
  PROVE  now' \in 0 .. MaxTime /\ deliveries' \subseteq Event
<1>1. now + 1 \in 0 .. MaxTime
  BY MaxTimeAssumption DEF Announce, IInv, TypeOK
<1>2. [agreement |-> a, name |-> name, at |-> now + 1] \in Event
  BY <1>1 DEF Event
<1> QED BY <1>1, <1>2 DEF Announce, IInv, TypeOK

LEMMA AcceptPreserves ==
  ASSUME IInv, NEW a \in Agreements, Accept(a)
  PROVE  IInv'
<1>1. now \in 0 .. MaxTime /\ now + 1 \in 0 .. MaxTime /\ now' = now + 1
  BY MaxTimeAssumption DEF Accept, IInv, TypeOK
<1>2. \A t \in {now, now + 1}, name \in {"captured", "activated"} :
        [agreement |-> a, name |-> name, at |-> t] \in Event
  BY <1>1 DEF Event, Names
<1>3. deliveries' \subseteq Event
  BY <1>2 DEF Accept, IInv, TypeOK
<1>4. agr \in [Agreements -> AgreementRecord]
      /\ agr' = [agr EXCEPT ![a].state = "ACTIVE", ![a].charged = TRUE]
  BY DEF Accept, IInv, TypeOK
<1>5. ChargesStay
  BY <1>4 DEF ChargesStay, AgreementRecord, AgreementStates
<1> QED BY <1>1, <1>3, <1>5, OutsidePreserves DEF Accept

LEMMA DeclinePreserves ==
  ASSUME IInv, NEW a \in Agreements, Decline(a)
  PROVE  IInv'
<1>1. now' \in 0 .. MaxTime /\ deliveries' \subseteq Event
  BY AnnounceTyped DEF Decline, Names
<1>2. agr \in [Agreements -> AgreementRecord] /\ agr' = [agr EXCEPT ![a].state = "EXPIRED"]
  BY DEF Decline, IInv, TypeOK
<1>3. ChargesStay
  BY <1>2 DEF ChargesStay, AgreementRecord, AgreementStates
<1> QED BY <1>1, <1>3, OutsidePreserves DEF Decline

LEMMA ChargeDuePreserves ==
  ASSUME IInv, NEW a \in Agreements, ChargeDue(a)
  PROVE  IInv'
<1>1. now' \in 0 .. MaxTime /\ deliveries' \subseteq Event
  BY AnnounceTyped DEF ChargeDue, Names
<1>2. agr \in [Agreements -> AgreementRecord] /\ agr' = [agr EXCEPT ![a].scheduled = FALSE]
  BY DEF ChargeDue, IInv, TypeOK
<1>3. ChargesStay
  BY <1>2 DEF ChargesStay, AgreementRecord
<1> QED BY <1>1, <1>3, OutsidePreserves DEF ChargeDue

LEMMA StopInAppPreserves ==
  ASSUME IInv, NEW a \in Agreements, StopInApp(a)
  PROVE  IInv'
<1>1. StopAgreement(a)
  BY DEF StopInApp, StopAgreement, Live
<1> QED BY <1>1, StopAgreementTyped, OutsidePreserves DEF StopInApp

(* An event that a handler works on, and the row it has found.             *)
LEMMA Handled ==
  ASSUME IInv, NEW h \in Handlers, hook[h] # None
  PROVE  hook[h] \in Event /\ row \in Row
BY DEF IInv, TypeOK, HandlersFoundTheRow

(* What an event does to the row, with its type: a credit needs an active  *)
(* agreement.                                                              *)
LEMMA ApplyTyped ==
  ASSUME IInv, NEW e \in Event, row \in Row, Apply(e)
  PROVE  /\ row' \in Row /\ paid' \in BOOLEAN /\ ChargesStay
         /\ credited' \subseteq Agreements
         /\ \A a \in credited' \ credited : agr'[a].charged
<1>1. e.agreement \in Agreements /\ e.name \in Names
  BY DEF Event
<1>2. CASE Credit(e)
  <2>1. row' \in Row
    BY <1>2 DEF Credit, Row, OpenStatuses
  <2>2. agr \in [Agreements -> AgreementRecord]
        /\ agr' = [agr EXCEPT ![e.agreement].scheduled = TRUE]
        /\ agr[e.agreement].charged
    BY <1>1, <1>2 DEF Credit, IInv, TypeOK, ActiveWasCharged
  <2>3. ChargesStay
    BY <2>2 DEF ChargesStay, AgreementRecord
  <2>4. paid' = TRUE /\ credited' = credited \cup {e.agreement}
    BY <1>2 DEF Credit
  <2> QED BY <1>1, <2>1, <2>2, <2>3, <2>4 DEF ChargesStay, IInv, TypeOK
<1>3. ASSUME NEW status \in OpenStatuses \cup TerminalStatuses, Store(e, status)
      PROVE  /\ row' \in Row /\ UNCHANGED <<paid, credited, agr>>
  BY <1>3 DEF Store, Row
<1>4. Credit(e) \/ Ignore \/ \E status \in OpenStatuses \cup TerminalStatuses : Store(e, status)
  <2>1. row.status \in OpenStatuses \cup TerminalStatuses
    BY DEF Row
  <2> QED BY <1>1, <2>1 DEF Apply, Names, Activated, OpenStatuses, TerminalStatuses
<1> QED BY <1>2, <1>3, <1>4 DEF Ignore, ChargesStay, IInv, TypeOK

LEMMA ApplyEventPreserves ==
  ASSUME IInv, NEW h \in Handlers, NEW keep \in BOOLEAN, ApplyEvent(h, keep)
  PROVE  IInv'
<1>1. hook[h] \in Event /\ row \in Row
  BY Handled DEF ApplyEvent
<1>2. /\ row' \in Row /\ paid' \in BOOLEAN /\ ChargesStay
      /\ credited' \subseteq Agreements
      /\ \A a \in credited' \ credited : agr'[a].charged
  BY <1>1, ApplyTyped DEF ApplyEvent
<1>3. RowStays
  BY <1>2, NoRowIsNoRow DEF RowStays
<1>4. RequestsAreSound'
  BY <1>2, <1>3, RequestsStay DEF ApplyEvent
<1>5. TypeOK'
  BY <1>2 DEF ApplyEvent, Acknowledge, IInv, TypeOK, ChargesStay
<1>6. HandlersFoundTheRow'
  BY <1>2, NoRowIsNoRow DEF HandlersFoundTheRow
<1>7. ActiveWasCharged' /\ CreditedWasCharged'
  BY <1>2 DEF IInv, TypeOK, ActiveWasCharged, CreditedWasCharged, ChargesStay
<1> QED BY <1>4, <1>5, <1>6, <1>7 DEF IInv

LEMMA FindSubscriptionPreserves ==
  ASSUME IInv, NEW h \in Handlers, NEW e \in deliveries, FindSubscription(h, e)
  PROVE  IInv'
<1>1. e \in Event /\ row # NoRow
  <2>1. e \in Event
    BY DEF IInv, TypeOK
  <2>2. row # NoRow
    BY <2>1, NoIdAssumption DEF FindSubscription, Agreement, Ids, Event, NoRow
  <2> QED BY <2>1, <2>2
<1>2. RowStays /\ ChargesStay
  BY DEF FindSubscription, RowStays, ChargesStay, IInv, TypeOK
<1>3. RequestsAreSound'
  BY <1>2, RequestsStay DEF FindSubscription
<1>4. TypeOK'
  BY <1>1 DEF FindSubscription, IInv, TypeOK
<1>5. HandlersFoundTheRow' /\ ActiveWasCharged' /\ CreditedWasCharged'
  BY <1>1 DEF FindSubscription, IInv, TypeOK, HandlersFoundTheRow, ActiveWasCharged,
     CreditedWasCharged
<1> QED BY <1>3, <1>4, <1>5 DEF IInv

LEMMA GiveUpPreserves ==
  ASSUME IInv, NEW h \in Handlers, GiveUp(h)
  PROVE  IInv'
<1>1. hook[h] \in Event /\ row \in Row
  BY Handled DEF GiveUp
<1>2. agr \in [Agreements -> AgreementRecord]
      /\ (UNCHANGED agr \/ agr' = [agr EXCEPT ![hook[h].agreement].scheduled = TRUE])
  BY DEF GiveUp, IInv, TypeOK
<1>3. RowStays /\ ChargesStay
  <2>1. RowStays
    BY <1>1 DEF GiveUp, RowStays
  <2>2. ChargesStay
    <3>1. CASE UNCHANGED agr
      BY <1>2, <3>1 DEF ChargesStay
    <3>2. CASE agr' = [agr EXCEPT ![hook[h].agreement].scheduled = TRUE]
      <4>1. \A a \in Agreements :
               /\ agr'[a] \in AgreementRecord
               /\ agr'[a].state = agr[a].state /\ agr'[a].charged = agr[a].charged
        BY <1>2, <3>2 DEF AgreementRecord
      <4> QED BY <1>2, <3>2, <4>1 DEF ChargesStay
    <3> QED BY <1>2, <3>1, <3>2
  <2> QED BY <2>1, <2>2
<1>4. RequestsAreSound'
  BY <1>3, RequestsStay DEF GiveUp
<1>5. TypeOK'
  BY <1>3 DEF GiveUp, IInv, TypeOK, ChargesStay
<1>6. HandlersFoundTheRow' /\ ActiveWasCharged' /\ CreditedWasCharged'
  BY <1>1, <1>3, NoRowIsNoRow DEF GiveUp, IInv, TypeOK, HandlersFoundTheRow, ActiveWasCharged,
     CreditedWasCharged, ChargesStay
<1> QED BY <1>4, <1>5, <1>6 DEF IInv

LEMMA MembershipEndsPreserves ==
  ASSUME IInv, MembershipEnds
  PROVE  IInv'
<1>1. RowStays /\ ChargesStay
  BY DEF MembershipEnds, RowStays, ChargesStay, IInv, TypeOK
<1>2. RequestsAreSound'
  BY <1>1, RequestsStay DEF MembershipEnds
<1>3. TypeOK' /\ HandlersFoundTheRow' /\ ActiveWasCharged' /\ CreditedWasCharged'
  BY DEF MembershipEnds, IInv, TypeOK, HandlersFoundTheRow, ActiveWasCharged, CreditedWasCharged
<1> QED BY <1>2, <1>3 DEF IInv

LEMMA StutterPreserves ==
  ASSUME IInv, UNCHANGED vars
  PROVE  IInv'
<1>1. RowStays /\ ChargesStay
  BY DEF vars, RowStays, ChargesStay, IInv, TypeOK
<1>2. RequestsAreSound'
  BY <1>1, RequestsStay DEF vars
<1>3. TypeOK' /\ HandlersFoundTheRow' /\ ActiveWasCharged' /\ CreditedWasCharged'
  BY DEF vars, IInv, TypeOK, HandlersFoundTheRow, ActiveWasCharged, CreditedWasCharged
<1> QED BY <1>2, <1>3 DEF IInv

LEMMA NextPreserves == IInv /\ [Next]_vars => IInv'
<1> SUFFICES ASSUME IInv, [Next]_vars PROVE IInv'
  OBVIOUS
<1>1. ASSUME NEW a \in Agreements, MobilePay(a) PROVE IInv'
  BY <1>1, AcceptPreserves, DeclinePreserves, ChargeDuePreserves, StopInAppPreserves DEF MobilePay
<1>2. ASSUME NEW r \in Requests, Step(r) PROVE IInv'
  BY <1>2, StepPreserves
<1>3. ASSUME NEW h \in Handlers, NEW e \in deliveries, FindSubscription(h, e) PROVE IInv'
  BY <1>3, FindSubscriptionPreserves
<1>4. ASSUME NEW h \in Handlers, NEW keep \in BOOLEAN, ApplyEvent(h, keep) PROVE IInv'
  BY <1>4, ApplyEventPreserves
<1>5. ASSUME NEW h \in Handlers, GiveUp(h) PROVE IInv'
  BY <1>5, GiveUpPreserves
<1> QED BY <1>1, <1>2, <1>3, <1>4, <1>5, MembershipEndsPreserves, StutterPreserves DEF Next

LEMMA Invariant == Spec => []IInv
BY InitEstablishes, NextPreserves, PTL DEF Spec

-----------------------------------------------------------------------------
(* The theorems                                                             *)

(* The row, the agreements, the requests and the events keep their types:  *)
(* in particular no step reads an agreement of a row that is not there.    *)
THEOREM SubscriptionTyped == Spec => []TypeOK
<1>1. IInv => TypeOK
  BY DEF IInv
<1> QED BY <1>1, Invariant, PTL

(* The member is marked as paid, by a webhook or by a page that asks       *)
(* MobilePay, only for an agreement whose charge was captured.             *)
THEOREM CreditedRightfully == Spec => []CreditedWasCharged
<1>1. IInv => CreditedWasCharged
  BY DEF IInv
<1> QED BY <1>1, Invariant, PTL

(* What a write does to a closed subscription, and to one that shows an    *)
(* event.                                                                  *)
StaysClosed == Terminal(row) /\ Open(row') => AppliesCharge \/ Reserves
StaysInOrder ==
  row.last # None /\ row'.last # row.last => Reserves \/ row'.last.at >= row.last.at

(* Every request but a reservation: it keeps the event the row shows, and  *)
(* a closed row closed.                                                    *)
LEMMA RequestKeepsClosed ==
  ASSUME IInv, NEW r \in Requests, Step(r)
  PROVE  StaysClosed /\ StaysInOrder
<1>1. CASE Reserve(r)
  BY <1>1 DEF StaysClosed, StaysInOrder, Reserves
<1>2. CASE CommitReconcile(r)
  <2>1. req[r].pc = "commit" /\ row \in Row
    BY <1>2, Tracked DEF CommitReconcile, At
  <2>2. req[r].status \in {"ACTIVE"} \cup TerminalStatuses
    BY <2>1, AtWork DEF At, Sound
  <2>3. row' = row \/ row' = [row EXCEPT !.status = req[r].status]
    BY <1>2 DEF CommitReconcile
  <2>4. Terminal(row) /\ row' # row => req[r].status \in TerminalStatuses
    BY <1>2, <2>2 DEF CommitReconcile
  <2> QED BY <2>1, <2>2, <2>3, <2>4
          DEF StaysClosed, StaysInOrder, Row, Open, Terminal, OpenStatuses, TerminalStatuses
<1>3. CASE MarkTerminal(r)
  <2>1. row \in Row
    BY <1>3, AtWork DEF MarkTerminal, At, Sound, IInv, TypeOK
  <2> QED BY <1>3, <2>1
          DEF MarkTerminal, StaysClosed, StaysInOrder, Row, Open, Terminal, OpenStatuses,
             TerminalStatuses
<1>4. CASE SaveId(r)
  <2>1. row \in Row
    BY <1>4, AtWork DEF SaveId, At, Sound, IInv, TypeOK
  <2> QED BY <1>4, <2>1
          DEF SaveId, StaysClosed, StaysInOrder, Row, Open, Terminal, OpenStatuses, TerminalStatuses
<1>5. CASE SaveCancel(r)
  <2> DEFINE seen == req[r].seen
             new == [seen EXCEPT !.status = "CANCELED"]
  <2>1. seen \in Row /\ row \in Row
    BY <1>5, Tracked DEF SaveCancel, At
  <2>2. new \in Row /\ new.status = "CANCELED" /\ new.last = seen.last
    BY <2>1 DEF Row, TerminalStatuses
  <2>3. row'.status \in {"CANCELED", row.status} /\ row'.last = row.last
    BY <1>5, <2>1, <2>2, WrittenIsARow DEF SaveCancel
  <2> QED BY <2>3 DEF StaysClosed, StaysInOrder, Open, Terminal, OpenStatuses, TerminalStatuses
<1>6. CASE UNCHANGED row
  BY <1>6 DEF StaysClosed, StaysInOrder, Open, Terminal, OpenStatuses, TerminalStatuses
<1> QED BY <1>1, <1>2, <1>3, <1>4, <1>5, <1>6
        DEF Step, Subscribe, PayOnce, View, Cancel, ReadAgreement, AbandonAgreement,
            AbandonFails, Check, Create, CancelAgreement, Abort

(* A handler opens a closed row only for a charge, and leaves the row      *)
(* alone if it shows a later event.                                        *)
LEMMA HandlerKeepsClosed ==
  ASSUME IInv, NEW h \in Handlers, NEW keep \in BOOLEAN, ApplyEvent(h, keep)
  PROVE  StaysClosed /\ StaysInOrder
<1> DEFINE e == hook[h]
<1>1. e \in Event /\ row \in Row /\ Apply(e)
  BY Handled DEF ApplyEvent
<1>2. e.name \in Names /\ row.last \in Event \cup {None} /\ e.at \in Int
  BY <1>1 DEF Event, Row
<1>3. row' = row \/ (~Processed(e) /\ row'.last = e)
  BY <1>1, <1>2 DEF Apply, Names, Activated, Credit, Store, Ignore, Row
<1>4. StaysInOrder
  <2>1. CASE row' = row
    BY <2>1 DEF StaysInOrder
  <2>2. CASE ~Processed(e) /\ row'.last = e /\ row.last # None
    <3>1. row.last.at \in Int
      BY <1>2, <2>2 DEF Event
    <3> QED BY <1>2, <2>2, <3>1 DEF Processed, StaysInOrder
  <2> QED BY <1>3, <2>1, <2>2 DEF StaysInOrder
<1>5. StaysClosed
  <2>1. CASE e.name \in {"captured", "failed"}
    BY <2>1 DEF StaysClosed, AppliesCharge, ApplyEvent
  <2>2. CASE e.name \in {"activated", "stopped", "expired"}
    <3>1. Terminal(row) => row' = row \/ row'.status \in TerminalStatuses
      BY <1>1, <2>2 DEF Apply, Activated, Store, Ignore, Terminal, TerminalStatuses, Row
    <3> QED BY <3>1 DEF StaysClosed, Open, Terminal, OpenStatuses, TerminalStatuses
  <2> QED BY <1>2, <2>1, <2>2 DEF Names
<1> QED BY <1>4, <1>5

LEMMA NextKeepsClosed == IInv /\ [Next]_vars => StaysClosed /\ StaysInOrder
<1> SUFFICES ASSUME IInv, [Next]_vars PROVE StaysClosed /\ StaysInOrder
  OBVIOUS
<1>1. CASE UNCHANGED row
  BY <1>1 DEF StaysClosed, StaysInOrder, Open, Terminal, OpenStatuses, TerminalStatuses
<1>2. ASSUME NEW r \in Requests, Step(r) PROVE StaysClosed /\ StaysInOrder
  BY <1>2, RequestKeepsClosed
<1>3. ASSUME NEW h \in Handlers, NEW keep \in BOOLEAN, ApplyEvent(h, keep)
      PROVE  StaysClosed /\ StaysInOrder
  BY <1>3, HandlerKeepsClosed
<1> QED BY <1>1, <1>2, <1>3
        DEF Next, MobilePay, Accept, Decline, ChargeDue, StopInApp, FindSubscription, GiveUp,
            MembershipEnds, vars

(* A closed subscription is opened again only by a charge event or by the  *)
(* reservation of a new checkout, however late activations and answers are.*)
THEOREM ClosedForGood == Spec => ClosedStaysClosed
<1>1. StaysClosed => [Terminal(row) /\ Open(row') => AppliesCharge \/ Reserves]_vars
  BY DEF StaysClosed
<1> QED BY <1>1, Invariant, NextKeepsClosed, PTL DEF Spec, ClosedStaysClosed

(* However deliveries are ordered, repeated or lost, the row never goes    *)
(* back to an event older than the one it shows, unless a checkout starts  *)
(* over.                                                                   *)
THEOREM NeverGoesBack == Spec => EventsInOrder
<1>1. StaysInOrder =>
        [row.last # None /\ row'.last # row.last => Reserves \/ row'.last.at >= row.last.at]_vars
  BY DEF StaysInOrder
<1> QED BY <1>1, Invariant, NextKeepsClosed, PTL DEF Spec, EventsInOrder

-----------------------------------------------------------------------------
(* The implementation of Membership                                         *)

LEMMA ChargedStays ==
  ASSUME \A a \in Agreements : agr'[a].charged = agr[a].charged
  PROVE  Charged' = Charged
BY DEF Charged

LEMMA NothingBecomesDue ==
  ASSUME NEW e, e.name \notin {"activated", "captured"}, deliveries' = deliveries \cup {e}
  PROVE  Due' = Due
BY DEF Due

LEMMA AgreementBecomesDue ==
  ASSUME NEW a, NEW events, deliveries' = deliveries \cup events,
         \A e \in events : e.agreement = a,
         \E e \in events : e.name \in {"activated", "captured"}
  PROVE  Due' = Due \cup {a}
<1>1. Due' \subseteq Due \cup {a}
  BY DEF Due
<1>2. Due \subseteq Due'
  BY DEF Due
<1>3. a \in Due'
  BY DEF Due
<1> QED BY <1>1, <1>2, <1>3

(* An acknowledgement takes back what its agreement has due, or nothing.   *)
LEMMA DueWhenAcknowledged ==
  ASSUME IInv, NEW h \in Handlers, NEW keep \in BOOLEAN, hook[h] # None, Acknowledge(h, keep)
  PROVE  /\ Due' = Due \/ Due' = Due \ {hook[h].agreement}
         /\ hook[h].name \notin {"activated", "captured"} => Due' = Due
<1> DEFINE e == hook[h]
<1>1. deliveries' = deliveries \/ deliveries' = deliveries \ {e}
  BY DEF Acknowledge
<1>2. CASE deliveries' = deliveries
  BY <1>2 DEF Due
<1>3. CASE deliveries' = deliveries \ {e}
  <2>1. Due' \subseteq Due
    BY <1>3 DEF Due
  <2>2. Due \ {e.agreement} \subseteq Due'
    BY <1>3 DEF Due
  <2>3. e.name \notin {"activated", "captured"} => Due \subseteq Due'
    BY <1>3 DEF Due
  <2> QED BY <2>1, <2>2, <2>3
<1> QED BY <1>1, <1>2, <1>3

(* What a step of Membership is, in terms of this module.                  *)
Unnoticed == UNCHANGED <<Charged, Due, credited, paid>>
Taken(a) == Charged' = Charged \cup {a} /\ Due' = Due \cup {a} /\ UNCHANGED <<credited, paid>>
Credited(a) ==
  /\ a \in Charged /\ credited' = credited \cup {a} /\ paid' = TRUE
  /\ Due' \in {Due, Due \ {a}} /\ UNCHANGED Charged
Dropped(a) == Due' = Due \ {a} /\ UNCHANGED <<Charged, credited, paid>>
Ended == paid /\ paid' = FALSE /\ UNCHANGED <<Charged, Due, credited>>
MembershipStep == \/ Unnoticed \/ Ended
                  \/ \E a \in Agreements : Taken(a) \/ Credited(a) \/ Dropped(a)

LEMMA MembershipIsNext == MembershipStep => [Promised!Next]_(Promised!vars)
BY DEF MembershipStep, Unnoticed, Taken, Credited, Dropped, Ended, Promised!Next, Promised!vars,
   Promised!Take, Promised!Credit, Promised!Discard, Promised!End

LEMMA MobilePayImplements ==
  ASSUME IInv, NEW a \in Agreements, MobilePay(a)
  PROVE  MembershipStep
<1>0. agr \in [Agreements -> AgreementRecord]
  BY DEF IInv, TypeOK
<1>1. CASE Accept(a)
  <2>1. agr' = [agr EXCEPT ![a].state = "ACTIVE", ![a].charged = TRUE]
    BY <1>1 DEF Accept
  <2>2. Charged' = Charged \cup {a}
    BY <1>0, <2>1 DEF Charged, AgreementRecord
  <2>3. PICK t \in {now, now + 1} :
          deliveries' = deliveries \cup {[agreement |-> a, name |-> "captured", at |-> t],
                                        [agreement |-> a, name |-> "activated", at |-> now + 1]}
    BY <1>1 DEF Accept
  <2>4. Due' = Due \cup {a}
    <3> DEFINE events == {[agreement |-> a, name |-> "captured", at |-> t],
                          [agreement |-> a, name |-> "activated", at |-> now + 1]}
    <3>1. \A e \in events : e.agreement = a
      OBVIOUS
    <3>2. \E e \in events : e.name \in {"activated", "captured"}
      OBVIOUS
    <3>3. deliveries' = deliveries \cup events
      BY <2>3
    <3> HIDE DEF events
    <3> QED BY <3>1, <3>2, <3>3, AgreementBecomesDue
  <2> QED BY <1>1, <2>2, <2>4 DEF Accept, MembershipStep, Taken
<1>2. CASE Decline(a)
  <2>1. agr' = [agr EXCEPT ![a].state = "EXPIRED"]
    BY <1>2 DEF Decline
  <2>2. Charged' = Charged
    BY <1>0, <2>1, ChargedStays DEF AgreementRecord
  <2>3. Due' = Due
    BY <1>2, NothingBecomesDue DEF Decline, Announce
  <2> QED BY <1>2, <2>2, <2>3 DEF Decline, MembershipStep, Unnoticed
<1>3. CASE ChargeDue(a)
  <2>1. agr' = [agr EXCEPT ![a].scheduled = FALSE]
    BY <1>3 DEF ChargeDue
  <2>2. Charged' = Charged
    BY <1>0, <2>1, ChargedStays DEF AgreementRecord
  <2>3. a \in Charged
    BY <1>3 DEF ChargeDue, IInv, ActiveWasCharged, Charged
  <2>4. CASE Announce(a, "captured")
    <3> DEFINE event == [agreement |-> a, name |-> "captured", at |-> now + 1]
    <3>1. Due' = Due \cup {a}
      <4>1. event.agreement = a /\ event.name \in {"activated", "captured"}
        OBVIOUS
      <4>2. deliveries' = deliveries \cup {event}
        BY <2>4 DEF Announce
      <4> HIDE DEF event
      <4> QED BY <4>1, <4>2, AgreementBecomesDue
    <3> QED BY <1>3, <2>2, <2>3, <3>1 DEF ChargeDue, MembershipStep, Taken
  <2>5. CASE Announce(a, "failed")
    <3>1. Due' = Due
      BY <2>5, NothingBecomesDue DEF Announce
    <3> QED BY <1>3, <2>2, <3>1 DEF ChargeDue, MembershipStep, Unnoticed
  <2> QED BY <1>3, <2>4, <2>5 DEF ChargeDue
<1>4. CASE StopInApp(a)
  <2>1. agr' = [agr EXCEPT ![a].state = "STOPPED", ![a].scheduled = FALSE]
    BY <1>4 DEF StopInApp, Stopped
  <2>2. Charged' = Charged
    BY <1>0, <2>1, ChargedStays DEF AgreementRecord
  <2>3. Due' = Due
    BY <1>4, NothingBecomesDue DEF StopInApp, Announce
  <2> QED BY <1>4, <2>2, <2>3 DEF StopInApp, MembershipStep, Unnoticed
<1> QED BY <1>1, <1>2, <1>3, <1>4 DEF MobilePay

LEMMA StopAgreementUnnoticed ==
  ASSUME IInv, NEW a \in Agreements, StopAgreement(a)
  PROVE  Charged' = Charged /\ Due' = Due
<1>0. agr \in [Agreements -> AgreementRecord]
  BY DEF IInv, TypeOK
<1>1. CASE Live(a)
  <2>1. agr' = [agr EXCEPT ![a].state = "STOPPED", ![a].scheduled = FALSE]
    BY <1>1 DEF StopAgreement, Stopped
  <2>2. Charged' = Charged
    BY <1>0, <2>1, ChargedStays DEF AgreementRecord
  <2>3. Due' = Due
    BY <1>1, NothingBecomesDue DEF StopAgreement, Announce
  <2> QED BY <2>2, <2>3
<1>2. CASE ~Live(a)
  BY <1>2 DEF StopAgreement, Charged, Due
<1> QED BY <1>1, <1>2

(* A page that asks MobilePay credits what was charged; nothing else that  *)
(* a request does is noticed.                                              *)
LEMMA RequestImplements ==
  ASSUME IInv, NEW r \in Requests, Step(r)
  PROVE  MembershipStep
<1>1. CASE CommitReconcile(r)
  <2> DEFINE a == req[r].seen.id.of
  <2>1. req[r].pc = "commit" /\ a \in Agreements
    BY <1>1, Tracked DEF CommitReconcile, At
  <2>2. req[r].status = "ACTIVE" => a \in Charged
    BY <2>1, AtWork DEF At, Sound, Charged
  <2>3. Charged' = Charged /\ Due' = Due
    BY <1>1 DEF CommitReconcile, Charged, Due
  <2>4. CASE req[r].status = "ACTIVE" /\ ~Terminal(row)
    <3>1. credited' = credited \cup {a} /\ paid' = TRUE
      BY <1>1, <2>4 DEF CommitReconcile
    <3> QED BY <2>1, <2>2, <2>3, <2>4, <3>1 DEF MembershipStep, Credited
  <2>5. CASE ~(req[r].status = "ACTIVE" /\ ~Terminal(row))
    <3>1. credited' = credited
      BY <1>1, <2>5 DEF CommitReconcile
    <3>2. paid' = paid
      BY <1>1, <2>5, Zenon DEF CommitReconcile, IInv, TypeOK
    <3> QED BY <2>3, <3>1, <3>2 DEF MembershipStep, Unnoticed
  <2> QED BY <2>4, <2>5
<1>2. CASE AbandonAgreement(r)
  <2>1. req[r].seen.id.of \in Agreements
    BY <1>2, Tracked DEF AbandonAgreement, At
  <2> QED BY <1>2, <2>1, StopAgreementUnnoticed DEF AbandonAgreement, MembershipStep, Unnoticed
<1>3. CASE CancelAgreement(r)
  <2>1. req[r].seen.id.of \in Agreements
    BY <1>3, Tracked DEF CancelAgreement, At
  <2> QED BY <1>3, <2>1, StopAgreementUnnoticed DEF CancelAgreement, MembershipStep, Unnoticed
<1>4. CASE Create(r)
  <2>1. agr \in [Agreements -> AgreementRecord]
    BY DEF IInv, TypeOK
  <2>2. agr' = [agr EXCEPT ![req[r].of].state = IF @ = "NONE" THEN "PENDING" ELSE @]
    BY <1>4 DEF Create
  <2>3. Charged' = Charged
    BY <2>1, <2>2, ChargedStays DEF AgreementRecord
  <2> QED BY <1>4, <2>3 DEF Create, Due, MembershipStep, Unnoticed
<1>5. CASE UNCHANGED <<paid, agr, deliveries, credited>>
  BY <1>5 DEF Charged, Due, MembershipStep, Unnoticed
<1> QED BY <1>1, <1>2, <1>3, <1>4, <1>5
        DEF Step, Subscribe, PayOnce, View, Cancel, ReadAgreement, AbandonFails, MarkTerminal,
            Check, Reserve, SaveId, SaveCancel, Abort, Outside

LEMMA HandlerImplements ==
  ASSUME IInv, NEW h \in Handlers, NEW keep \in BOOLEAN, ApplyEvent(h, keep)
  PROVE  MembershipStep
<1> DEFINE e == hook[h]
<1>1. e \in Event /\ e.agreement \in Agreements /\ e.name \in Names
  BY Handled DEF ApplyEvent, Event
<1>2. Due' = Due \/ Due' = Due \ {e.agreement}
  BY DueWhenAcknowledged DEF ApplyEvent
<1>3. CASE Credit(e)
  <2>1. e.agreement \in Charged
    BY <1>1, <1>3 DEF Credit, IInv, ActiveWasCharged, Charged
  <2>2. Charged' = Charged
    <3>1. agr \in [Agreements -> AgreementRecord]
          /\ agr' = [agr EXCEPT ![e.agreement].scheduled = TRUE]
      BY <1>3 DEF Credit, IInv, TypeOK
    <3> QED BY <3>1, ChargedStays DEF AgreementRecord
  <2>3. Credited(e.agreement)
    BY <1>2, <1>3, <2>1, <2>2 DEF Credit, Credited
  <2> QED BY <1>1, <2>3 DEF MembershipStep
<1>4. CASE UNCHANGED <<paid, credited, agr>>
  <2>1. Unnoticed \/ Dropped(e.agreement)
    BY <1>2, <1>4 DEF Unnoticed, Dropped, Charged
  <2> QED BY <1>1, <2>1 DEF MembershipStep
<1>5. Credit(e) \/ UNCHANGED <<paid, credited, agr>>
  BY <1>1 DEF ApplyEvent, Apply, Names, Activated, Store, Ignore
<1> QED BY <1>3, <1>4, <1>5

LEMMA NextImplements == IInv /\ [Next]_vars => MembershipStep
<1> SUFFICES ASSUME IInv, [Next]_vars PROVE MembershipStep
  OBVIOUS
<1>1. CASE UNCHANGED <<paid, agr, deliveries, credited>>
  BY <1>1 DEF Charged, Due, MembershipStep, Unnoticed
<1>2. ASSUME NEW a \in Agreements, MobilePay(a) PROVE MembershipStep
  BY <1>2, MobilePayImplements
<1>3. ASSUME NEW r \in Requests, Step(r) PROVE MembershipStep
  BY <1>3, RequestImplements
<1>4. ASSUME NEW h \in Handlers, NEW keep \in BOOLEAN, ApplyEvent(h, keep) PROVE MembershipStep
  BY <1>4, HandlerImplements
<1>5. ASSUME NEW h \in Handlers, GiveUp(h) PROVE MembershipStep
  <2>1. agr \in [Agreements -> AgreementRecord]
    BY DEF IInv, TypeOK
  <2>2. UNCHANGED agr \/ agr' = [agr EXCEPT ![hook[h].agreement].scheduled = TRUE]
    BY <1>5 DEF GiveUp
  <2>3. Charged' = Charged
    BY <2>1, <2>2, ChargedStays DEF AgreementRecord
  <2> QED BY <1>5, <2>3 DEF GiveUp, Due, MembershipStep, Unnoticed
<1>6. CASE MembershipEnds
  BY <1>6 DEF MembershipEnds, Charged, Due, MembershipStep, Ended
<1> QED BY <1>1, <1>2, <1>3, <1>4, <1>5, <1>6 DEF Next, FindSubscription, vars

(* The controllers implement Membership: the member becomes paid only by   *)
(* the credit of an agreement whose charge was captured.                   *)
THEOREM MobilePayImplementsMembership == Spec => PaidForWithMobilePay
<1>1. Init => Promised!Init
  BY DEF Init, Promised!Init, Charged, Due
<1>2. IInv /\ [Next]_vars => [Promised!Next]_(Promised!vars)
  BY NextImplements, MembershipIsNext
<1> QED BY <1>1, <1>2, Invariant, PTL DEF Spec, PaidForWithMobilePay, Promised!Spec

=============================================================================
