---------------------------- MODULE EventPages_proofs ----------------------------
(***************************************************************************)
(* Proofs about the pages of an event, for any members, any registrations  *)
(* stored before the pages open and any number of requests on their way.   *)
(***************************************************************************)
EXTENDS EventPages, EventRegistration_proofs

-----------------------------------------------------------------------------
(* The inductive invariant                                                 *)

MemberOps == {"mine", "register", "unregister", "note", "lists"}
Edits == {"update", "unpay", "remove"}
AdminOps == Edits \cup {"list", "add", "summary"}
Changes == {"register", "note", "update", "unpay", "add"}

(* A request is what Asked makes, whatever its number.                     *)
PageCall(c) ==
  /\ c \in [n : {c.n}, tab : Tabs, op : MemberOps \cup AdminOps, user : Users, id : Nat,
            type : RegistrationTypes \cup {"NONE"}, paid : BOOLEAN, done : BOOLEAN,
            order : Nat, answer : [Users -> Row]]
  /\ c.tab = "member" => c.op \in MemberOps /\ c.user = Member
  /\ c.tab = "admin" => c.op \in AdminOps
  /\ c.op \in {"update", "unpay", "add"} => c.type \in RegistrationTypes
  /\ c.op \in {"lists", "summary"} => c.order = 0
  /\ c.order # 0 => c.done
  /\ c.done /\ c.order = 0 => c.op \in Changes

Dialogs == [kind : {"none", "unpay", "remove"}, user : Users, row : Row]

PagesTyped ==
  /\ IInv
  /\ \A c \in calls : PageCall(c)
  /\ page \in [shown : {"page", "error"}, mine : Row, confirming : BOOLEAN]
  /\ list \in [loaded : BOOLEAN, rows : [Users -> Row], dialog : Dialogs]
  /\ list.dialog # Closed => list.dialog.kind # "none" /\ Has(list.dialog.row)
  /\ left \in [Tabs -> [Users -> Row]]

(* The requests whose answers were read and did not arrive, each with a    *)
(* place of its own in an order that has an end.                           *)
CarriedOut == {c \in calls : c.order # 0}
OrdersDiffer ==
  /\ \E n \in Nat : \A c \in CarriedOut : c.order <= n
  /\ \A c, d \in CarriedOut : c.order = d.order => c = d

(* The list is loaded once, before anything else is asked for.             *)
LoadedFirst ==
  /\ ~list.loaded => list.dialog = Closed /\ \A c \in Of("admin") : c.op = "list"
  /\ list.loaded => \A c \in Of("admin") : c.op # "list"
  /\ \A c, d \in calls : c.op = "list" /\ d.op = "list" => c = d

(* Those of a tab; those of the administrator about u.                     *)
MemberServed == {c \in CarriedOut : c.tab = "member"}
Served(u) == {c \in CarriedOut : c.tab = "admin" /\ u \in About(c)}

(* A row with this id, if it is still stored, is as the administrator left *)
(* it: an id is not given twice.                                           *)
KnownId(i, u) == i < nextId /\ (HasRow(u) /\ reg[u].id = i => left["admin"][u].id = i)

KnownIds ==
  /\ \A u \in Users : Has(list.rows[u]) => KnownId(list.rows[u].id, u)
  /\ list.dialog # Closed => KnownId(list.dialog.row.id, list.dialog.user)
  /\ \A c \in Of("admin") : c.op \in Edits => KnownId(c.id, c.user)
  /\ \A u \in Users : \A c \in Served(u) : Has(c.answer[u]) => KnownId(c.answer[u].id, u)

(* What an answer says of the row the request changed.                     *)
AnswersFit ==
  \A c \in CarriedOut :
    /\ c.op \in {"update", "unpay"} => c.answer[c.user].id = c.id
    /\ c.op = "remove" => c.answer[c.user] = NoRow

(* The row is the one the request was about.                               *)
Meets(row, c) == c.op \in Edits => row.id = c.id

(* The answers on their way, one after the other, lead from the row shown  *)
(* to the row as it was left.                                              *)
Leads(u) ==
  /\ list.loaded /\ Served(u) = {} => list.rows[u] = left["admin"][u]
  /\ \A c \in Served(u) :
       (\A d \in Served(u) : d.order <= c.order) => c.answer[u] = left["admin"][u]
  /\ \A c \in Served(u) :
       (\A d \in Served(u) : c.order <= d.order) => Meets(list.rows[u], c)
  /\ \A c, d \in Served(u) :
       c.order < d.order /\ (\A e \in Served(u) : e.order <= c.order \/ d.order <= e.order)
         => Meets(c.answer[u], d)

(* They do until an answer overtakes another or does not come.             *)
RowsFollow == \A u \in Users : <<"admin", u>> \in missed \/ Leads(u)

MineFollows ==
  \/ page.shown = "error" \/ <<"member", Member>> \in missed
  \/ /\ MemberServed = {} => page.mine = left["member"][Member]
     /\ \A c \in MemberServed :
          (\A d \in MemberServed : d.order <= c.order) => c.answer[Member] = left["member"][Member]

PagesIInv ==
  /\ PagesTyped /\ OrdersDiffer /\ LoadedFirst /\ KnownIds /\ AnswersFit
  /\ RowsFollow /\ MineFollows

-----------------------------------------------------------------------------
(* What the service does                                                   *)

(* A promotion leaves alone who does not wait.                             *)
LEMMA PromoteKeepsNone ==
  ASSUME NEW r \in [Users -> Row], NEW excluded, NEW u \in Users, r[u] = NoRow
  PROVE  Promote(r, excluded)[u] = NoRow
<1>1. u \notin Promoted(r, excluded)
  BY DEF Promoted, Waiting, NoRow
<1> QED BY <1>1 DEF Promote

(* A request is an operation of the service.                               *)
LEMMA RequestsUseTheService ==
  ASSUME NEW c, PageCall(c), CarryOut(c)
  PROVE  [Next]_vars
<1>1. Member \in Users /\ c.user \in Users /\ c.paid \in BOOLEAN
  BY PagesAssumption DEF PageCall
<1>2. "ATTENDEE" \in RegistrationTypes
  BY DEF RegistrationTypes, Counting
<1>3. c.op \in {"update", "unpay", "add"} => c.type \in RegistrationTypes
  BY DEF PageCall
<1>4. CASE Register(Member, "ATTENDEE")
  BY <1>1, <1>2, <1>4 DEF Next, Registering
<1>5. CASE Unregister(Member)
  BY <1>1, <1>5 DEF Next, Registering
<1>6. CASE c.op \in {"update", "unpay"} /\ Update(c.user, c.type, c.paid)
  BY <1>1, <1>3, <1>6 DEF Next, Registering
<1>7. CASE Delete(c.user)
  BY <1>1, <1>7 DEF Next, Registering
<1>8. CASE c.op = "add" /\ Add(c.user, c.type, c.paid)
  BY <1>1, <1>3, <1>8 DEF Next, Registering
<1> QED BY <1>4, <1>5, <1>6, <1>7, <1>8 DEF CarryOut

Keeps(u) == HasRow(u) /\ reg'[u].id = reg[u].id
Fresh(u) == reg'[u].id = nextId /\ nextId' > nextId

LEMMA StoringKeepsIds ==
  ASSUME IInv, NEW u \in accounts, NEW type \in RegistrationTypes, NEW paid \in BOOLEAN,
         TakeId(u), StoreAndPromote(u, type, paid)
  PROVE  /\ \A v \in Users : reg'[v].type # "NONE" => Keeps(v) \/ Fresh(v)
         /\ HasRow(u) => reg'[u].id = reg[u].id
         /\ nextId' >= nextId
<1> DEFINE s == Store(u, type, paid)
<1>1. s \in [Users -> Row] /\ u \in Users /\ nextId \in Nat
  BY StoreRows DEF RowsOK, IInv, TypeOK
<1>2. \A v \in Users : reg'[v].id = s[v].id /\ (reg'[v].type = "NONE" <=> s[v].type = "NONE")
  BY <1>1, PromoteKeepsRows DEF StoreAndPromote
<1>3. /\ s[u].id = IF HasRow(u) THEN reg[u].id ELSE nextId
      /\ \A v \in Users : v # u => s[v] = reg[v]
  BY <1>1 DEF Store, IInv, TypeOK
<1> HIDE DEF s
<1>4. nextId' >= nextId /\ (~HasRow(u) => nextId' > nextId)
  BY <1>1 DEF TakeId
<1>5. u \in Users
  BY <1>1
<1> QED BY <1>2, <1>3, <1>4, <1>5 DEF Keeps, Fresh, HasRow

LEMMA RemovingKeepsIds ==
  ASSUME IInv, NEW u \in Users, RemoveAndPromote(u)
  PROVE  /\ \A v \in Users : reg'[v].type # "NONE" => Keeps(v)
         /\ reg'[u] = NoRow
<1> DEFINE s == Remove(u)
<1>1. s \in [Users -> Row]
  BY RemoveRows DEF RowsOK
<1>2. \A v \in Users : reg'[v].id = s[v].id /\ (reg'[v].type = "NONE" <=> s[v].type = "NONE")
  BY <1>1, PromoteKeepsRows DEF RemoveAndPromote
<1>3. s[u] = NoRow /\ \A v \in Users : v # u => s[v] = reg[v]
  BY DEF Remove, IInv, TypeOK
<1>4. reg'[u] = NoRow
  BY <1>1, <1>3, PromoteKeepsNone DEF RemoveAndPromote
<1> HIDE DEF s
<1>5. NoRow.type = "NONE"
  BY DEF NoRow
<1> QED BY <1>2, <1>3, <1>4, <1>5 DEF Keeps, HasRow

LEMMA ServiceKeepsIds ==
  ASSUME IInv, NEW c, PageCall(c), CarryOut(c)
  PROVE  /\ IInv' /\ nextId' \in Nat /\ nextId' >= nextId
         /\ \A u \in Users : reg'[u].type # "NONE" => (Keeps(u) \/ Fresh(u)) /\ reg'[u].id < nextId'
         /\ c.op \in {"update", "unpay"} => reg'[c.user].id = c.id
         /\ c.op = "remove" => reg'[c.user] = NoRow
<1>1. IInv'
  BY RequestsUseTheService, NextIInv
<1>2. /\ nextId' \in Nat /\ nextId \in Nat
      /\ \A u \in Users : reg'[u].type # "NONE" => reg'[u].id < nextId'
  BY <1>1 DEF IInv, TypeOK, IdsAreUnique, HasRow
<1>3. Member \in Users /\ c.user \in Users /\ c.paid \in BOOLEAN
  BY PagesAssumption DEF PageCall
<1>4. CASE c.op \in {"mine", "list", "note"} /\ UNCHANGED vars
  BY <1>1, <1>2, <1>4 DEF Keeps, HasRow, vars
<1>5. CASE c.op = "register" /\ Register(Member, "ATTENDEE")
  <2>1. PICK type \in RegistrationTypes :
          Member \in accounts /\ TakeId(Member) /\ StoreAndPromote(Member, type, FALSE)
    BY <1>5 DEF Register, RegistrationTypes, Counting
  <2> QED BY <1>1, <1>2, <1>5, <2>1, StoringKeepsIds
<1>6. CASE c.op = "unregister" /\ Unregister(Member)
  BY <1>1, <1>2, <1>3, <1>6, RemovingKeepsIds DEF Unregister
<1>7. CASE c.op \in {"update", "unpay"} /\ Found(c) /\ Update(c.user, c.type, c.paid)
  <2>1. HasRow(c.user) /\ reg[c.user].id = c.id /\ c.user \in accounts
    BY <1>3, <1>7 DEF Found, IInv, TypeOK
  <2>2. c.type \in RegistrationTypes /\ TakeId(c.user) /\ nextId' = nextId
        /\ StoreAndPromote(c.user, c.type, c.paid)
    BY <1>7, <2>1 DEF PageCall, Update, TakeId
  <2> QED BY <1>1, <1>2, <1>3, <1>7, <2>1, <2>2, StoringKeepsIds
<1>8. CASE c.op = "remove" /\ Delete(c.user)
  BY <1>1, <1>2, <1>3, <1>8, RemovingKeepsIds DEF Delete
<1>9. CASE c.op = "add" /\ Add(c.user, c.type, c.paid)
  BY <1>1, <1>2, <1>3, <1>9, StoringKeepsIds DEF PageCall, Add
<1> QED BY <1>4, <1>5, <1>6, <1>7, <1>8, <1>9 DEF CarryOut

-----------------------------------------------------------------------------
(* What the steps of the pages have in common                              *)

(* A step that leaves the answers on their way about a row, and the row    *)
(* shown, leaves the one leading to the other.                             *)
LEMMA RowsStay ==
  ASSUME RowsFollow, UNCHANGED left, missed \subseteq missed',
         \A u \in Users : <<"admin", u>> \notin missed' => Served(u)' = Served(u),
         list'.loaded = list.loaded, list'.rows = list.rows
  PROVE  RowsFollow'
<1>1. ASSUME NEW u \in Users, <<"admin", u>> \notin missed', Leads(u) PROVE Leads(u)'
  <2>1. Served(u)' = Served(u)
    BY <1>1
  <2> QED BY <1>1, <2>1 DEF Leads, Meets
<1> QED BY <1>1 DEF RowsFollow

LEMMA SameServed ==
  ASSUME CarriedOut' = CarriedOut
  PROVE  \A u : Served(u)' = Served(u)
BY DEF Served, About

LEMMA MineStays ==
  ASSUME MineFollows, MemberServed' = MemberServed, UNCHANGED left, missed \subseteq missed',
         page'.shown = page.shown, page'.mine = page.mine
  PROVE  MineFollows'
BY DEF MineFollows

LEMMA AnswersStay ==
  ASSUME AnswersFit, OrdersDiffer, CarriedOut' \subseteq CarriedOut
  PROVE  AnswersFit' /\ OrdersDiffer'
BY DEF AnswersFit, OrdersDiffer

(* Ids stay known while the service does nothing.                          *)
LEMMA KnownStays ==
  ASSUME UNCHANGED <<reg, nextId, left>>
  PROVE  \A i, u : KnownId(i, u)' <=> KnownId(i, u)
BY DEF KnownId, HasRow

-----------------------------------------------------------------------------
(* A request is sent                                                       *)

LEMMA SendKeepsIInv ==
  ASSUME PagesIInv, NEW call, PageCall(call), call.order = 0, Send(call), UNCHANGED <<page, list>>,
         call.op # "list", call.tab = "admin" => list.loaded,
         call.tab = "admin" /\ call.op \in Edits => KnownId(call.id, call.user)
  PROVE  PagesIInv'
<1>1. /\ calls' = calls \cup {call}
      /\ UNCHANGED <<event, reg, accounts, nextId, editor, page, list, left, missed>>
  BY DEF Send, service
<1>2. CarriedOut' = CarriedOut
  BY <1>1 DEF CarriedOut
<1>3. PagesTyped'
  <2>1. UNCHANGED vars
    BY <1>1 DEF vars
  <2>2. IInv'
    BY <2>1, NextIInv DEF PagesIInv, PagesTyped
  <2> QED BY <1>1, <2>2 DEF PagesIInv, PagesTyped, Closed
<1>4. LoadedFirst'
  BY <1>1 DEF PagesIInv, PagesTyped, LoadedFirst, Of, Closed
<1>5. KnownIds'
  <2>1. \A i, u : KnownId(i, u)' <=> KnownId(i, u)
    BY <1>1, KnownStays
  <2>2. \A c \in Of("admin")' : c.op \in Edits => KnownId(c.id, c.user)
    BY <1>1 DEF PagesIInv, KnownIds, Of
  <2> QED BY <1>1, <1>2, <2>1, <2>2 DEF PagesIInv, KnownIds, Served, About, Closed
<1>6. AnswersFit' /\ OrdersDiffer'
  BY <1>2, AnswersStay DEF PagesIInv
<1>7. RowsFollow' /\ MineFollows'
  BY <1>1, <1>2, SameServed, RowsStay, MineStays DEF PagesIInv, MemberServed
<1> QED BY <1>3, <1>4, <1>5, <1>6, <1>7 DEF PagesIInv

(* What is sent is a request.                                              *)
LEMMA AskedIsACall ==
  ASSUME NEW n, NEW tab \in Tabs, NEW op \in MemberOps \cup AdminOps, NEW u \in Users, NEW row \in Row,
         tab = "member" => op \in MemberOps /\ u = Member,
         tab = "admin" => op \in AdminOps,
         op \in {"update", "unpay", "add"} => row.type \in RegistrationTypes
  PROVE  /\ PageCall(Asked(tab, op, n, u, row))
         /\ Asked(tab, op, n, u, row).order = 0 /\ Asked(tab, op, n, u, row).op = op
         /\ Asked(tab, op, n, u, row).tab = tab /\ Asked(tab, op, n, u, row).user = u
         /\ Asked(tab, op, n, u, row).id = row.id
<1>1. NoRows \in [Users -> Row]
  BY DEF NoRows, NoRow, Row
<1> QED BY <1>1 DEF PageCall, Asked, Row

LEMMA MemberSends ==
  ASSUME PagesIInv, NEW op \in {"register", "unregister", "note"},
         Send(Call("member", op, Member, NoRow)), UNCHANGED <<page, list>>
  PROVE  PagesIInv'
<1> DEFINE call == Call("member", op, Member, NoRow)
<1>1. NoRow \in Row /\ Member \in Users
  BY PagesAssumption DEF NoRow, Row
<1>2. PageCall(call) /\ call.order = 0 /\ call.op = op /\ call.tab = "member"
  BY <1>1, AskedIsACall DEF Call, Tabs, MemberOps
<1> HIDE DEF call
<1> QED BY <1>2, SendKeepsIInv DEF call

LEMMA AdminSends ==
  ASSUME PagesIInv, NEW op \in Edits \cup {"add"}, NEW u \in Users, NEW row \in Row,
         Send(Call("admin", op, u, row)), UNCHANGED <<page, list>>, list.loaded,
         op # "remove" => row.type \in RegistrationTypes,
         op \in Edits => KnownId(row.id, u)
  PROVE  PagesIInv'
<1> DEFINE call == Call("admin", op, u, row)
<1>1. /\ PageCall(call) /\ call.order = 0 /\ call.op = op /\ call.tab = "admin"
      /\ call.id = row.id /\ call.user = u
  BY AskedIsACall DEF Call, Tabs, Edits, AdminOps
<1> HIDE DEF call
<1> QED BY <1>1, SendKeepsIInv DEF call, Edits

-----------------------------------------------------------------------------
(* The pages                                                               *)

(* A dialog is opened or closed.                                           *)
LEMMA DialogKeepsIInv ==
  ASSUME PagesIInv, UNCHANGED <<service, calls, sent, left, missed>>,
         page' = page \/ \E b \in BOOLEAN : page' = [page EXCEPT !.confirming = b],
         \/ list' = list
         \/ /\ list.loaded
            /\ list' = [list EXCEPT !.dialog = Closed]
         \/ \E kind \in {"unpay", "remove"}, u \in Users :
              /\ list.loaded /\ Has(list.rows[u])
              /\ list' = [list EXCEPT !.dialog = [kind |-> kind, user |-> u, row |-> list.rows[u]]]
  PROVE  PagesIInv'
<1>1. UNCHANGED <<event, reg, accounts, nextId, editor, calls, left, missed>>
  BY DEF service
<1>2. CarriedOut' = CarriedOut
  BY <1>1 DEF CarriedOut
<1>3. /\ page \in [shown : {"page", "error"}, mine : Row, confirming : BOOLEAN]
      /\ list \in [loaded : BOOLEAN, rows : [Users -> Row], dialog : Dialogs]
  BY DEF PagesIInv, PagesTyped
<1>4. page' \in [shown : {"page", "error"}, mine : Row, confirming : BOOLEAN]
      /\ page'.shown = page.shown /\ page'.mine = page.mine
  BY <1>3
<1>5. list'.loaded = list.loaded /\ list'.rows = list.rows
  BY <1>3
<1>6. Closed \in Dialogs
  BY PagesAssumption DEF Closed, Dialogs, NoRow, Row
<1>7. \/ list' = list
      \/ list.loaded /\ list'.dialog = Closed
      \/ \E kind \in {"unpay", "remove"}, u \in Users :
           /\ list.loaded /\ Has(list.rows[u])
           /\ list'.dialog = [kind |-> kind, user |-> u, row |-> list.rows[u]]
  BY <1>3
<1>8. /\ list' \in [loaded : BOOLEAN, rows : [Users -> Row], dialog : Dialogs]
      /\ list'.dialog # Closed => list'.dialog.kind # "none" /\ Has(list'.dialog.row)
  BY <1>3, <1>6, <1>7 DEF Dialogs, PagesIInv, PagesTyped
<1>9. PagesTyped'
  <2>1. UNCHANGED vars
    BY <1>1 DEF vars
  <2>2. IInv'
    BY <2>1, NextIInv DEF PagesIInv, PagesTyped
  <2> QED BY <1>1, <1>4, <1>8, <2>2 DEF PagesIInv, PagesTyped, Closed
<1>10. LoadedFirst'
  BY <1>1, <1>5, <1>7 DEF PagesIInv, LoadedFirst, Of, Closed
<1>11. KnownIds'
  <2>1. \A i, u : KnownId(i, u)' <=> KnownId(i, u)
    BY <1>1, KnownStays
  <2>2. list'.dialog # Closed => KnownId(list'.dialog.row.id, list'.dialog.user)
    <3>1. CASE list' = list
      BY <3>1 DEF PagesIInv, KnownIds
    <3>2. ASSUME NEW kind \in {"unpay", "remove"}, NEW u \in Users, Has(list.rows[u]),
                 list'.dialog = [kind |-> kind, user |-> u, row |-> list.rows[u]]
          PROVE  KnownId(list'.dialog.row.id, list'.dialog.user)
      <4>1. KnownId(list.rows[u].id, u)
        BY <3>2 DEF PagesIInv, KnownIds
      <4>2. list'.dialog.row = list.rows[u] /\ list'.dialog.user = u
        BY <3>2
      <4> QED BY <4>1, <4>2
    <3> QED BY <1>7, <3>1, <3>2
  <2> QED BY <1>1, <1>2, <1>5, <2>1, <2>2 DEF PagesIInv, KnownIds, Served, About, Closed, Of
<1>12. AnswersFit' /\ OrdersDiffer'
  BY <1>2, AnswersStay DEF PagesIInv
<1>13. RowsFollow'
  BY <1>1, <1>2, <1>5, SameServed, RowsStay DEF PagesIInv
<1>14. MineFollows'
  BY <1>1, <1>2, <1>4 DEF PagesIInv, MineFollows, MemberServed
<1> QED BY <1>9, <1>10, <1>11, <1>12, <1>13, <1>14 DEF PagesIInv

LEMMA MemberStepKeepsIInv ==
  ASSUME PagesIInv, MemberStep
  PROVE  PagesIInv'
<1>1. CASE SignUp
  BY <1>1, MemberSends DEF SignUp
<1>2. CASE Withdraw
  BY <1>2, MemberSends DEF Withdraw
<1>3. CASE SaveNote
  BY <1>3, MemberSends DEF SaveNote
<1>4. CASE AskToWithdraw
  BY <1>4, DialogKeepsIInv DEF AskToWithdraw
<1>5. CASE KeepPlace
  BY <1>5, DialogKeepsIInv DEF KeepPlace
<1> QED BY <1>1, <1>2, <1>3, <1>4, <1>5 DEF MemberStep

LEMMA AdminStepKeepsIInv ==
  ASSUME PagesIInv, AdminStep
  PROVE  PagesIInv'
<1>1. /\ list \in [loaded : BOOLEAN, rows : [Users -> Row], dialog : Dialogs]
      /\ OfferedTypes \subseteq RegistrationTypes
  BY PagesAssumption DEF PagesIInv, PagesTyped
<1>2. \A u \in Users :
        /\ list.rows[u] \in Row
        /\ Has(list.rows[u]) => list.rows[u].type \in RegistrationTypes
  BY <1>1 DEF Has, Row
<1>3. \A row \in Row : Has(row) => row.type \in RegistrationTypes
  BY DEF Has, Row
<1>4. ASSUME NEW u \in Users, NEW type \in OfferedTypes, ChangeType(u, type) PROVE PagesIInv'
  <2> DEFINE row == [list.rows[u] EXCEPT !.type = type]
  <2>1. row \in Row /\ row.type \in RegistrationTypes /\ row.id = list.rows[u].id
    BY <1>1, <1>2 DEF Row
  <2>2. KnownId(row.id, u) /\ list.loaded /\ "update" \in Edits
    BY <1>4, <2>1 DEF ChangeType, MayEdit, PagesIInv, KnownIds, Edits
  <2>3. Send(Call("admin", "update", u, row)) /\ UNCHANGED <<page, list>>
    BY <1>4 DEF ChangeType
  <2> HIDE DEF row
  <2> QED BY <2>1, <2>2, <2>3, AdminSends
<1>5. ASSUME NEW u \in Users, MarkPaid(u) PROVE PagesIInv'
  <2> DEFINE row == [list.rows[u] EXCEPT !.registered = TRUE]
  <2>1. row \in Row /\ row.type \in RegistrationTypes /\ row.id = list.rows[u].id
    BY <1>2, <1>5 DEF Row, MarkPaid, MayEdit
  <2>2. KnownId(row.id, u) /\ list.loaded /\ "update" \in Edits
    BY <1>5, <2>1 DEF MarkPaid, MayEdit, PagesIInv, KnownIds, Edits
  <2>3. Send(Call("admin", "update", u, row)) /\ UNCHANGED <<page, list>>
    BY <1>5 DEF MarkPaid
  <2> HIDE DEF row
  <2> QED BY <2>1, <2>2, <2>3, AdminSends
<1>6. ASSUME NEW u \in Users, NEW kind \in {"unpay", "remove"}, Ask(kind, u) PROVE PagesIInv'
  BY <1>6, DialogKeepsIInv DEF Ask, MayEdit
<1>7. CASE Confirm
  <2> DEFINE d == list.dialog
             row == [d.row EXCEPT !.registered = FALSE]
  <2>1. d \in Dialogs /\ d.kind \in Edits /\ Has(d.row) /\ d.user \in Users /\ list.loaded
        /\ KnownId(d.row.id, d.user)
    BY <1>1, <1>7 DEF Confirm, PagesIInv, PagesTyped, LoadedFirst, KnownIds, Dialogs, Edits
  <2>2. row \in Row /\ row.type \in RegistrationTypes /\ row.id = d.row.id
    BY <1>3, <2>1 DEF Dialogs, Row
  <2>3. Send(Call("admin", d.kind, d.user, row)) /\ UNCHANGED <<page, list>>
    BY <1>7 DEF Confirm
  <2> HIDE DEF row, d
  <2> QED BY <2>1, <2>2, <2>3, AdminSends
<1>8. CASE Dismiss
  <2>1. list.loaded
    BY <1>1, <1>8 DEF Dismiss, PagesIInv, LoadedFirst
  <2> QED BY <1>8, <2>1, DialogKeepsIInv DEF Dismiss
<1>9. ASSUME NEW u \in Users, NEW type \in OfferedTypes, NEW paid \in BOOLEAN, AddMember(u, type, paid)
      PROVE  PagesIInv'
  <2> DEFINE row == [id |-> 0, type |-> type, registered |-> paid]
  <2>1. row \in Row /\ row.type \in RegistrationTypes
    BY <1>1 DEF Row
  <2>2. list.loaded /\ "add" \notin Edits
    BY <1>9 DEF AddMember, Available, Edits
  <2>3. Send(Call("admin", "add", u, row)) /\ UNCHANGED <<page, list>>
    BY <1>9 DEF AddMember
  <2> HIDE DEF row
  <2> QED BY <2>1, <2>2, <2>3, AdminSends
<1> QED BY <1>4, <1>5, <1>6, <1>7, <1>8, <1>9 DEF AdminStep

-----------------------------------------------------------------------------
(* The service carries a request out and reads the answer                  *)

(* A set of numbers below a bound has a greatest one: the one with the     *)
(* least distance from the bound.                                          *)
LEMMA Greatest ==
  ASSUME NEW n \in Nat, NEW S \in SUBSET (0 .. n), S # {}
  PROVE  \E m \in S : \A k \in S : k <= m
<1> DEFINE gaps == {g \in Nat : \E k \in S : g = n - k}
<1>1. \A k \in S : k \in Nat /\ n - k \in gaps
  OBVIOUS
<1>2. gaps \subseteq Nat /\ gaps # {}
  BY <1>1
<1>3. PICK x \in gaps : \A y \in gaps : ~(<<y, x>> \in OpToRel(<, Nat))
  <2> HIDE DEF gaps
  <2> QED BY <1>2, NatLessThanWellFounded, WFMin
<1>4. PICK m \in S : x = n - m
  BY <1>3
<1>5. ASSUME NEW k \in S PROVE k <= m
  <2>1. n - k \in gaps /\ n - k \in Nat /\ n - m \in Nat /\ k \in Nat /\ m \in Nat
    BY <1>1
  <2>2. ~(n - k < n - m)
    BY <1>3, <1>4, <2>1 DEF OpToRel
  <2> QED BY <2>1, <2>2
<1> QED BY <1>5

(* The answer that is read gets the last place in the order.               *)
LEMMA LatestIsLast ==
  ASSUME PagesIInv, calls # {}
  PROVE  Latest \in Nat /\ \A d \in calls : d.order <= Latest
<1> DEFINE orders == {d.order : d \in calls}
<1>1. PICK n \in Nat : \A d \in CarriedOut : d.order <= n
  BY DEF PagesIInv, OrdersDiffer
<1>2. \A d \in calls : d.order \in Nat
  BY DEF PagesIInv, PagesTyped, PageCall
<1>3. \A d \in calls : d.order \in 0 .. n
  BY <1>1, <1>2 DEF CarriedOut
<1>4. orders \in SUBSET (0 .. n) /\ orders # {}
  BY <1>3
<1>5. \A d \in calls : d.order \in orders
  OBVIOUS
<1>6. Latest = CHOOSE l \in orders : \A k \in orders : k <= l
  BY DEF Latest
<1> HIDE DEF orders
<1>7. \E m \in orders : \A k \in orders : k <= m
  BY <1>1, <1>4, Greatest
<1>8. Latest \in orders /\ \A k \in orders : k <= Latest
  BY <1>6, <1>7
<1>9. Latest \in Nat
  BY <1>1, <1>4, <1>8
<1> QED BY <1>5, <1>8, <1>9

(* A step at which the answer to a request is read: at once, or after the  *)
(* change was committed.  The row that is edited is there.                 *)
Reads(c) == Serve(c) \/ Reread(c)

LEMMA WhatIsRead ==
  ASSUME PagesIInv, NEW c \in calls, Reads(c)
  PROVE  /\ PageCall(c) /\ c.order = 0 /\ c.op \notin {"lists", "summary"} /\ ReadAnswer(c)
         /\ IInv' /\ nextId' \in Nat /\ nextId' >= nextId
         /\ \A u \in Users : reg'[u].type # "NONE" => (Keeps(u) \/ Fresh(u)) /\ reg'[u].id < nextId'
         /\ c.op \in {"update", "unpay"} => reg'[c.user].id = c.id
         /\ c.op = "remove" => reg'[c.user] = NoRow
         /\ c.op \in Edits => HasRow(c.user) /\ reg[c.user].id = c.id
<1>1. PageCall(c) /\ IInv
  BY DEF PagesIInv, PagesTyped
<1>2. CASE Serve(c)
  <2>1. CarryOut(c) /\ c.order = 0 /\ c.op \notin {"lists", "summary"} /\ ReadAnswer(c)
    BY <1>1, <1>2 DEF Serve, PageCall
  <2>2. c.op \in Edits => HasRow(c.user) /\ reg[c.user].id = c.id
    BY <2>1 DEF CarryOut, Found, Edits
  <2> QED BY <1>1, <2>1, <2>2, ServiceKeepsIds
<1>3. CASE Reread(c)
  <2>1. c.op \in Changes /\ c.order = 0 /\ ReadAnswer(c) /\ UNCHANGED vars
        /\ HasRow(c.user) /\ reg[c.user].id = c.id
    BY <1>1, <1>3 DEF Reread, PageCall, Found
  <2>2. IInv' /\ reg' = reg /\ nextId' = nextId /\ nextId \in Nat
    BY <1>1, <2>1, NextIInv DEF vars, IInv, TypeOK
  <2>3. \A u \in Users : reg'[u].type # "NONE" => Keeps(u) /\ reg'[u].id < nextId'
    BY <1>1, <2>2 DEF Keeps, HasRow, IInv, IdsAreUnique
  <2> QED BY <1>1, <2>1, <2>2, <2>3 DEF Changes
<1> QED BY <1>2, <1>3 DEF Reads

(* What such a step does to the requests.                                  *)
LEMMA ReadLast ==
  ASSUME PagesIInv, NEW c \in calls, Reads(c)
  PROVE  \E s :
           /\ PageCall(s) /\ s.order \in Nat \ {0} /\ s.tab = c.tab /\ s.op = c.op
           /\ s.user = c.user /\ s.id = c.id
           /\ s.answer = [u \in Users |-> IF u \in About(c) THEN reg'[u] ELSE NoRow]
           /\ \A d \in CarriedOut : d.order < s.order
           /\ calls' = (calls \ {c}) \cup {s} /\ CarriedOut' = CarriedOut \cup {s}
<1>1. Latest \in Nat /\ \A d \in calls : d.order <= Latest
  BY LatestIsLast
<1> DEFINE answer == [u \in Users |-> IF u \in About(c) THEN reg'[u] ELSE NoRow]
           s == [c EXCEPT !.done = TRUE, !.order = Latest + 1, !.answer = answer]
<1>2. PageCall(c) /\ c.order = 0 /\ c.op \notin {"lists", "summary"} /\ ReadAnswer(c)
  BY WhatIsRead
<1>3. answer \in [Users -> Row]
  <2>1. reg' \in [Users -> Row] /\ NoRow \in Row
    BY WhatIsRead DEF IInv, TypeOK, NoRow, Row
  <2> QED BY <2>1
<1>4. /\ PageCall(s) /\ s.order = Latest + 1 /\ s.tab = c.tab /\ s.op = c.op
      /\ s.user = c.user /\ s.id = c.id /\ s.answer = answer
  <2> HIDE DEF answer
  <2>1. /\ c \in [n : {c.n}, tab : Tabs, op : MemberOps \cup AdminOps, user : Users, id : Nat,
                  type : RegistrationTypes \cup {"NONE"}, paid : BOOLEAN, done : BOOLEAN,
                  order : Nat, answer : [Users -> Row]]
        /\ Latest + 1 \in Nat
    BY <1>1, <1>2 DEF PageCall
  <2>2. /\ s.order = Latest + 1 /\ s.tab = c.tab /\ s.op = c.op /\ s.user = c.user
        /\ s.id = c.id /\ s.answer = answer /\ s.n = c.n /\ s.type = c.type /\ s.done = TRUE
    BY <2>1
  <2>3. s \in [n : {s.n}, tab : Tabs, op : MemberOps \cup AdminOps, user : Users, id : Nat,
               type : RegistrationTypes \cup {"NONE"}, paid : BOOLEAN, done : BOOLEAN,
               order : Nat, answer : [Users -> Row]]
    BY <1>3, <2>1, <2>2
  <2>4. s.order # 0
    BY <1>1, <2>2
  <2> HIDE DEF s
  <2> QED BY <1>2, <2>2, <2>3, <2>4 DEF PageCall
<1>5. calls' = (calls \ {c}) \cup {s}
  BY <1>2 DEF ReadAnswer
<1> HIDE DEF s, answer
<1>6. s.order \in Nat \ {0} /\ \A d \in CarriedOut : d.order < s.order
  <2>1. \A d \in calls : d.order \in Nat
    BY DEF PagesIInv, PagesTyped, PageCall
  <2> QED BY <1>1, <1>4, <2>1 DEF CarriedOut
<1>7. CarriedOut' = CarriedOut \cup {s}
  BY <1>2, <1>5, <1>6 DEF CarriedOut
<1> QED BY <1>4, <1>5, <1>6, <1>7 DEF answer

(* A row that is still stored under a known id was not just created.       *)
LEMMA IdsStayKnown ==
  ASSUME IInv, nextId' \in Nat, nextId' >= nextId,
         \A u \in Users : reg'[u].type # "NONE" => Keeps(u) \/ Fresh(u),
         \A u \in Users : left'["admin"][u] = left["admin"][u] \/ left'["admin"][u] = reg'[u]
  PROVE  \A i \in Nat, u \in Users : KnownId(i, u) => KnownId(i, u)'
<1>1. nextId \in Nat
  BY DEF IInv, TypeOK
<1> QED BY <1>1 DEF KnownId, Keeps, Fresh, HasRow

LEMMA ReadKeepsLeft ==
  ASSUME PagesIInv, NEW c \in calls, Reads(c)
  PROVE  /\ left' \in [Tabs -> [Users -> Row]]
         /\ \A u \in Users : left'[c.tab][u] = IF u \in About(c) THEN reg'[u] ELSE left[c.tab][u]
         /\ \A tab \in Tabs : tab # c.tab => left'[tab] = left[tab]
         /\ \A u \in Users : left'["admin"][u] = left["admin"][u] \/ left'["admin"][u] = reg'[u]
<1>1. c.tab \in Tabs /\ ReadAnswer(c) /\ IInv'
  BY WhatIsRead DEF PageCall
<1>2. reg' \in [Users -> Row] /\ left \in [Tabs -> [Users -> Row]] /\ "admin" \in Tabs
  BY <1>1 DEF PagesIInv, PagesTyped, IInv, TypeOK, Tabs
<1>3. left' = [left EXCEPT ![c.tab] =
         [u \in Users |-> IF u \in About(c) THEN reg'[u] ELSE left[c.tab][u]]]
  BY <1>1 DEF ReadAnswer
<1> QED BY <1>1, <1>2, <1>3

LEMMA ReadKeepsIInv ==
  ASSUME PagesIInv, NEW c \in calls, Reads(c)
  PROVE  PagesIInv'
<1>1. PICK s :
        /\ PageCall(s) /\ s.order \in Nat \ {0} /\ s.tab = c.tab /\ s.op = c.op
        /\ s.user = c.user /\ s.id = c.id
        /\ s.answer = [u \in Users |-> IF u \in About(c) THEN reg'[u] ELSE NoRow]
        /\ \A d \in CarriedOut : d.order < s.order
        /\ calls' = (calls \ {c}) \cup {s} /\ CarriedOut' = CarriedOut \cup {s}
  BY ReadLast
<1>2. PageCall(c) /\ IInv /\ UNCHANGED <<page, list, missed>> /\ c.op # "lists"
      /\ (c.op \in Edits => HasRow(c.user) /\ reg[c.user].id = c.id)
  BY WhatIsRead DEF PagesIInv, PagesTyped, ReadAnswer
<1>3. /\ IInv'
      /\ \A u \in Users : reg'[u].type # "NONE" => reg'[u].id < nextId' /\ (Keeps(u) \/ Fresh(u))
      /\ c.op \in {"update", "unpay"} => reg'[c.user].id = c.id
      /\ c.op = "remove" => reg'[c.user] = NoRow
  BY WhatIsRead
<1>4. /\ left' \in [Tabs -> [Users -> Row]]
      /\ \A u \in Users : left'[c.tab][u] = IF u \in About(c) THEN reg'[u] ELSE left[c.tab][u]
      /\ \A tab \in Tabs : tab # c.tab => left'[tab] = left[tab]
  BY ReadKeepsLeft
<1>5. /\ c.user \in Users /\ c.tab \in Tabs /\ "admin" \in Tabs /\ "member" \in Tabs
      /\ \A d \in CarriedOut : d \in calls /\ d.order \in Nat
      /\ About(s) = About(c) /\ (c.op # "list" => About(c) = {c.user})
      /\ \A u \in Users : s.answer[u] = IF u \in About(c) THEN reg'[u] ELSE NoRow
  BY <1>1, <1>2 DEF PageCall, Tabs, CarriedOut, PagesIInv, PagesTyped, About
<1>6. PagesTyped'
  BY <1>1, <1>2, <1>3, <1>4 DEF PagesIInv, PagesTyped, Closed
<1>7. OrdersDiffer'
  <2>1. \A d \in CarriedOut' : d.order <= s.order
    BY <1>1, <1>5
  <2>2. ASSUME NEW d \in CarriedOut', NEW e \in CarriedOut', d.order = e.order PROVE d = e
    BY <1>1, <1>5, <2>2 DEF PagesIInv, OrdersDiffer
  <2> QED BY <1>1, <2>1, <2>2 DEF OrdersDiffer
<1>8. LoadedFirst'
  BY <1>1, <1>2 DEF PagesIInv, LoadedFirst, Of, Closed
<1>9. AnswersFit'
  BY <1>1, <1>3, <1>5 DEF PagesIInv, AnswersFit, About
<1>10. KnownIds'
  <2> DEFINE Known(i, u) ==
               i < nextId' /\ (reg'[u].type # "NONE" /\ reg'[u].id = i => left'["admin"][u].id = i)
  <2>1. \A i \in Nat, u \in Users : KnownId(i, u) => Known(i, u)
    BY <1>2, WhatIsRead, ReadKeepsLeft, IdsStayKnown DEF KnownId, HasRow
  <2>2. /\ list.rows \in [Users -> Row]
        /\ list.dialog \in Dialogs
        /\ \A d \in calls : PageCall(d)
    BY DEF PagesIInv, PagesTyped
  <2>3. ASSUME NEW u \in Users, Has(list.rows[u]) PROVE Known(list.rows[u].id, u)
    <3>1. list.rows[u].id \in Nat /\ KnownId(list.rows[u].id, u)
      BY <1>2, <2>2, <2>3 DEF PagesIInv, KnownIds, Row
    <3> QED BY <2>1, <3>1
  <2>4. list.dialog # Closed => Known(list.dialog.row.id, list.dialog.user)
    <3>1. list.dialog.row.id \in Nat /\ list.dialog.user \in Users
      BY <2>2 DEF Dialogs, Row
    <3>2. list.dialog # Closed => KnownId(list.dialog.row.id, list.dialog.user)
      BY DEF PagesIInv, KnownIds
    <3> QED BY <2>1, <3>1, <3>2
  <2>5. ASSUME NEW d \in Of("admin")', d.op \in Edits PROVE Known(d.id, d.user)
    <3>1. PICK b \in calls : b.tab = "admin" /\ b.op \in Edits /\ b.id = d.id /\ b.user = d.user
      BY <1>1, <2>5 DEF Of
    <3>2. b.id \in Nat /\ b.user \in Users /\ KnownId(b.id, b.user)
      BY <2>2, <3>1 DEF PageCall, PagesIInv, KnownIds, Of
    <3> QED BY <2>1, <3>1, <3>2
  <2>6. ASSUME NEW u \in Users, NEW d \in Served(u)', Has(d.answer[u])
        PROVE  Known(d.answer[u].id, u)
    <3>1. CASE d \in CarriedOut
      <4>1. d.answer[u].id \in Nat /\ KnownId(d.answer[u].id, u)
        BY <1>5, <2>2, <2>6, <3>1 DEF PageCall, Row, PagesIInv, KnownIds, Served, About
      <4> QED BY <2>1, <4>1
    <3>2. CASE d = s
      <4>1. u \in About(c) /\ c.tab = "admin" /\ d.answer[u] = reg'[u] /\ left'["admin"][u] = reg'[u]
        BY <1>1, <1>4, <1>5, <2>6, <3>2 DEF Served, About
      <4>2. reg'[u].id < nextId'
        BY <1>3, <2>6, <4>1 DEF Has
      <4> QED BY <4>1, <4>2
    <3> QED BY <1>1, <2>6, <3>1, <3>2 DEF Served
  <2>7. \A i, u : KnownId(i, u)' <=> Known(i, u)
    BY DEF KnownId, HasRow
  <2> HIDE DEF Known
  <2> QED BY <1>2, <2>3, <2>4, <2>5, <2>6, <2>7 DEF KnownIds, Closed
<1>11. RowsFollow'
  <2> SUFFICES ASSUME NEW u \in Users, <<"admin", u>> \notin missed PROVE Leads(u)'
    BY <1>2 DEF RowsFollow
  <2>1. Leads(u)
    BY DEF PagesIInv, RowsFollow
  <2>2. CASE ~(c.tab = "admin" /\ u \in About(c))
    <3>1. Served(u)' = Served(u)
      BY <1>1, <1>5, <2>2 DEF Served, About
    <3>2. left'["admin"][u] = left["admin"][u]
      BY <1>4, <1>5, <2>2
    <3> QED BY <1>2, <2>1, <3>1, <3>2 DEF Leads, Meets
  <2>3. CASE c.tab = "admin" /\ u \in About(c)
    <3>1. /\ Served(u)' = Served(u) \cup {s}
          /\ \A d \in Served(u) : d.order \in Nat /\ d.order < s.order
      BY <1>1, <1>5, <2>3 DEF Served, About
    <3>2. s.answer[u] = reg'[u] /\ left'["admin"][u] = reg'[u]
      BY <1>4, <1>5, <2>3
    <3>3. c.op \in Edits => left["admin"][u].id = s.id /\ list.loaded
      <4>1. c.op \in Edits => u = c.user /\ HasRow(u) /\ reg[u].id = c.id
        BY <1>2, <1>5, <2>3 DEF Edits
      <4>2. c.op \in Edits => KnownId(c.id, c.user)
        BY <2>3 DEF PagesIInv, KnownIds, Of
      <4>3. c.op \in Edits => list.loaded
        BY <2>3 DEF PagesIInv, LoadedFirst, Of, Edits
      <4> QED BY <1>1, <4>1, <4>2, <4>3 DEF KnownId
    <3>4. Served(u) = {} => Meets(list.rows[u], s)
      BY <1>1, <2>1, <3>3 DEF Leads, Meets
    <3>5. \A d \in Served(u) : (\A e \in Served(u) : e.order <= d.order) => Meets(d.answer[u], s)
      BY <1>1, <2>1, <3>3 DEF Leads, Meets
    <3> HIDE DEF Served
    <3>6. list'.loaded /\ Served(u)' = {} => list'.rows[u] = left'["admin"][u]
      BY <3>1
    <3>7. \A d \in Served(u)' :
            (\A e \in Served(u)' : e.order <= d.order) => d.answer[u] = left'["admin"][u]
      BY <1>1, <3>1, <3>2
    <3>8. \A d \in Served(u)' :
            (\A e \in Served(u)' : d.order <= e.order) => Meets(list'.rows[u], d)
      BY <1>1, <1>2, <2>1, <3>1, <3>4 DEF Leads
    <3>9. \A d, e \in Served(u)' :
            d.order < e.order /\ (\A f \in Served(u)' : f.order <= d.order \/ e.order <= f.order)
              => Meets(d.answer[u], e)
      BY <1>1, <2>1, <3>1, <3>5 DEF Leads
    <3> QED BY <3>6, <3>7, <3>8, <3>9 DEF Leads, Meets
  <2> QED BY <2>2, <2>3
<1>12. MineFollows'
  <2> SUFFICES ASSUME page.shown # "error", <<"member", Member>> \notin missed
               PROVE  /\ MemberServed' = {} => page'.mine = left'["member"][Member]
                      /\ \A d \in MemberServed' :
                           (\A e \in MemberServed' : e.order <= d.order)
                             => d.answer[Member] = left'["member"][Member]
    BY <1>2 DEF MineFollows
  <2>1. CASE c.tab = "admin"
    <3>1. MemberServed' = MemberServed /\ left'["member"] = left["member"]
      BY <1>1, <1>4, <1>5, <2>1 DEF MemberServed
    <3> QED BY <1>2, <3>1 DEF PagesIInv, MineFollows
  <2>2. CASE c.tab = "member"
    <3>1. c.user = Member /\ c.op # "list" /\ Member \in About(c) /\ Member \in Users
      BY <1>2, <1>5, <2>2 DEF PageCall, MemberOps
    <3>2. s.answer[Member] = reg'[Member] /\ left'["member"][Member] = reg'[Member]
      BY <1>4, <1>5, <2>2, <3>1
    <3>3. /\ MemberServed' = MemberServed \cup {s}
          /\ \A d \in MemberServed : d.order \in Nat /\ d.order < s.order
      BY <1>1, <1>5, <2>2 DEF MemberServed
    <3> QED BY <1>1, <3>2, <3>3
  <2> QED BY <1>5, <2>1, <2>2 DEF Tabs
<1> QED BY <1>6, <1>7, <1>8, <1>9, <1>10, <1>11, <1>12 DEF PagesIInv

(* A change that is committed, and not read yet, alters nothing that a page *)
(* was told or will be told by the answers on their way.                   *)
LEMMA CommitKeepsIInv ==
  ASSUME PagesIInv, NEW c \in calls, Commit(c)
  PROVE  PagesIInv'
<1> DEFINE s == [c EXCEPT !.done = TRUE, !.id = reg'[c.user].id]
<1>1. PageCall(c) /\ CarryOut(c) /\ IInv /\ c.order = 0 /\ c.op \in Changes
      /\ UNCHANGED <<page, list, left, missed>> /\ calls' = (calls \ {c}) \cup {s}
  BY DEF PagesIInv, PagesTyped, Commit, Changes, PageCall
<1>2. /\ IInv' /\ nextId' \in Nat /\ nextId' >= nextId
      /\ \A u \in Users : reg'[u].type # "NONE" => Keeps(u) \/ Fresh(u)
      /\ c.op \in {"update", "unpay"} => reg'[c.user].id = c.id
  BY <1>1, ServiceKeepsIds
<1>3. /\ PageCall(s) /\ s.order = 0 /\ s.tab = c.tab /\ s.op = c.op /\ s.user = c.user
      /\ c.op \in Edits => s.id = c.id
  <2>1. /\ c \in [n : {c.n}, tab : Tabs, op : MemberOps \cup AdminOps, user : Users, id : Nat,
                  type : RegistrationTypes \cup {"NONE"}, paid : BOOLEAN, done : BOOLEAN,
                  order : Nat, answer : [Users -> Row]]
        /\ reg'[c.user].id \in Nat
    BY <1>1, <1>2 DEF PageCall, IInv, TypeOK, Row
  <2>2. /\ s.order = 0 /\ s.tab = c.tab /\ s.op = c.op /\ s.user = c.user
        /\ s.id = reg'[c.user].id /\ s.n = c.n /\ s.type = c.type
    BY <1>1, <2>1
  <2>3. s \in [n : {s.n}, tab : Tabs, op : MemberOps \cup AdminOps, user : Users, id : Nat,
               type : RegistrationTypes \cup {"NONE"}, paid : BOOLEAN, done : BOOLEAN,
               order : Nat, answer : [Users -> Row]]
    BY <2>1, <2>2
  <2> HIDE DEF s
  <2> QED BY <1>1, <1>2, <2>2, <2>3 DEF PageCall, Changes, Edits
<1> HIDE DEF s
<1>4. CarriedOut' = CarriedOut
  BY <1>1, <1>3 DEF CarriedOut
<1>5. PagesTyped'
  BY <1>1, <1>2, <1>3 DEF PagesIInv, PagesTyped, Closed
<1>6. LoadedFirst'
  BY <1>1, <1>3 DEF PagesIInv, LoadedFirst, Of, Closed, Changes
<1>7. KnownIds'
  <2> DEFINE Known(i, u) ==
               i < nextId' /\ (reg'[u].type # "NONE" /\ reg'[u].id = i => left["admin"][u].id = i)
  <2>1. \A i \in Nat, u \in Users : KnownId(i, u) => Known(i, u)
    BY <1>1, <1>2, IdsStayKnown DEF KnownId, HasRow
  <2>2. /\ list.rows \in [Users -> Row]
        /\ list.dialog \in Dialogs
        /\ \A d \in calls : PageCall(d)
    BY DEF PagesIInv, PagesTyped
  <2>3. ASSUME NEW u \in Users, Has(list.rows[u]) PROVE Known(list.rows[u].id, u)
    <3>1. list.rows[u].id \in Nat /\ KnownId(list.rows[u].id, u)
      BY <2>2, <2>3 DEF PagesIInv, KnownIds, Row
    <3> QED BY <2>1, <3>1
  <2>4. list.dialog # Closed => Known(list.dialog.row.id, list.dialog.user)
    <3>1. list.dialog.row.id \in Nat /\ list.dialog.user \in Users
      BY <2>2 DEF Dialogs, Row
    <3>2. list.dialog # Closed => KnownId(list.dialog.row.id, list.dialog.user)
      BY DEF PagesIInv, KnownIds
    <3> QED BY <2>1, <3>1, <3>2
  <2>5. ASSUME NEW d \in Of("admin")', d.op \in Edits PROVE Known(d.id, d.user)
    <3>1. PICK b \in calls : b.tab = "admin" /\ b.op \in Edits /\ b.id = d.id /\ b.user = d.user
      BY <1>1, <1>3, <2>5 DEF Of
    <3>2. b.id \in Nat /\ b.user \in Users /\ KnownId(b.id, b.user)
      BY <2>2, <3>1 DEF PageCall, PagesIInv, KnownIds, Of
    <3> QED BY <2>1, <3>1, <3>2
  <2>6. ASSUME NEW u \in Users, NEW d \in Served(u), Has(d.answer[u])
        PROVE  Known(d.answer[u].id, u)
    <3>1. d.answer[u].id \in Nat /\ KnownId(d.answer[u].id, u)
      BY <2>2, <2>6 DEF PageCall, Row, PagesIInv, KnownIds, Served, CarriedOut
    <3> QED BY <2>1, <3>1
  <2>7. \A i, u : KnownId(i, u)' <=> Known(i, u)
    BY <1>1 DEF KnownId, HasRow
  <2>8. \A u : Served(u)' = Served(u)
    BY <1>4, SameServed
  <2> HIDE DEF Known
  <2> QED BY <1>1, <2>3, <2>4, <2>5, <2>6, <2>7, <2>8 DEF KnownIds, Closed
<1>8. AnswersFit' /\ OrdersDiffer'
  BY <1>4, AnswersStay DEF PagesIInv
<1>9. RowsFollow' /\ MineFollows'
  BY <1>1, <1>4, SameServed, RowsStay, MineStays DEF PagesIInv, MemberServed
<1> QED BY <1>5, <1>6, <1>7, <1>8, <1>9 DEF PagesIInv

-----------------------------------------------------------------------------
(* The answers arrive                                                      *)

PageType == [shown : {"page", "error"}, mine : Row, confirming : BOOLEAN]

(* A request ends without a row for the list: it failed, or what was read  *)
(* for it is not about the registrations.                                  *)
LEMMA DropKeepsIInv ==
  ASSUME PagesIInv, NEW c \in calls, calls' = calls \ {c},
         UNCHANGED <<service, left>>, missed \subseteq missed',
         \A u \in Users : <<"admin", u>> \notin missed' => c \notin Served(u),
         \/ list' = list
         \/ list.loaded /\ list' = [list EXCEPT !.dialog = Closed],
         page' \in PageType, MineFollows'
  PROVE  PagesIInv'
<1>1. UNCHANGED <<event, reg, accounts, nextId, editor, left>>
  BY DEF service
<1>2. CarriedOut' = CarriedOut \ {c}
  BY DEF CarriedOut
<1>3. /\ list' \in [loaded : BOOLEAN, rows : [Users -> Row], dialog : Dialogs]
      /\ list'.loaded = list.loaded /\ list'.rows = list.rows
      /\ list' = list \/ (list.loaded /\ list'.dialog = Closed)
  <2>1. Closed \in Dialogs
    BY PagesAssumption DEF Closed, Dialogs, NoRow, Row
  <2> QED BY <2>1 DEF PagesIInv, PagesTyped
<1>4. PagesTyped'
  <2>1. UNCHANGED vars
    BY <1>1 DEF vars
  <2>2. IInv'
    BY <2>1, NextIInv DEF PagesIInv, PagesTyped
  <2> QED BY <1>1, <1>3, <2>2 DEF PagesIInv, PagesTyped, Closed, PageType
<1>5. LoadedFirst'
  BY <1>1, <1>3 DEF PagesIInv, LoadedFirst, Of, Closed
<1>6. KnownIds'
  <2>1. \A i, u : KnownId(i, u)' <=> KnownId(i, u)
    BY <1>1, KnownStays
  <2> QED BY <1>1, <1>2, <1>3, <2>1 DEF PagesIInv, KnownIds, Served, About, Closed, Of
<1>7. AnswersFit' /\ OrdersDiffer'
  BY <1>2, AnswersStay DEF PagesIInv
<1>8. RowsFollow'
  <2>1. \A u \in Users : Served(u)' = Served(u) \ {c}
    BY <1>2 DEF Served, About
  <2>2. \A u \in Users : <<"admin", u>> \notin missed' => Served(u)' = Served(u)
    BY <2>1
  <2> QED BY <1>1, <1>3, <2>2, RowsStay DEF PagesIInv
<1> QED BY <1>4, <1>5, <1>6, <1>7, <1>8 DEF PagesIInv

LEMMA ListsKeepIInv ==
  ASSUME PagesIInv, NEW c \in calls, ListsAnswered(c)
  PROVE  PagesIInv'
<1>1. c.order = 0 /\ page \in PageType /\ calls' = calls \ {c} /\ list' = list
      /\ UNCHANGED <<service, left, missed>>
  BY DEF PagesIInv, PagesTyped, PageCall, ListsAnswered, PageType
<1>2. page' \in PageType /\ page'.mine = page.mine /\ page'.shown = page.shown
  BY <1>1 DEF ListsAnswered, PageType
<1>3. c \notin CarriedOut /\ CarriedOut' = CarriedOut
  BY <1>1 DEF CarriedOut
<1>4. MineFollows'
  BY <1>1, <1>2, <1>3, MineStays DEF PagesIInv, MemberServed
<1> QED BY <1>1, <1>2, <1>3, <1>4, DropKeepsIInv DEF Served

LEMMA SummaryKeepsIInv ==
  ASSUME PagesIInv, NEW c \in calls, SummaryAnswered(c)
  PROVE  PagesIInv'
<1>1. PageCall(c) /\ page' = page /\ page \in PageType /\ calls' = calls \ {c}
      /\ UNCHANGED <<service, left, missed>> /\ list' = [list EXCEPT !.dialog = Closed]
  BY DEF PagesIInv, PagesTyped, SummaryAnswered, PageType
<1>2. c.order = 0 /\ c.tab = "admin" /\ c.op # "list"
  BY DEF SummaryAnswered, PagesIInv, PagesTyped, PageCall, MemberOps, Tabs
<1>3. c \notin CarriedOut /\ CarriedOut' = CarriedOut
  BY <1>1, <1>2 DEF CarriedOut
<1>4. list.loaded
  BY <1>2 DEF PagesIInv, LoadedFirst, Of
<1>5. MineFollows'
  BY <1>1, <1>3, MineStays DEF PagesIInv, MemberServed
<1> QED BY <1>1, <1>3, <1>4, <1>5, DropKeepsIInv DEF Served

LEMMA MemberFailedKeepsIInv ==
  ASSUME PagesIInv, NEW c \in calls, MemberFailed(c)
  PROVE  PagesIInv'
<1>1. page \in PageType /\ NoRow \in Row
  BY DEF PagesIInv, PagesTyped, PageType, NoRow, Row
<1>2. \A u \in Users : c \notin Served(u)
  BY DEF MemberFailed, Served
<1>3. /\ calls' = calls \ {c} /\ list' = list
      /\ UNCHANGED <<service, left>> /\ missed \subseteq missed'
  BY DEF MemberFailed
<1>4. page' \in PageType /\ MineFollows'
  <2>1. CASE c.op = "mine"
    <3>1. page' \in PageType /\ <<"member", Member>> \in missed'
      BY <1>1, <2>1 DEF MemberFailed, PageType
    <3> QED BY <3>1 DEF MineFollows
  <2>2. CASE c.op # "mine"
    <3>1. page' \in PageType /\ page'.shown = "error"
      BY <1>1, <2>2 DEF MemberFailed, PageType
    <3> QED BY <3>1 DEF MineFollows
  <2> QED BY <2>1, <2>2
<1> QED BY <1>2, <1>3, <1>4, DropKeepsIInv

(* A request of the administrator that fails after it was carried out: no  *)
(* more is said of the rows it was about.                                  *)
LEMMA AdminFailedKeepsIInv ==
  ASSUME PagesIInv, NEW c \in calls, AdminFailed(c)
  PROVE  PagesIInv'
<1>1. /\ PageCall(c) /\ c.tab = "admin" /\ calls' = calls \ {c}
      /\ UNCHANGED <<service, page, list, left>> /\ missed \subseteq missed'
      /\ c.done => \A u \in About(c) : <<"admin", u>> \in missed'
  BY DEF PagesIInv, PagesTyped, AdminFailed
<1>2. page' \in PageType
  BY <1>1 DEF PagesIInv, PagesTyped, PageType
<1>3. \A u \in Users : <<"admin", u>> \notin missed' => c \notin Served(u)
  BY <1>1 DEF Served, CarriedOut, PageCall
<1>4. MineFollows'
  <2>1. MemberServed' = MemberServed
    BY <1>1 DEF MemberServed, CarriedOut
  <2> QED BY <1>1, <2>1, MineStays DEF PagesIInv
<1> QED BY <1>1, <1>2, <1>3, <1>4, DropKeepsIInv

(* Nothing of the administrator's changes when the member is answered.     *)
LEMMA MemberAnsweredKeepsIInv ==
  ASSUME PagesIInv, NEW c \in calls, MemberAnswered(c)
  PROVE  PagesIInv'
<1> DEFINE lists == [c EXCEPT !.op = "lists", !.done = FALSE, !.order = 0, !.answer = NoRows]
<1>1. /\ UNCHANGED <<event, reg, accounts, nextId, editor, left, list>>
      /\ missed' = missed \cup Overtakes(c)
      /\ PageCall(c) /\ c.tab = "member" /\ c.order # 0
  BY DEF MemberAnswered, Answer, service, PagesIInv, PagesTyped
<1>2. c.user = Member /\ Member \in Users /\ c.answer \in [Users -> Row] /\ c.op # "list"
      /\ c.order \in Nat /\ About(c) = {Member}
  BY <1>1 DEF PageCall, MemberOps, About
<1>3. calls' = calls \ {c} \/ calls' = (calls \ {c}) \cup {lists}
  BY DEF MemberAnswered
<1>4. PageCall(lists) /\ lists.order = 0 /\ lists.tab = "member" /\ lists.op = "lists"
  <2>1. NoRows \in [Users -> Row]
    BY DEF NoRows, NoRow, Row
  <2>2. /\ lists.order = 0 /\ lists.tab = "member" /\ lists.op = "lists" /\ lists.user = Member
        /\ lists.answer = NoRows /\ lists.n = c.n /\ lists.id = c.id /\ lists.type = c.type
        /\ lists.done = FALSE
    BY <1>1, <1>2 DEF PageCall
  <2>3. lists \in [n : {lists.n}, tab : Tabs, op : MemberOps \cup AdminOps, user : Users, id : Nat,
                   type : RegistrationTypes \cup {"NONE"}, paid : BOOLEAN, done : BOOLEAN,
                   order : Nat, answer : [Users -> Row]]
    BY <1>1, <2>1, <2>2 DEF PageCall, MemberOps
  <2> QED BY <2>2, <2>3 DEF PageCall, MemberOps
<1> HIDE DEF lists
<1>5. CarriedOut' = CarriedOut \ {c}
  BY <1>3, <1>4 DEF CarriedOut
<1>6. page' \in PageType /\ page'.mine = c.answer[Member] /\ page'.shown = page.shown
  BY <1>2 DEF MemberAnswered, PagesIInv, PagesTyped, PageType
<1>7. PagesTyped'
  <2>1. UNCHANGED vars
    BY <1>1 DEF vars
  <2>2. IInv'
    BY <2>1, NextIInv DEF PagesIInv, PagesTyped
  <2> QED BY <1>1, <1>3, <1>4, <1>6, <2>2 DEF PagesIInv, PagesTyped, Closed, PageType
<1>8. \A d \in calls' : d.tab = "admin" => d \in calls
  BY <1>3, <1>4
<1>9. LoadedFirst'
  BY <1>1, <1>3, <1>4 DEF PagesIInv, LoadedFirst, Of, Closed
<1>10. \A u : Served(u)' = Served(u)
  BY <1>1, <1>5 DEF Served, About
<1>11. KnownIds'
  <2>1. \A i, u : KnownId(i, u)' <=> KnownId(i, u)
    BY <1>1, KnownStays
  <2> QED BY <1>1, <1>8, <1>10, <2>1 DEF PagesIInv, KnownIds, Closed, Of
<1>12. AnswersFit' /\ OrdersDiffer'
  BY <1>5, AnswersStay DEF PagesIInv
<1>13. RowsFollow'
  BY <1>1, <1>10, RowsStay DEF PagesIInv
<1>14. MineFollows'
  <2> SUFFICES ASSUME page.shown # "error", <<"member", Member>> \notin missed'
               PROVE  /\ MemberServed' = {} => page'.mine = left'["member"][Member]
                      /\ \A d \in MemberServed' :
                           (\A e \in MemberServed' : e.order <= d.order)
                             => d.answer[Member] = left'["member"][Member]
    BY <1>6 DEF MineFollows
  <2>1. c \in MemberServed /\ MemberServed' = MemberServed \ {c}
        /\ \A d \in MemberServed : d.order \in Nat
    BY <1>1, <1>5 DEF MemberServed, CarriedOut, PagesIInv, PagesTyped, PageCall
  <2>2. \A d \in MemberServed : c.order <= d.order
    <3>1. \A d \in MemberServed : Member \in About(d) /\ d \in Of("member") /\ d.order # 0
      BY DEF MemberServed, CarriedOut, Of, PagesIInv, PagesTyped, PageCall, MemberOps, About
    <3>2. ASSUME NEW d \in MemberServed, d.order < c.order PROVE FALSE
      BY <1>1, <1>2, <3>1, <3>2 DEF Overtakes
    <3> QED BY <1>2, <2>1, <3>2
  <2>3. \A d \in MemberServed :
          (\A e \in MemberServed : e.order <= d.order) => d.answer[Member] = left["member"][Member]
    BY <1>1 DEF PagesIInv, MineFollows
  <2> HIDE DEF MemberServed
  <2>4. MemberServed' = {} => \A e \in MemberServed : e.order <= c.order
    BY <1>2, <2>1
  <2> QED BY <1>1, <1>6, <2>1, <2>2, <2>3, <2>4
<1> QED BY <1>7, <1>9, <1>11, <1>12, <1>13, <1>14 DEF PagesIInv

(* The answer that is not missed puts the row on the page that the      *)
(* request left.                                                           *)
LEMMA ShowsTheAnswer ==
  ASSUME PagesIInv, NEW c \in calls, AdminAnswered(c), NEW u \in Users,
         u \in About(c), Meets(list.rows[u], c)
  PROVE  list'.rows[u] = c.answer[u]
<1>1. PageCall(c) /\ c.tab = "admin" /\ c \in CarriedOut /\ list'.rows = RowsAfter(c)
     /\ c.op # "summary"
  BY DEF PagesIInv, PagesTyped, AdminAnswered, Answer, CarriedOut
<1>2. list.rows \in [Users -> Row] /\ c.answer \in [Users -> Row]
  BY <1>1 DEF PageCall, PagesIInv, PagesTyped
<1>3. CASE c.op = "list"
  BY <1>1, <1>3 DEF RowsAfter
<1>4. CASE c.op \in {"update", "unpay"}
  <2>1. c.answer[c.user].id = c.id /\ u = c.user /\ list.rows[u].id = c.id
    BY <1>1, <1>4 DEF PagesIInv, AnswersFit, About, Meets, Edits
  <2>2. list'.rows = Replaced(c)
    BY <1>1, <1>4 DEF RowsAfter
  <2> QED BY <1>2, <2>1, <2>2 DEF Replaced
<1>5. CASE c.op = "remove"
  <2>1. c.answer[c.user] = NoRow /\ u = c.user /\ list.rows[u].id = c.id
    BY <1>1, <1>5 DEF PagesIInv, AnswersFit, About, Meets, Edits
  <2>2. list'.rows = Removed(c)
    BY <1>1, <1>5 DEF RowsAfter
  <2> QED BY <1>2, <2>1, <2>2 DEF Removed
<1>6. CASE c.op = "add"
  <2>1. u = c.user
    BY <1>6 DEF About
  <2>2. list'.rows = Added(c)
    BY <1>1, <1>6 DEF RowsAfter
  <2> QED BY <1>2, <2>1, <2>2 DEF Added
<1> QED BY <1>1, <1>3, <1>4, <1>5, <1>6 DEF PageCall, AdminOps, Edits

(* Every row afterwards was there before, is the answer or is none, and    *)
(* the answer concerns only the rows the request was about.                *)
LEMMA RowsComeFrom ==
  ASSUME PagesIInv, NEW c \in calls, AdminAnswered(c)
  PROVE  /\ list' \in [loaded : BOOLEAN, rows : [Users -> Row], dialog : Dialogs]
         /\ list'.loaded /\ list'.dialog = list.dialog
         /\ \A u \in Users :
              \/ list'.rows[u] = list.rows[u]
              \/ u \in About(c) /\ list'.rows[u] \in {c.answer[u], NoRow}
<1>1. PageCall(c) /\ c.tab = "admin" /\ c.op # "summary"
  BY DEF PagesIInv, PagesTyped, AdminAnswered
<1>2. list.rows \in [Users -> Row] /\ c.answer \in [Users -> Row] /\ list.dialog \in Dialogs
      /\ c.user \in Users /\ NoRow \in Row
  BY <1>1 DEF PageCall, PagesIInv, PagesTyped, NoRow, Row
<1>3. /\ RowsAfter(c) \in [Users -> Row]
      /\ \A u \in Users :
           \/ RowsAfter(c)[u] = list.rows[u]
           \/ u \in About(c) /\ RowsAfter(c)[u] \in {c.answer[u], NoRow}
  <2>1. CASE c.op = "list"
    BY <1>2, <2>1 DEF RowsAfter, About
  <2>2. CASE c.op \in {"update", "unpay"}
    <3>1. RowsAfter(c) = Replaced(c) /\ About(c) = {c.user}
      BY <2>2 DEF RowsAfter, About
    <3> QED BY <1>2, <3>1 DEF Replaced
  <2>3. CASE c.op = "remove"
    <3>1. RowsAfter(c) = Removed(c) /\ About(c) = {c.user}
      BY <2>3 DEF RowsAfter, About
    <3> QED BY <1>2, <3>1 DEF Removed
  <2>4. CASE c.op = "add"
    <3>1. RowsAfter(c) = Added(c) /\ About(c) = {c.user}
      BY <2>4 DEF RowsAfter, About
    <3> QED BY <1>2, <3>1 DEF Added
  <2> QED BY <1>1, <2>1, <2>2, <2>3, <2>4 DEF PageCall, AdminOps, Edits
<1>4. list' = [loaded |-> TRUE, rows |-> RowsAfter(c), dialog |-> list.dialog]
  BY DEF AdminAnswered, PagesIInv, PagesTyped
<1> QED BY <1>2, <1>3, <1>4

LEMMA AdminAnsweredKeepsIInv ==
  ASSUME PagesIInv, NEW c \in calls, AdminAnswered(c)
  PROVE  PagesIInv'
<1> DEFINE summary == [c EXCEPT !.op = "summary", !.done = FALSE, !.order = 0, !.answer = NoRows]
<1>1. /\ UNCHANGED <<event, reg, accounts, nextId, editor, left, page>>
      /\ missed' = missed \cup Overtakes(c)
      /\ PageCall(c) /\ c.tab = "admin" /\ c.order # 0 /\ c \in CarriedOut
  BY DEF AdminAnswered, Answer, service, PagesIInv, PagesTyped, CarriedOut
<1>2. /\ list' \in [loaded : BOOLEAN, rows : [Users -> Row], dialog : Dialogs]
      /\ list'.loaded /\ list'.dialog = list.dialog
      /\ \A u \in Users :
           \/ list'.rows[u] = list.rows[u]
           \/ u \in About(c) /\ list'.rows[u] \in {c.answer[u], NoRow}
  BY RowsComeFrom
<1>3. PageCall(summary) /\ summary.order = 0 /\ summary.tab = "admin" /\ summary.op = "summary"
  <2>1. NoRows \in [Users -> Row]
    BY DEF NoRows, NoRow, Row
  <2>2. /\ summary.order = 0 /\ summary.tab = "admin" /\ summary.op = "summary"
        /\ summary.answer = NoRows /\ summary.n = c.n /\ summary.done = FALSE
    BY <1>1 DEF PageCall
  <2>3. summary \in [n : {summary.n}, tab : Tabs, op : MemberOps \cup AdminOps, user : Users,
                     id : Nat, type : RegistrationTypes \cup {"NONE"}, paid : BOOLEAN,
                     done : BOOLEAN, order : Nat, answer : [Users -> Row]]
    BY <1>1, <2>1, <2>2 DEF PageCall, AdminOps
  <2> QED BY <2>2, <2>3 DEF PageCall, AdminOps
<1>4. calls' = calls \ {c} \/ calls' = (calls \ {c}) \cup {summary}
  BY DEF AdminAnswered
<1> HIDE DEF summary
<1>5. CarriedOut' = CarriedOut \ {c}
  BY <1>3, <1>4 DEF CarriedOut
<1>6. PagesTyped'
  <2>1. UNCHANGED vars
    BY <1>1 DEF vars
  <2>2. IInv'
    BY <2>1, NextIInv DEF PagesIInv, PagesTyped
  <2> QED BY <1>1, <1>2, <1>3, <1>4, <2>2 DEF PagesIInv, PagesTyped, Closed
<1>7. AnswersFit' /\ OrdersDiffer'
  BY <1>5, AnswersStay DEF PagesIInv
<1>8. LoadedFirst'
  BY <1>1, <1>2, <1>3, <1>4 DEF PagesIInv, LoadedFirst, Of, CarriedOut
<1>9. KnownIds'
  <2>1. \A i, u : KnownId(i, u)' <=> KnownId(i, u)
    BY <1>1, KnownStays
  <2>2. ASSUME NEW u \in Users, Has(list'.rows[u]) PROVE KnownId(list'.rows[u].id, u)
    <3>1. CASE list'.rows[u] = list.rows[u]
      BY <2>2, <3>1 DEF PagesIInv, KnownIds
    <3>2. CASE u \in About(c) /\ list'.rows[u] = c.answer[u]
      BY <1>1, <2>2, <3>2 DEF PagesIInv, KnownIds, Served
    <3>3. CASE list'.rows[u] = NoRow
      BY <2>2, <3>3 DEF Has, NoRow
    <3> QED BY <1>2, <3>1, <3>2, <3>3
  <2>3. list'.dialog # Closed => KnownId(list'.dialog.row.id, list'.dialog.user)
    BY <1>2 DEF PagesIInv, KnownIds
  <2>4. \A d \in Of("admin")' : d.op \in Edits => d \in Of("admin")
    BY <1>3, <1>4 DEF Of, Edits
  <2> QED BY <1>1, <1>5, <2>1, <2>2, <2>3, <2>4 DEF PagesIInv, KnownIds, Served, About, Closed
<1>10. RowsFollow'
  <2> SUFFICES ASSUME NEW u \in Users, <<"admin", u>> \notin missed' PROVE Leads(u)'
    BY DEF RowsFollow
  <2>1. Leads(u)
    BY <1>1 DEF PagesIInv, RowsFollow
  <2>2. CASE u \notin About(c)
    <3>1. Served(u)' = Served(u) /\ list'.rows[u] = list.rows[u]
      BY <1>2, <1>5, <2>2 DEF Served, About
    <3>2. list.loaded
      BY <1>1, <2>2 DEF PagesIInv, LoadedFirst, Of, About
    <3> QED BY <1>1, <2>1, <3>1, <3>2 DEF Leads, Meets
  <2>3. CASE u \in About(c)
    <3>1. /\ c \in Served(u) /\ Served(u)' = Served(u) \ {c}
          /\ \A d \in Served(u) : d.order \in Nat
      BY <1>1, <1>5, <2>3 DEF Served, About, CarriedOut, PagesIInv, PagesTyped, PageCall
    <3>2. \A d \in Served(u) : c.order <= d.order
      <4>1. \A d \in Served(u) : d \in Of("admin") /\ d.order # 0 /\ u \in About(d)
        BY DEF Served, CarriedOut, Of
      <4>2. ASSUME NEW d \in Served(u), d.order < c.order PROVE FALSE
        BY <1>1, <2>3, <4>1, <4>2 DEF Overtakes
      <4> QED BY <3>1, <4>2
    <3>3. list'.rows[u] = c.answer[u]
      BY <2>1, <2>3, <3>1, <3>2, ShowsTheAnswer DEF Leads
    <3> HIDE DEF Served
    <3>4. Served(u)' = {} => list'.rows[u] = left'["admin"][u]
      <4>1. Served(u)' = {} => \A d \in Served(u) : d.order <= c.order
        BY <3>1
      <4> QED BY <1>1, <2>1, <3>1, <3>3, <4>1 DEF Leads
    <3>5. \A d \in Served(u)' :
            (\A e \in Served(u)' : e.order <= d.order) => d.answer[u] = left'["admin"][u]
      BY <1>1, <2>1, <3>1, <3>2 DEF Leads
    <3>6. ASSUME NEW d \in Served(u)', \A e \in Served(u)' : d.order <= e.order
          PROVE  Meets(list'.rows[u], d)
      <4>1. d.order # c.order
        BY <3>1 DEF PagesIInv, OrdersDiffer, Served
      <4>2. c.order < d.order /\ \A e \in Served(u) : e.order <= c.order \/ d.order <= e.order
        BY <3>1, <3>2, <3>6, <4>1
      <4> QED BY <2>1, <3>1, <3>3, <4>2 DEF Leads
    <3>7. ASSUME NEW d \in Served(u)', NEW e \in Served(u)', d.order < e.order,
                 \A f \in Served(u)' : f.order <= d.order \/ e.order <= f.order
          PROVE  Meets(d.answer[u], e)
      <4>1. \A f \in Served(u) : f.order <= d.order \/ e.order <= f.order
        BY <3>1, <3>2, <3>7
      <4> QED BY <2>1, <3>1, <3>7, <4>1 DEF Leads
    <3> QED BY <3>4, <3>5, <3>6, <3>7 DEF Leads, Meets
  <2> QED BY <2>2, <2>3
<1>11. MineFollows'
  <2>1. MemberServed' = MemberServed
    BY <1>1, <1>5 DEF MemberServed
  <2> QED BY <1>1, <2>1 DEF PagesIInv, MineFollows
<1> QED BY <1>6, <1>7, <1>8, <1>9, <1>10, <1>11 DEF PagesIInv

-----------------------------------------------------------------------------
(* Whoever has the pages open sees what the requests left                  *)

LEMMA PagesInitIInv == PagesInit => PagesIInv
<1> SUFFICES ASSUME NEW rows \in [Users -> Row], NEW n \in Nat \ {0},
                    Storable(rows, n), OpenedOn(rows, n)
             PROVE  PagesIInv
  BY DEF PagesInit
<1> DEFINE mine == Asked("member", "mine", 0, Member, NoRow)
           all == Asked("admin", "list", 1, Member, NoRow)
<1>1. Member \in Users /\ NoRow \in Row
  BY PagesAssumption DEF NoRow, Row
<1>2. /\ PageCall(mine) /\ mine.order = 0 /\ mine.op = "mine" /\ mine.tab = "member"
      /\ PageCall(all) /\ all.order = 0 /\ all.op = "list" /\ all.tab = "admin"
  <2>1. /\ "member" \in Tabs /\ "mine" \in MemberOps /\ "mine" \notin {"update", "unpay", "add"}
        /\ "admin" \in Tabs /\ "list" \in AdminOps /\ "list" \notin {"update", "unpay", "add"}
    BY DEF Tabs, MemberOps, AdminOps, Edits
  <2>2. PageCall(mine) /\ mine.order = 0 /\ mine.op = "mine" /\ mine.tab = "member"
    BY <1>1, <2>1, AskedIsACall
  <2>3. PageCall(all) /\ all.order = 0 /\ all.op = "list" /\ all.tab = "admin"
    BY <1>1, <2>1, AskedIsACall
  <2> QED BY <2>2, <2>3
<1>3. /\ reg = rows /\ nextId = n /\ accounts = Users /\ editor = [e \in Editors |-> Idle]
      /\ event \in [type : {"EVENT"}, max : Capacities, window : Windows]
      /\ page = [shown |-> "page", mine |-> NoRow, confirming |-> FALSE]
      /\ list = [loaded |-> FALSE, rows |-> NoRows, dialog |-> Closed]
      /\ calls = {mine, all} /\ left = [tab \in Tabs |-> NoRows]
  BY DEF OpenedOn
<1>4. IInv
  <2>1. TypeOK
    BY <1>3 DEF TypeOK, Event, ContentTypes, HasRow
  <2>2. IdsAreUnique
    BY <1>3 DEF IdsAreUnique, Storable, HasRow, NoRow
  <2> QED BY <2>1, <2>2 DEF IInv
<1> HIDE DEF mine, all
<1>5. CarriedOut = {}
  BY <1>2, <1>3 DEF CarriedOut
<1>6. PagesTyped
  <2>1. NoRows \in [Users -> Row] /\ Closed \in Dialogs
    BY <1>1 DEF NoRows, Closed, Dialogs
  <2> QED BY <1>1, <1>2, <1>3, <1>4, <2>1 DEF PagesTyped
<1>7. OrdersDiffer /\ AnswersFit
  BY <1>5 DEF OrdersDiffer, AnswersFit
<1>8. LoadedFirst
  BY <1>2, <1>3 DEF LoadedFirst, Of
<1>9. KnownIds
  <2>1. \A u \in Users : ~Has(list.rows[u])
    BY <1>3 DEF Has, NoRows, NoRow
  <2>2. \A c \in Of("admin") : c.op \notin Edits
    BY <1>2, <1>3 DEF Of, Edits
  <2> QED BY <1>3, <1>5, <2>1, <2>2 DEF KnownIds, Served
<1>10. RowsFollow
  BY <1>3, <1>5 DEF RowsFollow, Leads, Served
<1>11. MineFollows
  <2>1. page.mine = left["member"][Member]
    BY <1>1, <1>3 DEF Tabs, NoRows
  <2> QED BY <1>5, <2>1 DEF MineFollows, MemberServed
<1> QED BY <1>6, <1>7, <1>8, <1>9, <1>10, <1>11 DEF PagesIInv

LEMMA PagesNextIInv == PagesIInv /\ [PagesNext]_pageVars => PagesIInv'
<1> SUFFICES ASSUME PagesIInv, [PagesNext]_pageVars PROVE PagesIInv'
  OBVIOUS
<1>1. CASE MemberStep
  BY <1>1, MemberStepKeepsIInv
<1>2. CASE AdminStep
  BY <1>2, AdminStepKeepsIInv
<1>3. ASSUME NEW c \in calls, Serve(c) \/ Commit(c) \/ Reread(c) PROVE PagesIInv'
  BY <1>3, ReadKeepsIInv, CommitKeepsIInv DEF Reads
<1>4. ASSUME NEW c \in calls, Answering(c) PROVE PagesIInv'
  BY <1>4, MemberAnsweredKeepsIInv, ListsKeepIInv, MemberFailedKeepsIInv,
     AdminAnsweredKeepsIInv, SummaryKeepsIInv, AdminFailedKeepsIInv DEF Answering
<1>5. CASE UNCHANGED pageVars
  <2>1. UNCHANGED <<service, calls, sent, left, missed>> /\ page' = page /\ list' = list
    BY <1>5 DEF pageVars
  <2> QED BY <2>1, DialogKeepsIInv
<1> QED BY <1>1, <1>2, <1>3, <1>4, <1>5 DEF PagesNext

(* A member for whom nothing is under way sees the own registration as it  *)
(* was read for the last of the member's requests, however many of them    *)
(* ran side by side and whoever came between a change and its reading,     *)
(* unless an answer overtook another or the page shows an error.           *)
THEOREM MineIsWhatWasLeft == PagesSpec => []MineIsAsLeft
<1>1. PagesIInv => MineIsAsLeft
  BY DEF PagesIInv, MineFollows, MemberServed, CarriedOut, MineIsAsLeft, Of
<1> QED BY <1>1, PagesInitIInv, PagesNextIInv, PTL DEF PagesSpec

(* The same of every row of the list, though an answer replaces only the   *)
(* row with its id and a dialog sends a row from before; not of a row that *)
(* was changed by a request whose answer did not come.                     *)
THEOREM RowsAreWhatWasLeft == PagesSpec => []RowsAreAsLeft
<1>1. PagesIInv => RowsAreAsLeft
  BY DEF PagesIInv, RowsFollow, Leads, Served, CarriedOut, RowsAreAsLeft, Of
<1> QED BY <1>1, PagesInitIInv, PagesNextIInv, PTL DEF PagesSpec

(* Only the registration that was on the screen is changed or removed.     *)
THEOREM EditsTheRowShown == PagesSpec => ActsOnTheRowShown
<1>1. ASSUME [PagesNext]_pageVars PROVE [ActsOnTheRow]_pageVars
  <2>1. CASE MemberStep \/ AdminStep
    <3>1. reg' = reg
      BY <2>1 DEF MemberStep, SignUp, AskToWithdraw, Withdraw, KeepPlace, SaveNote, AdminStep,
         ChangeType, MarkPaid, Ask, Confirm, Dismiss, AddMember, Send, service
    <3> QED BY <3>1 DEF ActsOnTheRow
  <2>2. ASSUME NEW c \in calls, Answering(c) PROVE ActsOnTheRow
    <3>1. reg' = reg
      BY <2>2 DEF Answering, MemberAnswered, ListsAnswered, MemberFailed, AdminAnswered,
         SummaryAnswered, AdminFailed, Answer, service
    <3> QED BY <3>1 DEF ActsOnTheRow
  <2>3. ASSUME NEW c \in calls, Serve(c) \/ Commit(c) \/ Reread(c) PROVE ActsOnTheRow
    <3>1. c.op \in {"update", "unpay", "remove"} => reg[c.user].id = c.id
      BY <2>3 DEF Serve, Commit, Reread, CarryOut, Found
    <3>2. \A d \in calls : d \notin calls' => d = c
      BY <2>3 DEF Serve, Commit, Reread, ReadAnswer
    <3> QED BY <3>1, <3>2 DEF ActsOnTheRow
  <2> QED BY <1>1, <2>1, <2>2, <2>3 DEF PagesNext
<1> QED BY <1>1, PTL DEF PagesSpec, ActsOnTheRowShown

(* Whatever the pages do is something the service does: they implement its *)
(* specification.                                                          *)
THEOREM PagesUseTheService == PagesSpec => [][Next]_vars
<1>1. PagesIInv /\ [PagesNext]_pageVars => [Next]_vars
  <2> SUFFICES ASSUME PagesIInv, [PagesNext]_pageVars PROVE [Next]_vars
    OBVIOUS
  <2>1. CASE MemberStep \/ AdminStep
    BY <2>1 DEF MemberStep, SignUp, AskToWithdraw, Withdraw, KeepPlace, SaveNote, AdminStep,
       ChangeType, MarkPaid, Ask, Confirm, Dismiss, AddMember, Send, service, vars
  <2>2. ASSUME NEW c \in calls, Answering(c) PROVE [Next]_vars
    BY <2>2 DEF Answering, MemberAnswered, ListsAnswered, MemberFailed, AdminAnswered,
       SummaryAnswered, AdminFailed, Answer, service, vars
  <2>3. ASSUME NEW c \in calls, Serve(c) \/ Commit(c) \/ Reread(c) PROVE [Next]_vars
    BY <2>3, RequestsUseTheService DEF Serve, Commit, Reread, PagesIInv, PagesTyped
  <2>4. CASE UNCHANGED pageVars
    BY <2>4 DEF pageVars, service, vars
  <2> QED BY <2>1, <2>2, <2>3, <2>4 DEF PagesNext
<1> QED BY <1>1, PagesInitIInv, PagesNextIInv, PTL DEF PagesSpec

(* So no use of the pages overbooks the event, whatever rows were stored   *)
(* before they were opened.                                                *)
THEOREM PagesNeverOverbook == PagesSpec => NeverOverbooks
<1>1. PagesIInv => IInv
  BY DEF PagesIInv, PagesTyped
<1>2. PagesSpec => []IInv
  BY <1>1, PagesInitIInv, PagesNextIInv, PTL DEF PagesSpec
<1>3. IInv /\ [Next]_vars =>
        [Cardinality(Confirmed(reg')) > Cardinality(Confirmed(reg))
           => FitsIn(Cardinality(Confirmed(reg')), event'.max)]_vars
  BY NoStepOverbooks
<1> QED BY <1>2, <1>3, PagesUseTheService, PTL DEF NeverOverbooks

(* Nor does it keep a freed place from those who wait, let anyone past the *)
(* queue, or touch the registration of a member the request was not about. *)
THEOREM PagesKeepPromises ==
  PagesSpec => FreedPlaceIsOffered /\ PromotedInOrder /\ OthersAreLeftAlone
<1>1. PagesIInv => IInv
  BY DEF PagesIInv, PagesTyped
<1>2. PagesSpec => []IInv
  BY <1>1, PagesInitIInv, PagesNextIInv, PTL DEF PagesSpec
<1>3. IInv /\ [Next]_vars =>
        [\A u \in Users : GivesUpPlace(u) =>
           \/ Waiting(reg') \subseteq {u}
           \/ ~FitsIn(Cardinality(Confirmed(reg')) + 1, event'.max)
           \/ DeleteUser(u)]_vars
  BY StepOffersPlaces
<1>4. IInv /\ [Next]_vars =>
        [\A u, v \in Users : IsPromoted(u) /\ StillWaits(v)
            => reg[u].id < reg[v].id \/ Registering(u)]_vars
  BY NextOthers DEF InOrder
<1>5. IInv /\ [Next]_vars =>
        [\A u \in Users :
           \/ reg'[u] = reg[u]
           \/ IsPromoted(u) /\ reg'[u] = [reg[u] EXCEPT !.type = "ATTENDEE"]
           \/ Registering(u)]_vars
  BY NextOthers DEF Untouched
<1>6. PagesSpec => FreedPlaceIsOffered
  BY <1>2, <1>3, PagesUseTheService, PTL DEF FreedPlaceIsOffered
<1>7. PagesSpec => PromotedInOrder
  BY <1>2, <1>4, PagesUseTheService, PTL DEF PromotedInOrder
<1>8. PagesSpec => OthersAreLeftAlone
  BY <1>2, <1>5, PagesUseTheService, PTL DEF OthersAreLeftAlone
<1> QED BY <1>6, <1>7, <1>8

=============================================================================
