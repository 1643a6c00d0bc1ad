------------------------------- MODULE EventPages -------------------------------
(***************************************************************************)
(* The two pages that show the registrations of an event, over the         *)
(* service: the page of the event, open at a member who signs up, writes a *)
(* note and withdraws (ContentDetailPage.jsx), and the list, open at an    *)
(* administrator (EventRegistrationsPage.jsx).  Neither page is told what  *)
(* the other does; requests are carried out in any order and their answers *)
(* arrive in any order.  The service commits a change and reads the row    *)
(* again for its answer, mostly after the e-mails and always outside the   *)
(* lock: others come in between.  A request fails because it is refused or does not reach the   *)
(* service, but also after it was carried out: the row is gone when it is  *)
(* read again, or the answer is lost.                                      *)
(***************************************************************************)
EXTENDS EventRegistration

CONSTANTS
  Member,        \* the member whose page is open
  OfferedTypes,  \* registrationTypes: the types the list offers
  MaxCalls       \* bound: requests

ASSUME PagesAssumption ==
  Member \in Users /\ OfferedTypes \subseteq RegistrationTypes /\ MaxCalls \in Nat

VARIABLES
  page,       \* the member's page: shown, mine (registration), confirming
  list,       \* the administrator's page: loaded, rows (registrations), dialog
  calls,      \* requests under way
  sent,       \* how many requests were sent
  left,       \* history: left[tab][u]: the row of u as it was read for the last
              \* answer to a request of the tab
  missed      \* history: rows of a tab whose answers came in the wrong order, or
              \* whose change was carried out and the answer never came

service == <<event, reg, accounts, nextId, editor>>
pageVars == <<service, page, list, calls, sent, left, missed>>

Tabs == {"member", "admin"}
NoRows == [u \in Users |-> NoRow]

(* A request; `id`, `type` and `paid` are what the page sends of a row (the *)
(* text of a note has no effect on the rest).  `n` tells requests under way *)
(* apart; `done`: the change is committed and the row not read again yet;   *)
(* `order` says in which order the answers were read, 0: not yet.           *)
Number == CHOOSE n \in 0 .. MaxCalls + 1 : \A c \in calls : c.n # n
Asked(tab, op, n, u, row) ==
  [n |-> n, tab |-> tab, op |-> op, user |-> u, id |-> row.id, type |-> row.type,
   paid |-> row.registered, done |-> FALSE, order |-> 0, answer |-> NoRows]
Call(tab, op, u, row) == Asked(tab, op, Number, u, row)
Of(tab) == {c \in calls : c.tab = tab}
Running(ops) == \E c \in calls : c.op \in ops

Send(call) ==
  /\ sent < MaxCalls
  /\ sent' = sent + 1
  /\ calls' = calls \cup {call}
  /\ UNCHANGED <<service, left, missed>>

Closed == [kind |-> "none", user |-> Member, row |-> NoRow]

(* Rows the service may have stored before, the next one with the id n.    *)
Storable(rows, n) ==
  \A u, v \in Users :
    /\ rows[u].type = "NONE" => rows[u] = NoRow
    /\ rows[u] # NoRow => rows[u].id \in 1 .. n - 1
    /\ rows[u] # NoRow /\ rows[u].id = rows[v].id => u = v

(* The pages are opened while these rows are stored.                       *)
OpenedOn(rows, n) ==
  /\ event \in [type : {"EVENT"}, max : Capacities, window : Windows]
  /\ reg = rows /\ nextId = n
  /\ accounts = Users
  /\ editor = [e \in Editors |-> Idle]
  /\ page = [shown |-> "page", mine |-> NoRow, confirming |-> FALSE]
  /\ list = [loaded |-> FALSE, rows |-> NoRows, dialog |-> Closed]
  /\ sent = 0
  /\ calls = {Asked("member", "mine", 0, Member, NoRow), Asked("admin", "list", 1, Member, NoRow)}
  /\ left = [tab \in Tabs |-> NoRows]
  /\ missed = {}

PagesInit ==
  \E rows \in [Users -> Row], n \in Nat \ {0} : Storable(rows, n) /\ OpenedOn(rows, n)

-----------------------------------------------------------------------------
(* The page of the event.  An error takes the place of the whole page.     *)

Mine == page.mine
Has(row) == row.type # "NONE"
DialogShown == page.confirming /\ Has(Mine)

(* What the page offers; the button asks the clock of the browser.         *)
MayToggle ==
  /\ page.shown = "page" /\ ~DialogShown
  /\ event.window = "open" \/ (Has(Mine) /\ event.window # "closed")

(* toggleRegistration.  The button is not disabled while a request runs.   *)
SignUp ==
  /\ MayToggle /\ ~Has(Mine)
  /\ Send(Call("member", "register", Member, NoRow))
  /\ UNCHANGED <<page, list>>

AskToWithdraw ==
  /\ MayToggle /\ Has(Mine)
  /\ page' = [page EXCEPT !.confirming = TRUE]
  /\ UNCHANGED <<service, list, calls, sent, left, missed>>

(* isRemovingRegistration: until the lists that are read after it arrive.  *)
Removing == Running({"unregister", "lists"})

(* unregisterCurrentUser.                                                  *)
Withdraw ==
  /\ page.shown = "page" /\ DialogShown /\ ~Removing
  /\ Send(Call("member", "unregister", Member, NoRow))
  /\ UNCHANGED <<page, list>>

KeepPlace ==
  /\ page.shown = "page" /\ DialogShown /\ ~Removing
  /\ page' = [page EXCEPT !.confirming = FALSE]
  /\ UNCHANGED <<service, list, calls, sent, left, missed>>

(* saveRegistrationNote.                                                   *)
SaveNote ==
  /\ page.shown = "page" /\ ~DialogShown /\ Has(Mine)
  /\ ~Running({"note"})
  /\ Send(Call("member", "note", Member, NoRow))
  /\ UNCHANGED <<page, list>>

-----------------------------------------------------------------------------
(* The list.  A dialog is modal; nothing else is disabled meanwhile.       *)

MayEdit(u) == list.loaded /\ list.dialog = Closed /\ Has(list.rows[u])

(* updateRegistration sends the whole row as it is shown, with the change. *)
ChangeType(u, type) ==
  /\ MayEdit(u) /\ type \in OfferedTypes \ {list.rows[u].type}
  /\ Send(Call("admin", "update", u, [list.rows[u] EXCEPT !.type = type]))
  /\ UNCHANGED <<page, list>>

(* requestRegisteredChange: taking the paid mark away is confirmed first.  *)
MarkPaid(u) ==
  /\ MayEdit(u) /\ ~list.rows[u].registered
  /\ Send(Call("admin", "update", u, [list.rows[u] EXCEPT !.registered = TRUE]))
  /\ UNCHANGED <<page, list>>

Ask(kind, u) ==
  /\ MayEdit(u)
  /\ kind = "unpay" => list.rows[u].registered
  /\ list' = [list EXCEPT !.dialog = [kind |-> kind, user |-> u, row |-> list.rows[u]]]
  /\ UNCHANGED <<service, page, calls, sent, left, missed>>

(* isRemovingRegistration, isUpdatingPaymentStatus: until the summary that  *)
(* is read after it arrives.                                                *)
Busy == Running({"remove", "unpay", "summary"})

(* markRegistrationUnpaid, unregisterRegistration: with the row as it was  *)
(* when the dialog opened.                                                 *)
Confirm ==
  /\ list.dialog # Closed /\ ~Busy
  /\ Send(Call("admin", list.dialog.kind, list.dialog.user,
               [list.dialog.row EXCEPT !.registered = FALSE]))
  /\ UNCHANGED <<page, list>>

Dismiss ==
  /\ list.dialog # Closed /\ ~Busy
  /\ list' = [list EXCEPT !.dialog = Closed]
  /\ UNCHANGED <<service, page, calls, sent, left, missed>>

(* addRegistration: of a member who is not in the list.                    *)
Available(u) == list.loaded /\ list.dialog = Closed /\ ~Has(list.rows[u])
AddMember(u, type, paid) ==
  /\ Available(u) /\ type \in OfferedTypes
  /\ Send(Call("admin", "add", u, [id |-> 0, type |-> type, registered |-> paid]))
  /\ UNCHANGED <<page, list>>

-----------------------------------------------------------------------------
(* The service.                                                            *)

(* Mutant: the row is looked up by its user.                               *)
Found_ByUser(c) == HasRow(c.user)

(* A row is changed and removed by its id.                                 *)
Found(c) == HasRow(c.user) /\ reg[c.user].id = c.id

CarryOut(c) ==
  \/ c.op \in {"mine", "list"} /\ UNCHANGED vars
  \/ c.op = "note" /\ HasRow(Member) /\ UNCHANGED vars
  \/ c.op = "register" /\ Register(Member, "ATTENDEE")
  \/ c.op = "unregister" /\ Unregister(Member)
  \/ c.op \in {"update", "unpay"} /\ Found(c) /\ Update(c.user, c.type, c.paid)
  \/ c.op = "remove" /\ Found(c) /\ Delete(c.user)
  \/ c.op = "add" /\ Add(c.user, c.type, c.paid)

(* The rows a request is about.                                            *)
About(c) == IF c.op = "list" THEN Users ELSE {c.user}

Latest == LET orders == {c.order : c \in calls} IN
  CHOOSE n \in orders : \A k \in orders : k <= n

(* The answer is made of the rows as they are now.                         *)
ReadAnswer(c) ==
  /\ calls' = (calls \ {c}) \cup
       {[c EXCEPT !.done = TRUE, !.order = Latest + 1,
                  !.answer = [u \in Users |-> IF u \in About(c) THEN reg'[u] ELSE NoRow]]}
  /\ left' = [left EXCEPT ![c.tab] =
                [u \in Users |-> IF u \in About(c) THEN reg'[u] ELSE @[u]]]
  /\ UNCHANGED <<page, list, sent, missed>>

(* Reads, and deletions, whose answer says no more than that.              *)
Serve(c) ==
  /\ c.op \in {"mine", "list", "unregister", "remove"} /\ ~c.done
  /\ CarryOut(c)
  /\ ReadAnswer(c)

(* The others commit the change: the row is known by its id from now on.   *)
Commit(c) ==
  /\ c.op \in {"register", "note", "update", "unpay", "add"} /\ ~c.done
  /\ CarryOut(c)
  /\ calls' = (calls \ {c}) \cup {[c EXCEPT !.done = TRUE, !.id = reg'[c.user].id]}
  /\ UNCHANGED <<page, list, sent, left, missed>>

(* FirstAsync; a row that is gone by then leaves the request to fail.      *)
Reread(c) ==
  /\ c.done /\ c.order = 0
  /\ Found(c)
  /\ UNCHANGED vars
  /\ ReadAnswer(c)

-----------------------------------------------------------------------------
(* The answers.                                                            *)

(* This answer comes before one that was read earlier.                     *)
Overtakes(c) ==
  {<<c.tab, u>> : u \in {v \in About(c) : \E d \in Of(c.tab) :
      d.order # 0 /\ d.order < c.order /\ v \in About(d)}}

Answer(c) ==
  /\ c.order # 0
  /\ missed' = missed \cup Overtakes(c)
  /\ UNCHANGED <<service, sent, left>>

(* Mutant: the registration that was withdrawn stays on the page.          *)
MemberAnswered_KeepsRow(c) ==
  /\ c.tab = "member" /\ c.op # "lists" /\ Answer(c)
  /\ page' = [page EXCEPT !.mine = IF c.op = "unregister" THEN @ ELSE c.answer[Member]]
  /\ calls' = (calls \ {c}) \cup
       (IF c.op = "unregister"
        THEN {[c EXCEPT !.op = "lists", !.done = FALSE, !.order = 0, !.answer = NoRows]} ELSE {})
  /\ UNCHANGED list

(* Every answer sets the registration; a withdrawal reads the lists again. *)
MemberAnswered(c) ==
  /\ c.tab = "member" /\ c.op # "lists" /\ Answer(c)
  /\ page' = [page EXCEPT !.mine = c.answer[Member]]
  /\ calls' = (calls \ {c}) \cup
       (IF c.op = "unregister"
        THEN {[c EXCEPT !.op = "lists", !.done = FALSE, !.order = 0, !.answer = NoRows]} ELSE {})
  /\ UNCHANGED list

(* The lists have arrived, or failed: the dialog is closed.                *)
ListsAnswered(c) ==
  /\ c.op = "lists"
  /\ page' = [page EXCEPT !.confirming = FALSE]
  /\ calls' = calls \ {c}
  /\ UNCHANGED <<service, list, sent, left, missed>>

(* Without an answer about the own registration there is none on the page. *)
MemberFailed(c) ==
  /\ c.tab = "member" /\ c.op # "lists"
  /\ IF c.op = "mine"
       THEN /\ page' = [page EXCEPT !.mine = NoRow]
            /\ missed' = missed \cup {<<"member", Member>>}
       ELSE /\ page' = [page EXCEPT !.shown = "error"]
            /\ UNCHANGED missed
  /\ calls' = calls \ {c}
  /\ UNCHANGED <<service, list, sent, left>>

(* The row of the answer takes the place of the row with its id.           *)
Replaced(c) ==
  [list.rows EXCEPT ![c.user] = IF @.id = c.answer[c.user].id THEN c.answer[c.user] ELSE @]
Removed(c) ==
  [list.rows EXCEPT ![c.user] = IF @.id = c.id THEN NoRow ELSE @]
Added(c) == [list.rows EXCEPT ![c.user] = c.answer[c.user]]

(* Mutant: a member who is added appears only if the row was shown before. *)
RowsAfter_AddReplaces(c) ==
  CASE c.op = "list" -> c.answer
    [] c.op \in {"update", "unpay", "add"} -> Replaced(c)
    [] c.op = "remove" -> Removed(c)

RowsAfter(c) ==
  CASE c.op = "list" -> c.answer
    [] c.op \in {"update", "unpay"} -> Replaced(c)
    [] c.op = "remove" -> Removed(c)
    [] c.op = "add" -> Added(c)

(* A dialog waits for the summary that is read next.                       *)
AdminAnswered(c) ==
  /\ c.tab = "admin" /\ c.op # "summary" /\ Answer(c)
  /\ list' = [list EXCEPT !.loaded = TRUE, !.rows = RowsAfter(c)]
  /\ calls' = (calls \ {c}) \cup
       (IF c.op \in {"remove", "unpay"}
        THEN {[c EXCEPT !.op = "summary", !.done = FALSE, !.order = 0, !.answer = NoRows]} ELSE {})
  /\ UNCHANGED page

(* The summary has arrived, or failed: the dialog is closed.               *)
SummaryAnswered(c) ==
  /\ c.op = "summary"
  /\ list' = [list EXCEPT !.dialog = Closed]
  /\ calls' = calls \ {c}
  /\ UNCHANGED <<service, page, sent, left, missed>>

(* An error is shown below the list, and a dialog stays open.              *)
AdminFailed(c) ==
  /\ c.tab = "admin" /\ c.op # "summary"
  /\ missed' = missed \cup (IF c.done THEN {<<"admin", u>> : u \in About(c)} ELSE {})
  /\ calls' = calls \ {c}
  /\ UNCHANGED <<service, page, list, sent, left>>

-----------------------------------------------------------------------------
MemberStep == SignUp \/ AskToWithdraw \/ Withdraw \/ KeepPlace \/ SaveNote

AdminStep ==
  \/ \E u \in Users, type \in OfferedTypes : ChangeType(u, type)
  \/ \E u \in Users : MarkPaid(u) \/ Ask("unpay", u) \/ Ask("remove", u)
  \/ Confirm
  \/ Dismiss
  \/ \E u \in Users, type \in OfferedTypes, paid \in BOOLEAN : AddMember(u, type, paid)

Answering(c) ==
  \/ MemberAnswered(c) \/ ListsAnswered(c) \/ MemberFailed(c)
  \/ AdminAnswered(c) \/ SummaryAnswered(c) \/ AdminFailed(c)

PagesNext ==
  \/ MemberStep
  \/ AdminStep
  \/ \E c \in calls : Serve(c) \/ Commit(c) \/ Reread(c) \/ Answering(c)

PagesSpec == PagesInit /\ [][PagesNext]_pageVars

-----------------------------------------------------------------------------
(* A member who waits for nothing sees the own registration as it was read *)
(* for the last of the member's requests, with that request's own change   *)
(* and whatever others changed before the reading: not as an earlier       *)
(* request or an error left it.  Exempt are answers that overtook each     *)
(* other and a registration that could not be read.                        *)
MineIsAsLeft ==
  \/ page.shown = "error" \/ Of("member") # {} \/ <<"member", Member>> \in missed
  \/ page.mine = left["member"][Member]

(* The same of every row of the administrator's list: rows that were added,*)
(* changed and removed, one of them from a dialog opened before.  Exempt   *)
(* are also rows changed by a request whose answer never came.             *)
RowsAreAsLeft ==
  \/ ~list.loaded \/ Of("admin") # {}
  \/ \A u \in Users : <<"admin", u>> \in missed \/ list.rows[u] = left["admin"][u]

ActsOnTheRow ==
  \A c \in calls : c \notin calls' /\ c.op \in {"update", "unpay", "remove"}
                     => reg'[c.user] = reg[c.user] \/ reg[c.user].id = c.id

(* The administrator changes and removes only the registration that was on *)
(* the screen: a member who has withdrawn and signed up again meanwhile    *)
(* keeps the new one.                                                      *)
ActsOnTheRowShown == [][ActsOnTheRow]_pageVars

=============================================================================
