----------------------------- MODULE MCEditsOrPages -----------------------------
(***************************************************************************)
(* Two uses of EventRegistration that are too large to be explored         *)
(* together.  In the one an editor changes the event while users come and  *)
(* go, and the pages stay as they were opened; in the other the pages of a *)
(* member and of an administrator are used and nobody edits the event.  A  *)
(* behaviour belongs to one of them.                                       *)
(***************************************************************************)
EXTENDS EventPages, TLC

VARIABLE side

(* The paid place of somebody else, and the member on the waiting list or  *)
(* without a registration.                                                 *)
Registration(i, type, paid) == [id |-> i, type |-> type, registered |-> paid]
Registrations(own, others) == [u \in Users |-> IF u = Member THEN own ELSE others]
Stored == {
  Registrations(NoRow, Registration(1, "ATTENDEE", TRUE)),
  Registrations(Registration(2, "WAITLISTED", FALSE), Registration(1, "ATTENDEE", TRUE))}
NextOf(rows) == Cardinality({u \in Users : rows[u] # NoRow}) + 1

ASSUME \A rows \in Stored : rows \in [Users -> Row] /\ Storable(rows, NextOf(rows))

tabs == <<page, list, calls, sent, left, missed>>

(* The pages as they are opened, with no request under way.                *)
NotUsed ==
  /\ page = [shown |-> "page", mine |-> NoRow, confirming |-> FALSE]
  /\ list = [loaded |-> FALSE, rows |-> NoRows, dialog |-> Closed]
  /\ sent = 0 /\ calls = {}
  /\ left = [tab \in Tabs |-> NoRows] /\ missed = {}

MCInit ==
  \/ side = "edits" /\ Init /\ NotUsed
  \/ /\ side = "pages"
     /\ \E rows \in Stored : OpenedOn(rows, NextOf(rows))
     /\ event.max = 1 /\ event.window # "closed"

MCNext ==
  \/ side = "edits" /\ Next /\ UNCHANGED <<side, tabs>>
  \/ side = "pages" /\ PagesNext /\ UNCHANGED side

MCSpec == MCInit /\ [][MCNext]_<<vars, side, tabs>>

=============================================================================
