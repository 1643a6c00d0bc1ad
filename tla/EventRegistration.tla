---------------------------- MODULE EventRegistration ----------------------------
(***************************************************************************)
(* Registrations for one event: places, the waiting list and the edits of  *)
(* the event that change its capacity.                                     *)
(*                                                                         *)
(* Source: Services/EventRegistrationService.cs, EventRegistrationRules.cs *)
(* and the capacity part of Services/ContentService.cs.  Every operation   *)
(* of EventRegistrationService runs in a serializable transaction that     *)
(* first locks the row of the event (BeginEventTransactionAsync), so it is *)
(* one atomic step here.  ContentService.UpdateAsync takes no such lock:   *)
(* its load, its capacity check, its save and the promotion that follows   *)
(* are steps of their own.                                                 *)
(***************************************************************************)
EXTENDS Integers, FiniteSets

CONSTANTS
  Users,            \* accounts that may hold a registration
  Passive,          \* the answers that neither take a place nor wait for one
  Editors,          \* concurrent requests that edit the event
  Limits,           \* the values an editor may give MaxParticipants
  Unlimited,        \* MaxParticipants is null
  EditWindows,      \* the windows an editor may move the dates to; "keep": no change
  MaxRegistrations  \* bound: how many registration rows are ever created

ASSUME UsersAssumption == IsFiniteSet(Users)
ASSUME PassiveAssumption == Passive \subseteq {"INTERESTED", "DECLINED"}
ASSUME LimitsAssumption == Limits \subseteq Nat
ASSUME UnlimitedAssumption == Unlimited \notin Int
ASSUME EditWindowsAssumption == EditWindows \subseteq {"open", "late", "closed", "keep"}
ASSUME MaxRegistrationsAssumption == MaxRegistrations \in Nat

Counting == {"ATTENDEE", "ORGANIZER"}
RegistrationTypes == Counting \cup {"WAITLISTED"} \cup Passive
ContentTypes == {"EVENT", "NEWS"}

(* "open": published, deadline ahead.  "late": published, deadline past,   *)
(* not ended.  "closed": ended or not published.                           *)
Windows == {"open", "late", "closed"}
Capacities == Limits \cup {Unlimited}

VARIABLES
  event,   \* the ContentItems row: type, MaxParticipants, where its dates stand
  reg,     \* reg[u]: the EventRegistrations row of u (UX_EventRegistrations)
  accounts, \* the users whose account exists; a deleted id never comes back
  nextId,  \* the next auto-increment Id
  editor   \* editor[e]: a ContentService.UpdateAsync call in progress

vars == <<event, reg, accounts, nextId, editor>>

(* A user without a row.  Created and Id grow together (both are assigned  *)
(* under the event lock), so the id also stands for Created.               *)
NoRow == [id |-> 0, type |-> "NONE", registered |-> FALSE]
Row == [id : Nat, type : RegistrationTypes \cup {"NONE"}, registered : BOOLEAN]

Event == [type : ContentTypes, max : Capacities, window : Windows]

(* What SaveContentItemRequest asks for.                                   *)
Request == [type : ContentTypes, max : Capacities, window : EditWindows]
Snapshot == [type : ContentTypes, max : Capacities]
Idle == [pc |-> "idle"]
Editing == [pc : {"loaded", "checked", "saved"}, snapshot : Snapshot, request : Request]

HasRow(u) == reg[u].type # "NONE"
Counts(row) == row.type \in Counting
Confirmed(r) == {u \in Users : Counts(r[u])}
Waiting(r) == {u \in Users : r[u].type = "WAITLISTED"}
FitsIn(n, max) == max # Unlimited => n <= max

RegistrationOpen == event.type = "EVENT" /\ event.window = "open"
CancellationOpen == event.type = "EVENT" /\ event.window \in {"open", "late"}

(* HasCapacityAsync: is there a place for u, not counting a place u holds? *)
HasCapacity(u) == FitsIn(Cardinality(Confirmed(reg) \ {u}) + 1, event.max)

(* Mutant: the list is sorted newest first.                                *)
Promoted_NewestFirst(r, excluded) ==
  LET queue == Waiting(r) \ excluded
      Ahead(u) == {v \in queue : r[v].id > r[u].id}
  IN  {u \in queue :
         FitsIn(Cardinality(Confirmed(r)) + Cardinality(Ahead(u)) + 1, event.max)}

(* Mutant: the places already taken are not subtracted.                    *)
Promoted_IgnoresConfirmed(r, excluded) ==
  LET queue == Waiting(r) \ excluded
      Ahead(u) == {v \in queue : r[v].id < r[u].id}
  IN  {u \in queue : FitsIn(Cardinality(Ahead(u)) + 1, event.max)}

(* PromoteWaitlistedAsync: the oldest waiting registrations, one for each  *)
(* free place, except that of the excluded users.                          *)
Promoted(r, excluded) ==
  LET queue == Waiting(r) \ excluded
      Ahead(u) == {v \in queue : r[v].id < r[u].id}
  IN  {u \in queue :
         FitsIn(Cardinality(Confirmed(r)) + Cardinality(Ahead(u)) + 1, event.max)}

(* Mutant: promotion starts the registration over, unpaid.                 *)
Promote_ResetsPaid(r, excluded) ==
  [u \in Users |-> IF u \in Promoted(r, excluded)
                     THEN [r[u] EXCEPT !.type = "ATTENDEE", !.registered = FALSE]
                     ELSE r[u]]

Promote(r, excluded) ==
  [u \in Users |-> IF u \in Promoted(r, excluded)
                     THEN [r[u] EXCEPT !.type = "ATTENDEE"]
                     ELSE r[u]]

(* Insert or update the row of u.                                          *)
Store(u, type, registered) ==
  [reg EXCEPT ![u] = [id |-> IF HasRow(u) THEN reg[u].id ELSE nextId,
                      type |-> type, registered |-> registered]]
Remove(u) == [reg EXCEPT ![u] = NoRow]

TakeId(u) ==
  IF HasRow(u) THEN nextId' = nextId
  ELSE nextId <= MaxRegistrations /\ nextId' = nextId + 1

(* The common end of RegisterAsync, AddAsync and UpdateAsync: store the    *)
(* row and, when u gave up a place, offer it to the waiting list.          *)
StoreAndPromote(u, type, registered) ==
  LET stored == Store(u, type, registered)
      leaves == Counts(reg[u]) /\ type \notin Counting
  IN  reg' = IF leaves THEN Promote(stored, {u}) ELSE stored

(* Mutant: the freed place is not offered to the waiting list.             *)
RemoveAndPromote_NoPromotion(u) == reg' = Remove(u)

RemoveAndPromote(u) == reg' = Promote(Remove(u), {})

Init ==
  /\ event \in [type : {"EVENT"}, max : Capacities, window : {"open"}]
  /\ reg = [u \in Users |-> NoRow]
  /\ accounts = Users
  /\ nextId = 1
  /\ editor = [e \in Editors |-> Idle]

(* RegisterAsync: the user signs up, or changes the answer.  An attendee   *)
(* for whom there is no place is put on the waiting list.                  *)
Register(u, wanted) ==
  LET joins == ~Counts(reg[u])
      type == IF wanted = "ATTENDEE" /\ joins /\ ~HasCapacity(u)
                THEN "WAITLISTED" ELSE wanted
  IN  /\ u \in accounts
      /\ RegistrationOpen
      /\ type \in Counting /\ joins => HasCapacity(u)
      /\ TakeId(u)
      /\ StoreAndPromote(u, type, FALSE)
      /\ UNCHANGED <<event, accounts, editor>>

(* AddAsync: an administrator enters a user.                               *)
Add(u, type, registered) ==
  /\ u \in accounts
  /\ event.type = "EVENT"
  /\ type \in Counting /\ ~Counts(reg[u]) => HasCapacity(u)
  /\ TakeId(u)
  /\ StoreAndPromote(u, type, registered)
  /\ UNCHANGED <<event, accounts, editor>>

(* UpdateAsync: an administrator edits a row.  It does not look at the     *)
(* type of the content item.                                               *)
Update(u, type, registered) ==
  /\ HasRow(u)
  /\ type \in Counting /\ ~Counts(reg[u]) => HasCapacity(u)
  /\ StoreAndPromote(u, type, registered)
  /\ UNCHANGED <<event, accounts, nextId, editor>>

(* UnregisterAsync: the user withdraws.                                    *)
Unregister(u) ==
  /\ CancellationOpen
  /\ HasRow(u)
  /\ RemoveAndPromote(u)
  /\ UNCHANGED <<event, accounts, nextId, editor>>

(* DeleteAsync: an administrator removes a row.                            *)
Delete(u) ==
  /\ event.type = "EVENT"
  /\ HasRow(u)
  /\ RemoveAndPromote(u)
  /\ UNCHANGED <<event, accounts, nextId, editor>>

(* Deleting the account cascades to the row in the database; no service    *)
(* runs, so nobody is promoted.                                            *)
DeleteUser(u) ==
  /\ u \in accounts
  /\ accounts' = accounts \ {u}
  /\ reg' = Remove(u)
  /\ UNCHANGED <<event, nextId, editor>>

(* The clock passes the deadline, then the end of the event.               *)
TimePasses ==
  /\ \/ event.window = "open" /\ event' = [event EXCEPT !.window = "late"]
     \/ event.window = "late" /\ event' = [event EXCEPT !.window = "closed"]
  /\ UNCHANGED <<reg, accounts, nextId, editor>>

-----------------------------------------------------------------------------
(* ContentService.UpdateAsync, in the steps other requests can come between *)

LoadEdit(e, request) ==
  /\ editor[e].pc = "idle"
  /\ editor' = [editor EXCEPT ![e] =
                  [pc |-> "loaded", request |-> request,
                   snapshot |-> [type |-> event.type, max |-> event.max]]]
  /\ UNCHANGED <<event, reg, accounts, nextId>>

(* EnsureMaxParticipantsCanBeReducedAsync, with its early returns.         *)
Reducible(snapshot, request) ==
  \/ request.type # "EVENT"
  \/ request.max = snapshot.max
  \/ FitsIn(Cardinality(Confirmed(reg)), request.max)

CheckEdit(e) ==
  /\ editor[e].pc = "loaded"
  /\ editor' = [editor EXCEPT ![e] =
                  IF Reducible(editor[e].snapshot, editor[e].request)
                    THEN [editor[e] EXCEPT !.pc = "checked"] ELSE Idle]
  /\ UNCHANGED <<event, reg, accounts, nextId>>

(* SaveChangesAsync writes the columns that differ from the loaded row.    *)
SaveEdit(e) ==
  LET old == editor[e].snapshot
      new == editor[e].request
  IN  /\ editor[e].pc = "checked"
      /\ event' = [type   |-> IF new.type # old.type THEN new.type ELSE event.type,
                   max    |-> IF new.max # old.max THEN new.max ELSE event.max,
                   window |-> IF new.window # "keep" THEN new.window ELSE event.window]
      /\ editor' = [editor EXCEPT ![e] =
                      IF new.type = "EVENT" THEN [editor[e] EXCEPT !.pc = "saved"] ELSE Idle]
      /\ UNCHANGED <<reg, accounts, nextId>>

(* The public PromoteWaitlistedAsync, called after the save.               *)
PromoteEdit(e) ==
  /\ editor[e].pc = "saved"
  /\ reg' = IF event.type = "EVENT" THEN Promote(reg, {}) ELSE reg
  /\ editor' = [editor EXCEPT ![e] = Idle]
  /\ UNCHANGED <<event, accounts, nextId>>

(* The request fails or the process stops between two of its steps.        *)
AbortEdit(e) ==
  /\ editor[e].pc # "idle"
  /\ editor' = [editor EXCEPT ![e] = Idle]
  /\ UNCHANGED <<event, reg, accounts, nextId>>

Registering(u) ==
  \/ \E t \in RegistrationTypes : Register(u, t)
  \/ \E t \in RegistrationTypes, paid \in BOOLEAN : Add(u, t, paid) \/ Update(u, t, paid)
  \/ Unregister(u)
  \/ Delete(u)
  \/ DeleteUser(u)

EditStep(e) ==
  \/ \E request \in Request : LoadEdit(e, request)
  \/ CheckEdit(e)
  \/ SaveEdit(e)
  \/ PromoteEdit(e)
  \/ AbortEdit(e)

Next ==
  \/ \E u \in Users : Registering(u)
  \/ \E e \in Editors : EditStep(e)
  \/ TimePasses

Spec == Init /\ [][Next]_vars

-----------------------------------------------------------------------------
(* Every variable holds a value of its type, and a row belongs to an       *)
(* account: deleting an account leaves no row behind (the cascade).        *)
TypeOK ==
  /\ event \in Event
  /\ reg \in [Users -> Row]
  /\ accounts \subseteq Users
  /\ \A u \in Users : HasRow(u) => u \in accounts
  /\ nextId \in Nat \ {0}
  /\ editor \in [Editors -> Editing \cup {Idle}]

(* Rows have distinct ids that were all handed out, so the waiting list is *)
(* a total order (Created, then Id, in PromoteWaitlistedAsync).            *)
IdsAreUnique ==
  \A u, v \in Users :
    /\ HasRow(u) => reg[u].id \in 1 .. (nextId - 1)
    /\ HasRow(u) /\ HasRow(v) /\ u # v => reg[u].id # reg[v].id

(* EventRegistrationService never overbooks: a step after which more       *)
(* people hold a place leaves no more of them than the event has places.   *)
(* (An event that is already overbooked, see CapacityIsNeverUndercut, is   *)
(* never filled further.)                                                  *)
NeverOverbooks ==
  [][Cardinality(Confirmed(reg')) > Cardinality(Confirmed(reg))
       => FitsIn(Cardinality(Confirmed(reg')), event'.max)]_vars

(* A place that is given up, by whatever operation of the service, is      *)
(* offered in the same transaction: afterwards nobody is left waiting for  *)
(* a free place, except the one who gave it up.                            *)
GivesUpPlace(u) == Counts(reg[u]) /\ ~Counts(reg'[u])
FreedPlaceIsOffered ==
  [][\A u \in Users : GivesUpPlace(u) =>
       \/ Waiting(reg') \subseteq {u}
       \/ ~FitsIn(Cardinality(Confirmed(reg')) + 1, event'.max)
       \/ DeleteUser(u)]_vars

(* The waiting list is served in order: whoever is promoted by a step that *)
(* is not about their own registration was ahead of everyone still waiting,*)
(* the user the step was about excepted.                                   *)
IsPromoted(u) == reg[u].type = "WAITLISTED" /\ Counts(reg'[u])
StillWaits(u) == reg[u].type = "WAITLISTED" /\ reg'[u].type = "WAITLISTED"
PromotedInOrder ==
  [][\A u, v \in Users :
       IsPromoted(u) /\ StillWaits(v) => reg[u].id < reg[v].id \/ Registering(u)]_vars

(* What a user's own registration says changes only by a step about that   *)
(* user, except that a waiting user may become an attendee: promoting and  *)
(* removing others keeps the id, the queue position and the paid mark.     *)
OthersAreLeftAlone ==
  [][\A u \in Users :
       \/ reg'[u] = reg[u]
       \/ IsPromoted(u) /\ reg'[u] = [reg[u] EXCEPT !.type = "ATTENDEE"]
       \/ Registering(u)]_vars

(* ContentService.UpdateAsync refuses a capacity "lower than the current   *)
(* number of participants and organizers": no save stores such a capacity. *)
CapacityIsNeverUndercut ==
  [][event'.max # event.max /\ event'.type = "EVENT"
       => FitsIn(Cardinality(Confirmed(reg')), event'.max)]_vars

=============================================================================
