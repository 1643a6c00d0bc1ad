------------------------ MODULE EventRegistration_proofs ------------------------
(***************************************************************************)
(* Proofs about EventRegistration, for any set of users, any capacities    *)
(* and any number of concurrent editors of the event.                      *)
(***************************************************************************)
EXTENDS EventRegistration, FiniteSetTheorems, WellFoundedInduction, TLAPS

(* What every operation relies on.                                         *)
IInv == TypeOK /\ IdsAreUnique

(* A promotion changes only the type of rows, and of no row to or from     *)
(* "no row".                                                               *)
LEMMA PromoteKeepsRows ==
  ASSUME NEW r \in [Users -> Row], NEW excluded
  PROVE  /\ Promote(r, excluded) \in [Users -> Row]
         /\ \A u \in Users :
              /\ Promote(r, excluded)[u].id = r[u].id
              /\ Promote(r, excluded)[u].type = "NONE" <=> r[u].type = "NONE"
<1> DEFINE P == Promoted(r, excluded)
           Q == Promote(r, excluded)
<1>1. \A u \in P : u \in Users /\ r[u].type = "WAITLISTED"
  BY DEF Promoted, Waiting
<1>2. "ATTENDEE" \in RegistrationTypes
  BY DEF RegistrationTypes, Counting
<1>3. ASSUME NEW u \in Users
      PROVE  Q[u] = IF u \in P THEN [r[u] EXCEPT !.type = "ATTENDEE"] ELSE r[u]
  BY DEF Promote
<1>4. ASSUME NEW u \in Users
      PROVE  Q[u] \in Row /\ Q[u].id = r[u].id /\ (Q[u].type = "NONE" <=> r[u].type = "NONE")
  <2>1. r[u] \in Row
    OBVIOUS
  <2>2. CASE u \in P
    <3>1. Q[u] = [r[u] EXCEPT !.type = "ATTENDEE"]
      BY <1>3, <2>2
    <3>2. r[u].type = "WAITLISTED"
      BY <1>1, <2>2
    <3> HIDE DEF P, Q
    <3> QED BY <1>2, <2>1, <3>1, <3>2 DEF Row
  <2>3. CASE u \notin P
    <3>1. Q[u] = r[u]
      BY <1>3, <2>3
    <3> QED BY <2>1, <3>1
  <2> QED BY <2>2, <2>3
<1>5. Q \in [Users -> Row]
  <2>1. Q = [u \in Users |-> Q[u]]
    BY DEF Promote
  <2> HIDE DEF Q
  <2> QED BY <1>4, <2>1
<1> QED BY <1>4, <1>5

(* The parts of IInv about reg and nextId, for a function r of rows and a  *)
(* next id n.                                                              *)
RowsOK(r, n) ==
  /\ r \in [Users -> Row]
  /\ \A u \in Users : r[u].type # "NONE" => u \in accounts
  /\ \A u, v \in Users :
       /\ r[u].type # "NONE" => r[u].id \in 1 .. (n - 1)
       /\ r[u].type # "NONE" /\ r[v].type # "NONE" /\ u # v => r[u].id # r[v].id

(* The rows of a state with IInv are good rows.                            *)
LEMMA IInvRows == IInv => RowsOK(reg, nextId)
BY DEF IInv, TypeOK, IdsAreUnique, RowsOK, HasRow

(* RowsOK survives a promotion.                                            *)
LEMMA PromoteRows ==
  ASSUME NEW r, NEW n, NEW excluded, RowsOK(r, n)
  PROVE  RowsOK(Promote(r, excluded), n)
<1>1. r \in [Users -> Row]
  BY DEF RowsOK
<1>2. /\ Promote(r, excluded) \in [Users -> Row]
      /\ \A u \in Users :
           /\ Promote(r, excluded)[u].id = r[u].id
           /\ Promote(r, excluded)[u].type = "NONE" <=> r[u].type = "NONE"
  BY <1>1, PromoteKeepsRows
<1> QED BY <1>2 DEF RowsOK

(* RowsOK survives storing the row of a user who has an account.           *)
LEMMA StoreRows ==
  ASSUME IInv, NEW u \in accounts, NEW type \in RegistrationTypes,
         NEW registered \in BOOLEAN, TakeId(u)
  PROVE  RowsOK(Store(u, type, registered), nextId') /\ nextId' \in Nat \ {0}
<1> DEFINE row == [id |-> IF HasRow(u) THEN reg[u].id ELSE nextId,
                   type |-> type, registered |-> registered]
<1>1. RowsOK(reg, nextId) /\ nextId \in Nat \ {0} /\ u \in Users
  BY IInvRows DEF IInv, TypeOK
<1>2. nextId' = (IF HasRow(u) THEN nextId ELSE nextId + 1)
  BY DEF TakeId
<1>3. row \in Row
  BY <1>1 DEF Row, RowsOK
<1>4. \A v \in Users : Store(u, type, registered)[v] = IF v = u THEN row ELSE reg[v]
  BY <1>1 DEF Store, RowsOK
<1>5. Store(u, type, registered) \in [Users -> Row]
  BY <1>1, <1>3 DEF Store, RowsOK
<1>6. row.id \in 1 .. (nextId' - 1)
  BY <1>1, <1>2 DEF RowsOK, HasRow
<1>7. \A v \in Users : v # u /\ reg[v].type # "NONE" => row.id # reg[v].id
  BY <1>1 DEF RowsOK, HasRow
<1>8. \A v \in Users : reg[v].type # "NONE" => reg[v].id \in 1 .. (nextId' - 1)
  BY <1>1, <1>2 DEF RowsOK
<1>9. RowsOK(Store(u, type, registered), nextId')
  <2> HIDE DEF row
  <2> QED BY <1>1, <1>4, <1>5, <1>6, <1>7, <1>8 DEF RowsOK
<1> QED BY <1>1, <1>2, <1>9

(* RowsOK survives removing a row.                                         *)
LEMMA RemoveRows ==
  ASSUME IInv, NEW u \in Users
  PROVE  RowsOK(Remove(u), nextId)
<1>1. RowsOK(reg, nextId)
  BY IInvRows
<1>2. NoRow \in Row /\ NoRow.type = "NONE"
  BY DEF NoRow, Row
<1>3. \A v \in Users : Remove(u)[v] = IF v = u THEN NoRow ELSE reg[v]
  BY <1>1 DEF Remove, RowsOK
<1>4. Remove(u) \in [Users -> Row]
  BY <1>1, <1>2 DEF Remove, RowsOK
<1> QED BY <1>1, <1>2, <1>3, <1>4 DEF RowsOK

-----------------------------------------------------------------------------
(* IInv is an invariant                                                     *)

(* The empty table and any settings of the event satisfy IInv.             *)
LEMMA InitIInv == Init => IInv
<1> SUFFICES ASSUME Init PROVE IInv
  OBVIOUS
<1>1. event \in Event
  BY DEF Init, Event, ContentTypes, Windows
<1>2. NoRow \in Row /\ NoRow.type = "NONE"
  BY DEF NoRow, Row
<1>3. reg \in [Users -> Row] /\ \A u \in Users : ~HasRow(u)
  BY <1>2 DEF Init, HasRow
<1>4. editor \in [Editors -> Editing \cup {Idle}]
  BY DEF Init
<1> QED BY <1>1, <1>3, <1>4 DEF Init, IInv, TypeOK, IdsAreUnique

(* A step that leaves the editors and the event alone keeps IInv if it     *)
(* leaves good rows.                                                       *)
LEMMA RowsSuffice ==
  ASSUME IInv, accounts' = accounts, event' = event, editor' = editor,
         RowsOK(reg', nextId'), nextId' \in Nat \ {0}
  PROVE  IInv'
BY DEF IInv, TypeOK, IdsAreUnique, RowsOK, HasRow

(* The common end of Register, Add and Update keeps IInv.                  *)
LEMMA StoreKeepsIInv ==
  ASSUME IInv, NEW u \in accounts, NEW type \in RegistrationTypes,
         NEW registered \in BOOLEAN, TakeId(u),
         StoreAndPromote(u, type, registered),
         UNCHANGED <<event, accounts, editor>>
  PROVE  IInv'
<1>1. RowsOK(Store(u, type, registered), nextId') /\ nextId' \in Nat \ {0}
  BY StoreRows
<1>2. RowsOK(reg', nextId')
  BY <1>1, PromoteRows DEF StoreAndPromote
<1> QED BY <1>1, <1>2, RowsSuffice

(* The common end of Cancel and of a deleted account keeps IInv.           *)
LEMMA RemoveKeepsIInv ==
  ASSUME IInv, NEW u \in Users, RemoveAndPromote(u),
         UNCHANGED <<event, accounts, nextId, editor>>
  PROVE  IInv'
<1>1. RowsOK(reg', nextId)
  BY RemoveRows, PromoteRows DEF RemoveAndPromote
<1>2. nextId' \in Nat \ {0}
  BY DEF IInv, TypeOK
<1> QED BY <1>1, <1>2, RowsSuffice

(* Every operation on one row keeps IInv.                                  *)
LEMMA RegisteringKeepsIInv ==
  ASSUME IInv, NEW u \in Users, Registering(u)
  PROVE  IInv'
<1>1. ASSUME NEW t \in RegistrationTypes, Register(u, t) PROVE IInv'
  <2> DEFINE type == IF t = "ATTENDEE" /\ ~Counts(reg[u]) /\ ~HasCapacity(u)
                       THEN "WAITLISTED" ELSE t
  <2>1. type \in RegistrationTypes
    BY DEF RegistrationTypes
  <2>2. /\ u \in accounts
        /\ TakeId(u)
        /\ StoreAndPromote(u, type, FALSE)
        /\ UNCHANGED <<event, accounts, editor>>
    BY <1>1 DEF Register
  <2> HIDE DEF type
  <2> QED BY <2>1, <2>2, StoreKeepsIInv
<1>2. ASSUME NEW t \in RegistrationTypes, NEW paid \in BOOLEAN, Add(u, t, paid)
      PROVE  IInv'
  BY <1>2, StoreKeepsIInv DEF Add
<1>3. ASSUME NEW t \in RegistrationTypes, NEW paid \in BOOLEAN, Update(u, t, paid)
      PROVE  IInv'
  <2>1. u \in accounts /\ TakeId(u)
    BY <1>3 DEF Update, IInv, TypeOK, TakeId
  <2> QED BY <1>3, <2>1, StoreKeepsIInv DEF Update
<1>4. CASE Unregister(u)
  BY <1>4, RemoveKeepsIInv DEF Unregister
<1>5. CASE Delete(u)
  BY <1>5, RemoveKeepsIInv DEF Delete
<1>6. CASE DeleteUser(u)
  <2>1. RowsOK(reg', nextId)
    BY <1>6, RemoveRows DEF DeleteUser
  <2>2. reg'[u].type = "NONE"
    BY <1>6 DEF DeleteUser, Remove, NoRow, IInv, TypeOK
  <2> QED BY <1>6, <2>1, <2>2 DEF DeleteUser, IInv, TypeOK, IdsAreUnique, RowsOK, HasRow
<1> QED BY <1>1, <1>2, <1>3, <1>4, <1>5, <1>6 DEF Registering

(* The steps of an edit change the rows only by the promotion at the end.  *)
LEMMA EditKeepsIInv ==
  ASSUME IInv, NEW e \in Editors, EditStep(e)
  PROVE  IInv'
<1>1. RowsOK(reg, nextId) /\ nextId \in Nat \ {0}
  BY IInvRows DEF IInv, TypeOK
<1>2. ASSUME NEW request \in Request, LoadEdit(e, request) PROVE IInv'
  <2>1. [pc |-> "loaded", request |-> request,
         snapshot |-> [type |-> event.type, max |-> event.max]] \in Editing
    BY DEF Editing, Snapshot, IInv, TypeOK, Event
  <2>2. editor' \in [Editors -> Editing \cup {Idle}]
    BY <1>2, <2>1 DEF LoadEdit, IInv, TypeOK
  <2> QED BY <1>2, <2>2 DEF LoadEdit, IInv, TypeOK, IdsAreUnique, HasRow
<1>3. CASE CheckEdit(e)
  <2>1. editor[e] \in Editing
    BY <1>3 DEF CheckEdit, IInv, TypeOK, Idle
  <2>2. [editor[e] EXCEPT !.pc = "checked"] \in Editing
    BY <2>1 DEF Editing
  <2>3. editor' \in [Editors -> Editing \cup {Idle}]
    BY <1>3, <2>2 DEF CheckEdit, IInv, TypeOK
  <2> QED BY <1>3, <2>3 DEF CheckEdit, IInv, TypeOK, IdsAreUnique, HasRow
<1>4. CASE SaveEdit(e)
  <2>1. editor[e] \in Editing
    BY <1>4 DEF SaveEdit, IInv, TypeOK, Idle
  <2>2. [editor[e] EXCEPT !.pc = "saved"] \in Editing
    BY <2>1 DEF Editing
  <2>3. editor' \in [Editors -> Editing \cup {Idle}]
    BY <1>4, <2>2 DEF SaveEdit, IInv, TypeOK
  <2>4. event' \in Event
    <3>1. editor[e].request \in Request /\ event \in Event
      BY <2>1 DEF Editing, IInv, TypeOK
    <3> QED BY <1>4, <3>1, EditWindowsAssumption DEF SaveEdit, Event, Request, Windows
  <2> QED BY <1>4, <2>3, <2>4 DEF SaveEdit, IInv, TypeOK, IdsAreUnique, HasRow
<1>5. CASE PromoteEdit(e)
  <2>1. RowsOK(reg', nextId)
    BY <1>1, <1>5, PromoteRows DEF PromoteEdit
  <2>2. editor' \in [Editors -> Editing \cup {Idle}]
    BY <1>5 DEF PromoteEdit, IInv, TypeOK
  <2> QED BY <1>5, <2>1, <2>2 DEF PromoteEdit, IInv, TypeOK, IdsAreUnique, RowsOK, HasRow
<1>6. CASE AbortEdit(e)
  <2>1. editor' \in [Editors -> Editing \cup {Idle}]
    BY <1>6 DEF AbortEdit, IInv, TypeOK
  <2> QED BY <1>6, <2>1 DEF AbortEdit, IInv, TypeOK, IdsAreUnique, HasRow
<1> QED BY <1>2, <1>3, <1>4, <1>5, <1>6 DEF EditStep

(* Every step keeps IInv.                                                  *)
LEMMA NextIInv == IInv /\ [Next]_vars => IInv'
<1> SUFFICES ASSUME IInv, [Next]_vars PROVE IInv'
  OBVIOUS
<1>1. CASE \E u \in Users : Registering(u)
  BY <1>1, RegisteringKeepsIInv
<1>2. CASE \E e \in Editors : EditStep(e)
  BY <1>2, EditKeepsIInv
<1>3. CASE TimePasses
  <2>1. event' \in Event
    BY <1>3 DEF TimePasses, IInv, TypeOK, Event, Windows
  <2> QED BY <1>3, <2>1 DEF TimePasses, IInv, TypeOK, IdsAreUnique, HasRow
<1>4. CASE UNCHANGED vars
  BY <1>4 DEF vars, IInv, TypeOK, IdsAreUnique, HasRow
<1> QED BY <1>1, <1>2, <1>3, <1>4 DEF Next

(* Every reachable state is well typed, whoever registers and edits.       *)
THEOREM TypeCorrect == Spec => []TypeOK
<1>1. IInv => TypeOK
  BY DEF IInv
<1> QED BY <1>1, InitIInv, NextIInv, PTL DEF Spec

(* No two rows ever share an id, and no id is used twice.                  *)
THEOREM IdsUnique == Spec => []IdsAreUnique
<1>1. IInv => IdsAreUnique
  BY DEF IInv
<1> QED BY <1>1, InitIInv, NextIInv, PTL DEF Spec

-----------------------------------------------------------------------------
(* What a promotion does to the places and to the waiting list              *)

(* Of the rows with ids below a bound there is an oldest.                  *)
LEMMA Oldest ==
  ASSUME NEW r, NEW n \in Nat, RowsOK(r, n),
         NEW T \in SUBSET Users, T # {}, \A v \in T : r[v].type # "NONE"
  PROVE  \E u \in T : \A v \in T : r[u].id <= r[v].id
<1> DEFINE ids == {r[v].id : v \in T}
<1>1. \A v \in T : r[v].id \in Nat
  BY DEF RowsOK
<1>2. ids \subseteq Nat /\ ids # {}
  BY <1>1
<1>3. \E x \in ids : \A y \in ids : ~(<<y, x>> \in OpToRel(<, Nat))
  <2> HIDE DEF ids
  <2> QED BY <1>2, NatLessThanWellFounded, WFMin
<1>4. PICK u \in T : \A y \in ids : ~(<<y, r[u].id>> \in OpToRel(<, Nat))
  BY <1>3
<1>5. \A v \in T : ~(r[v].id < r[u].id)
  BY <1>1, <1>4 DEF OpToRel
<1> QED BY <1>1, <1>5

(* ... and a newest.                                                       *)
LEMMA Newest ==
  ASSUME NEW r, NEW n \in Nat, RowsOK(r, n),
         NEW T \in SUBSET Users, T # {}, \A v \in T : r[v].type # "NONE"
  PROVE  \E u \in T : \A v \in T : r[v].id <= r[u].id
<1> DEFINE gaps == {n - r[v].id : v \in T}
<1>1. \A v \in T : r[v].id \in Nat /\ n - r[v].id \in Nat
  BY DEF RowsOK
<1>2. gaps \subseteq Nat /\ gaps # {}
  BY <1>1
<1>3. \E x \in gaps : \A y \in gaps : ~(<<y, x>> \in OpToRel(<, Nat))
  <2> HIDE DEF gaps
  <2> QED BY <1>2, NatLessThanWellFounded, WFMin
<1>4. PICK u \in T : \A y \in gaps : ~(<<y, n - r[u].id>> \in OpToRel(<, Nat))
  BY <1>3
<1>5. \A v \in T : ~(n - r[v].id < n - r[u].id)
  BY <1>1, <1>4 DEF OpToRel
<1> QED BY <1>1, <1>5

(* Every set of users is finite, so its members can be counted.            *)
LEMMA UsersFinite ==
  ASSUME NEW T \in SUBSET Users
  PROVE  IsFiniteSet(T) /\ Cardinality(T) \in Nat
BY UsersAssumption, FS_Subset, FS_CardinalityType

(* The promoted are added to those who hold a place, and taken from those  *)
(* who wait.                                                               *)
LEMMA PromotedMove ==
  ASSUME NEW r \in [Users -> Row], NEW excluded
  PROVE  LET P == Promoted(r, excluded)
             new == Promote(r, excluded)
         IN  /\ P \subseteq Waiting(r) \ excluded
             /\ Confirmed(new) = Confirmed(r) \cup P
             /\ Waiting(new) = Waiting(r) \ P
             /\ Cardinality(Confirmed(new)) = Cardinality(Confirmed(r)) + Cardinality(P)
<1> DEFINE P == Promoted(r, excluded)
           new == Promote(r, excluded)
<1>1. P \subseteq Waiting(r) \ excluded
  BY DEF Promoted
<1>2. \A u \in Users : new[u].type = IF u \in P THEN "ATTENDEE" ELSE r[u].type
  <2> TAKE u \in Users
  <2>1. r[u] \in Row
    OBVIOUS
  <2>2. new[u] = IF u \in P THEN [r[u] EXCEPT !.type = "ATTENDEE"] ELSE r[u]
    BY DEF Promote
  <2> HIDE DEF P, new
  <2> QED BY <2>1, <2>2 DEF Row
<1>3. P \subseteq Users /\ Confirmed(r) \cap P = {}
  BY <1>1 DEF Waiting, Confirmed, Counts, Counting
<1> HIDE DEF P, new
<1>4. Confirmed(new) = Confirmed(r) \cup P
  BY <1>2, <1>3 DEF Confirmed, Counts, Counting
<1>5. Waiting(new) = Waiting(r) \ P
  BY <1>2, <1>3 DEF Waiting
<1>6. Cardinality(Confirmed(new)) = Cardinality(Confirmed(r)) + Cardinality(P)
  <2>1. Confirmed(r) \subseteq Users
    BY DEF Confirmed
  <2>2. Cardinality(Confirmed(r) \cap P) = 0
    BY <1>3, FS_EmptySet
  <2>3. Cardinality(Confirmed(r) \cup P) = Cardinality(Confirmed(r)) + Cardinality(P) - 0
    BY <1>3, <2>1, <2>2, UsersFinite, FS_Union
  <2> QED BY <1>3, <1>4, <2>1, <2>3, UsersFinite
<1> QED BY <1>1, <1>4, <1>5, <1>6 DEF P, new

(* Whoever is promoted fits: the newest of the promoted has all the others *)
(* ahead of it.                                                            *)
LEMMA PromotionFits ==
  ASSUME NEW r, NEW n \in Nat, RowsOK(r, n), NEW excluded, event \in Event,
         Promoted(r, excluded) # {}
  PROVE  FitsIn(Cardinality(Confirmed(Promote(r, excluded))), event.max)
<1> DEFINE P == Promoted(r, excluded)
           queue == Waiting(r) \ excluded
           Ahead(u) == {v \in queue : r[v].id < r[u].id}
<1>1. r \in [Users -> Row]
  BY DEF RowsOK
<1>2. P \subseteq queue /\ queue \subseteq Users
  BY DEF Promoted, Waiting
<1>3. \A u \in queue : r[u].type # "NONE" /\ r[u].id \in Nat
  BY DEF Waiting, RowsOK
<1>4. PICK u \in P : \A v \in P : r[v].id <= r[u].id
  BY <1>2, <1>3, Newest
<1>5. P \ {u} \subseteq Ahead(u)
  <2> SUFFICES ASSUME NEW v \in P, v # u PROVE r[v].id < r[u].id
    BY <1>2
  <2>1. r[v].id <= r[u].id /\ r[v].id \in Nat /\ r[u].id \in Nat
    BY <1>2, <1>3, <1>4
  <2>2. r[v].id # r[u].id
    BY <1>2, <1>3 DEF RowsOK
  <2> QED BY <2>1, <2>2
<1>6. FitsIn(Cardinality(Confirmed(r)) + Cardinality(Ahead(u)) + 1, event.max)
  BY <1>4 DEF Promoted
<1> HIDE DEF P
<1>7. Cardinality(P) <= Cardinality(Ahead(u)) + 1
  <2>1. IsFiniteSet(P) /\ IsFiniteSet(Ahead(u)) /\ Cardinality(P) \in Nat
        /\ Cardinality(Ahead(u)) \in Nat
    BY <1>2, UsersFinite
  <2>2. Cardinality(P \ {u}) = Cardinality(P) - 1
    BY <2>1, FS_RemoveElement
  <2>3. Cardinality(P \ {u}) <= Cardinality(Ahead(u))
    BY <1>5, <2>1, FS_Subset
  <2> QED BY <2>1, <2>2, <2>3
<1>8. Cardinality(Confirmed(Promote(r, excluded))) = Cardinality(Confirmed(r)) + Cardinality(P)
  BY <1>1, PromotedMove DEF P
<1>9. /\ Cardinality(Confirmed(r)) \in Nat
      /\ Cardinality(P) \in Nat
      /\ Cardinality(Ahead(u)) \in Nat
  BY <1>2, UsersFinite DEF Confirmed
<1>10. event.max # Unlimited => event.max \in Nat
  BY LimitsAssumption DEF Event, Capacities
<1> HIDE DEF Ahead
<1> QED BY <1>6, <1>7, <1>8, <1>9, <1>10 DEF FitsIn

(* Whoever is not promoted does not fit: the oldest of them has only       *)
(* promoted users ahead of it.                                             *)
LEMMA PromotionFills ==
  ASSUME NEW r, NEW n \in Nat, RowsOK(r, n), NEW excluded, event \in Event,
         FitsIn(Cardinality(Confirmed(Promote(r, excluded))) + 1, event.max)
  PROVE  Waiting(Promote(r, excluded)) \subseteq excluded
<1> DEFINE P == Promoted(r, excluded)
           queue == Waiting(r) \ excluded
           Ahead(u) == {v \in queue : r[v].id < r[u].id}
<1>1. r \in [Users -> Row]
  BY DEF RowsOK
<1>2. P \subseteq queue /\ queue \subseteq Users
  BY DEF Promoted, Waiting
<1>3. \A u \in queue : r[u].type # "NONE" /\ r[u].id \in Nat
  BY DEF Waiting, RowsOK
<1>4. ASSUME queue \ P # {} PROVE FALSE
  <2>1. PICK u \in queue \ P : \A v \in queue \ P : r[u].id <= r[v].id
    BY <1>2, <1>3, <1>4, Oldest
  <2>2. Ahead(u) \subseteq P
    BY <1>3, <2>1
  <2>3. ~FitsIn(Cardinality(Confirmed(r)) + Cardinality(Ahead(u)) + 1, event.max)
    BY <2>1 DEF Promoted
  <2>4. Cardinality(Confirmed(Promote(r, excluded))) = Cardinality(Confirmed(r)) + Cardinality(P)
    BY <1>1, PromotedMove
  <2> HIDE DEF P
  <2>5. Cardinality(Ahead(u)) <= Cardinality(P)
    BY <1>2, <2>2, UsersFinite, FS_Subset
  <2>6. /\ Cardinality(Confirmed(r)) \in Nat
        /\ Cardinality(P) \in Nat
        /\ Cardinality(Ahead(u)) \in Nat
    BY <1>2, UsersFinite DEF Confirmed
  <2>7. event.max # Unlimited => event.max \in Nat
    BY LimitsAssumption DEF Event, Capacities
  <2> HIDE DEF Ahead
  <2> QED BY <2>3, <2>4, <2>5, <2>6, <2>7 DEF FitsIn
<1>5. Waiting(Promote(r, excluded)) = Waiting(r) \ P
  BY <1>1, PromotedMove
<1> QED BY <1>4, <1>5

-----------------------------------------------------------------------------
(* Places: never overbooked, never left empty while someone waits           *)

(* What the step to the rows r must respect; event is not changed by it.   *)
Bounded(r) ==
  Cardinality(Confirmed(r)) > Cardinality(Confirmed(reg))
    => FitsIn(Cardinality(Confirmed(r)), event.max)
Offered(u, r) ==
  Waiting(r) \subseteq {u} \/ ~FitsIn(Cardinality(Confirmed(r)) + 1, event.max)

(* Promoting after rows were stored is bounded if storing only took places *)
(* away.                                                                   *)
LEMMA PromoteBounded ==
  ASSUME IInv, NEW r, NEW n \in Nat, RowsOK(r, n), NEW excluded,
         Confirmed(r) \subseteq Confirmed(reg)
  PROVE  Bounded(Promote(r, excluded))
<1>1. CASE Promoted(r, excluded) # {}
  BY <1>1, PromotionFits DEF Bounded, IInv, TypeOK
<1>2. CASE Promoted(r, excluded) = {}
  <2>1. Confirmed(Promote(r, excluded)) = Confirmed(r)
    <3>1. r \in [Users -> Row]
      BY DEF RowsOK
    <3>2. Confirmed(Promote(r, excluded)) = Confirmed(r) \cup Promoted(r, excluded)
      BY <3>1, PromotedMove
    <3> QED BY <1>2, <3>2
  <2>2. Cardinality(Confirmed(r)) <= Cardinality(Confirmed(reg))
    BY UsersFinite, FS_Subset DEF Confirmed
  <2>3. Cardinality(Confirmed(r)) \in Nat /\ Cardinality(Confirmed(reg)) \in Nat
    BY UsersFinite DEF Confirmed
  <2> QED BY <2>1, <2>2, <2>3 DEF Bounded
<1> QED BY <1>1, <1>2

(* The common end of Register, Add and Update takes a place only if there  *)
(* is one, and offers the place that was given up.                         *)
LEMMA StorePlaces ==
  ASSUME IInv, NEW u \in accounts, NEW type \in RegistrationTypes,
         NEW registered \in BOOLEAN, TakeId(u),
         type \in Counting /\ ~Counts(reg[u]) => HasCapacity(u),
         StoreAndPromote(u, type, registered)
  PROVE  /\ Bounded(reg')
         /\ \A v \in Users : GivesUpPlace(v) => Offered(v, reg')
<1> DEFINE stored == Store(u, type, registered)
<1>1. RowsOK(stored, nextId') /\ nextId' \in Nat
  BY StoreRows
<1>2. u \in Users /\ reg \in [Users -> Row] /\ event \in Event
  BY DEF IInv, TypeOK
<1>3. \A v \in Users : stored[v].type = IF v = u THEN type ELSE reg[v].type
  BY <1>2 DEF Store
<1>4. stored \in [Users -> Row]
  BY <1>1 DEF RowsOK
<1> HIDE DEF stored
<1>5. CASE Counts(reg[u]) /\ type \notin Counting
  <2>1. reg' = Promote(stored, {u})
    BY <1>5 DEF StoreAndPromote, stored
  <2>2. Confirmed(stored) \subseteq Confirmed(reg)
    BY <1>3, <1>5 DEF Confirmed, Counts
  <2>3. Bounded(reg')
    BY <1>1, <2>1, <2>2, PromoteBounded
  <2>4. ASSUME NEW v \in Users, GivesUpPlace(v) PROVE Offered(v, reg')
    <3>1. Confirmed(stored) \subseteq Confirmed(reg')
      BY <1>4, <2>1, PromotedMove
    <3>2. v = u
      BY <1>3, <2>4, <3>1 DEF GivesUpPlace, Confirmed, Counts
    <3>3. FitsIn(Cardinality(Confirmed(reg')) + 1, event.max) => Waiting(reg') \subseteq {u}
      BY <1>1, <1>2, <2>1, PromotionFills
    <3> QED BY <3>2, <3>3 DEF Offered
  <2> QED BY <2>3, <2>4
<1>6. CASE ~(Counts(reg[u]) /\ type \notin Counting)
  <2>1. reg' = stored
    BY <1>6 DEF StoreAndPromote, stored
  <2>2. \A v \in Users : ~GivesUpPlace(v)
    BY <1>3, <1>6, <2>1 DEF GivesUpPlace, Counts
  <2>3. CASE type \in Counting /\ ~Counts(reg[u])
    <3>1. Confirmed(stored) = (Confirmed(reg) \ {u}) \cup {u}
      BY <1>2, <1>3, <2>3 DEF Confirmed, Counts
    <3>2. Cardinality(Confirmed(stored)) = Cardinality(Confirmed(reg) \ {u}) + 1
      <4>1. IsFiniteSet(Confirmed(reg) \ {u})
        BY UsersFinite DEF Confirmed
      <4> QED BY <3>1, <4>1, FS_AddElement
    <3> QED BY <2>1, <2>2, <2>3, <3>2 DEF HasCapacity, Bounded
  <2>4. CASE ~(type \in Counting /\ ~Counts(reg[u]))
    <3>1. Confirmed(stored) = Confirmed(reg)
      BY <1>3, <1>6, <2>4 DEF Confirmed, Counts
    <3>2. Cardinality(Confirmed(reg)) \in Nat
      BY UsersFinite DEF Confirmed
    <3> QED BY <2>1, <2>2, <3>1, <3>2 DEF Bounded
  <2> QED BY <2>3, <2>4
<1> QED BY <1>5, <1>6

(* So does removing a row.                                                 *)
LEMMA RemovePlaces ==
  ASSUME IInv, NEW u \in Users, RemoveAndPromote(u)
  PROVE  /\ Bounded(reg')
         /\ \A v \in Users : GivesUpPlace(v) => Offered(v, reg')
<1>1. RowsOK(Remove(u), nextId) /\ nextId \in Nat /\ event \in Event
  BY RemoveRows DEF IInv, TypeOK
<1>2. Confirmed(Remove(u)) \subseteq Confirmed(reg)
  BY DEF Confirmed, Counts, Counting, Remove, NoRow, IInv, TypeOK
<1>3. reg' = Promote(Remove(u), {})
  BY DEF RemoveAndPromote
<1>4. Bounded(reg')
  BY <1>1, <1>2, <1>3, PromoteBounded
<1>5. FitsIn(Cardinality(Confirmed(reg')) + 1, event.max) => Waiting(reg') = {}
  BY <1>1, <1>3, PromotionFills
<1> QED BY <1>4, <1>5 DEF Offered

(* Every step respects the places.                                         *)
LEMMA RegisteringPlaces ==
  ASSUME IInv, NEW u \in Users, Registering(u)
  PROVE  /\ event' = event
         /\ Bounded(reg')
         /\ \A v \in Users : GivesUpPlace(v) => Offered(v, reg') \/ DeleteUser(v)
<1>1. ASSUME NEW t \in RegistrationTypes, Register(u, t)
      PROVE  /\ event' = event
             /\ Bounded(reg')
             /\ \A v \in Users : GivesUpPlace(v) => Offered(v, reg')
  <2> DEFINE type == IF t = "ATTENDEE" /\ ~Counts(reg[u]) /\ ~HasCapacity(u)
                       THEN "WAITLISTED" ELSE t
  <2>1. type \in RegistrationTypes
    BY DEF RegistrationTypes
  <2>2. /\ u \in accounts
        /\ type \in Counting /\ ~Counts(reg[u]) => HasCapacity(u)
        /\ TakeId(u)
        /\ StoreAndPromote(u, type, FALSE)
        /\ event' = event
    BY <1>1 DEF Register
  <2> HIDE DEF type
  <2> QED BY <2>1, <2>2, StorePlaces
<1>2. ASSUME NEW t \in RegistrationTypes, NEW paid \in BOOLEAN, Add(u, t, paid)
      PROVE  /\ event' = event
             /\ Bounded(reg')
             /\ \A v \in Users : GivesUpPlace(v) => Offered(v, reg')
  BY <1>2, StorePlaces DEF Add
<1>3. ASSUME NEW t \in RegistrationTypes, NEW paid \in BOOLEAN, Update(u, t, paid)
      PROVE  /\ event' = event
             /\ Bounded(reg')
             /\ \A v \in Users : GivesUpPlace(v) => Offered(v, reg')
  <2>1. u \in accounts /\ TakeId(u)
    BY <1>3 DEF Update, IInv, TypeOK, TakeId
  <2> QED BY <1>3, <2>1, StorePlaces DEF Update
<1>4. CASE Unregister(u)
  BY <1>4, RemovePlaces DEF Unregister
<1>5. CASE Delete(u)
  BY <1>5, RemovePlaces DEF Delete
<1>6. CASE DeleteUser(u)
  <2>1. event' = event /\ reg' = Remove(u)
    BY <1>6 DEF DeleteUser
  <2>2. Confirmed(reg') \subseteq Confirmed(reg) /\ \A v \in Users : v # u => ~GivesUpPlace(v)
    BY <2>1 DEF GivesUpPlace, Confirmed, Counts, Counting, Remove, NoRow, IInv, TypeOK
  <2>3. Cardinality(Confirmed(reg')) <= Cardinality(Confirmed(reg))
    BY <2>2, UsersFinite, FS_Subset DEF Confirmed
  <2>4. Cardinality(Confirmed(reg')) \in Nat /\ Cardinality(Confirmed(reg)) \in Nat
    BY UsersFinite DEF Confirmed
  <2> QED BY <1>6, <2>1, <2>2, <2>3, <2>4 DEF Bounded
<1> QED BY <1>1, <1>2, <1>3, <1>4, <1>5, <1>6 DEF Registering

(* A step that changes rows leaves the event alone, takes places within    *)
(* the limits and offers those given up; the others leave the rows alone.  *)
LEMMA NextPlaces ==
  ASSUME IInv, [Next]_vars
  PROVE  \/ event' = event /\ Bounded(reg')
            /\ \A v \in Users : GivesUpPlace(v) => Offered(v, reg') \/ DeleteUser(v)
         \/ reg' = reg
<1>1. CASE \E u \in Users : Registering(u)
  BY <1>1, RegisteringPlaces
<1>2. ASSUME NEW e \in Editors, PromoteEdit(e), event.type = "EVENT"
      PROVE  event' = event /\ Bounded(reg') /\ \A v \in Users : ~GivesUpPlace(v)
  <2>1. RowsOK(reg, nextId) /\ nextId \in Nat /\ event' = event /\ reg' = Promote(reg, {})
    BY <1>2, IInvRows DEF PromoteEdit, IInv, TypeOK
  <2>2. Bounded(reg')
    BY <2>1, PromoteBounded
  <2>3. Confirmed(reg) \subseteq Confirmed(reg')
    BY <2>1, PromotedMove DEF RowsOK
  <2> QED BY <2>1, <2>2, <2>3 DEF GivesUpPlace, Confirmed
<1>3. ASSUME NEW e \in Editors, EditStep(e), ~(PromoteEdit(e) /\ event.type = "EVENT")
      PROVE  reg' = reg
  BY <1>3 DEF EditStep, LoadEdit, CheckEdit, SaveEdit, PromoteEdit, AbortEdit
<1>4. CASE TimePasses
  BY <1>4 DEF TimePasses
<1>5. CASE UNCHANGED vars
  BY <1>5 DEF vars
<1> QED BY <1>1, <1>2, <1>3, <1>4, <1>5 DEF Next

(* A step after which more people hold a place leaves places for all.      *)
LEMMA NoStepOverbooks ==
  ASSUME IInv, [Next]_vars
  PROVE  [Cardinality(Confirmed(reg')) > Cardinality(Confirmed(reg))
            => FitsIn(Cardinality(Confirmed(reg')), event'.max)]_vars
<1> SUFFICES ASSUME Cardinality(Confirmed(reg')) > Cardinality(Confirmed(reg))
             PROVE  FitsIn(Cardinality(Confirmed(reg')), event'.max)
  OBVIOUS
<1>1. reg' # reg
  <2>1. Cardinality(Confirmed(reg)) \in Nat
    BY UsersFinite DEF Confirmed
  <2> QED BY <2>1
<1> QED BY <1>1, NextPlaces DEF Bounded

(* No step of any reachable behaviour overbooks the event, with any number *)
(* of users, editors and any limits: whenever more people hold a place     *)
(* after a step of EventRegistrationService, they fit.                     *)
THEOREM NoOverbooking == Spec => NeverOverbooks
BY NoStepOverbooks, InitIInv, NextIInv, PTL DEF Spec, NeverOverbooks

(* A place given up in a step is offered in it.                            *)
LEMMA StepOffersPlaces ==
  ASSUME IInv, [Next]_vars
  PROVE  [\A u \in Users : GivesUpPlace(u) =>
            \/ Waiting(reg') \subseteq {u}
            \/ ~FitsIn(Cardinality(Confirmed(reg')) + 1, event'.max)
            \/ DeleteUser(u)]_vars
<1> SUFFICES ASSUME NEW u \in Users, GivesUpPlace(u)
             PROVE  \/ Waiting(reg') \subseteq {u}
                    \/ ~FitsIn(Cardinality(Confirmed(reg')) + 1, event'.max)
                    \/ DeleteUser(u)
  OBVIOUS
<1>1. reg' # reg
  BY DEF GivesUpPlace
<1> QED BY <1>1, NextPlaces DEF Offered

(* A place given up in any step of any reachable behaviour is offered to   *)
(* the waiting list in that step, the deletion of an account excepted.     *)
THEOREM PlacesAreOffered == Spec => FreedPlaceIsOffered
BY StepOffersPlaces, InitIInv, NextIInv, PTL DEF Spec, FreedPlaceIsOffered

-----------------------------------------------------------------------------
(* Order: the waiting list is served from its head, and nobody else's row   *)
(* is touched                                                               *)

(* Whoever is promoted is ahead of whoever is not.                         *)
LEMMA PromotionInOrder ==
  ASSUME NEW r, NEW n \in Nat, RowsOK(r, n), NEW excluded, event \in Event,
         NEW u \in Promoted(r, excluded),
         NEW v \in Waiting(r) \ excluded, v \notin Promoted(r, excluded)
  PROVE  r[u].id < r[v].id
<1> DEFINE queue == Waiting(r) \ excluded
           Ahead(w) == {x \in queue : r[x].id < r[w].id}
<1>1. queue \subseteq Users /\ \A w \in queue : r[w].type # "NONE" /\ r[w].id \in Nat
  BY DEF Waiting, RowsOK
<1>2. u \in queue /\ FitsIn(Cardinality(Confirmed(r)) + Cardinality(Ahead(u)) + 1, event.max)
  BY DEF Promoted
<1>3. ~FitsIn(Cardinality(Confirmed(r)) + Cardinality(Ahead(v)) + 1, event.max)
  BY DEF Promoted
<1>4. ASSUME r[v].id < r[u].id PROVE FALSE
  <2>1. Ahead(v) \subseteq Ahead(u)
    BY <1>1, <1>2, <1>4
  <2>2. Cardinality(Ahead(v)) <= Cardinality(Ahead(u))
    BY <1>1, <2>1, UsersFinite, FS_Subset
  <2>3. /\ Cardinality(Confirmed(r)) \in Nat
        /\ Cardinality(Ahead(u)) \in Nat
        /\ Cardinality(Ahead(v)) \in Nat
    BY <1>1, UsersFinite DEF Confirmed
  <2>4. event.max # Unlimited => event.max \in Nat
    BY LimitsAssumption DEF Event, Capacities
  <2> HIDE DEF Ahead
  <2> QED BY <1>2, <1>3, <2>2, <2>3, <2>4 DEF FitsIn
<1>5. r[u].id # r[v].id
  BY <1>1, <1>2 DEF RowsOK
<1> QED BY <1>1, <1>2, <1>4, <1>5

(* The order of the promotion that a step may end with, seen from the      *)
(* users whose rows it took over unchanged.                                *)
LEMMA PromoteOthers ==
  ASSUME IInv, NEW r, NEW n \in Nat, RowsOK(r, n), NEW excluded,
         reg' = Promote(r, excluded),
         NEW u \in Users, r[u] = reg[u]
  PROVE  /\ \/ reg'[u] = reg[u]
            \/ IsPromoted(u) /\ reg'[u] = [reg[u] EXCEPT !.type = "ATTENDEE"]
         /\ \A v \in Users : IsPromoted(u) /\ StillWaits(v) /\ v \notin excluded /\ r[v] = reg[v]
              => reg[u].id < reg[v].id
<1>1. r \in [Users -> Row] /\ event \in Event
  BY DEF RowsOK, IInv, TypeOK
<1>2. ASSUME NEW w \in Users
      PROVE  reg'[w] = IF w \in Promoted(r, excluded)
                         THEN [r[w] EXCEPT !.type = "ATTENDEE"] ELSE r[w]
  BY DEF Promote
<1>3. ASSUME NEW w \in Users, w \in Promoted(r, excluded)
      PROVE  r[w].type = "WAITLISTED" /\ reg'[w].type = "ATTENDEE"
  <2>1. r[w] \in Row /\ r[w].type = "WAITLISTED"
    BY <1>1, <1>3 DEF Promoted, Waiting
  <2>2. reg'[w] = [r[w] EXCEPT !.type = "ATTENDEE"]
    BY <1>2, <1>3
  <2> QED BY <2>1, <2>2 DEF Row
<1>4. \/ reg'[u] = reg[u]
      \/ IsPromoted(u) /\ reg'[u] = [reg[u] EXCEPT !.type = "ATTENDEE"]
  BY <1>2, <1>3 DEF IsPromoted, Counts, Counting
<1>5. ASSUME NEW v \in Users, IsPromoted(u), StillWaits(v), v \notin excluded, r[v] = reg[v]
      PROVE  reg[u].id < reg[v].id
  <2>1. u \in Promoted(r, excluded)
    BY <1>2, <1>5 DEF IsPromoted, Counts, Counting
  <2>2. v \in Waiting(r) \ excluded /\ v \notin Promoted(r, excluded)
    BY <1>3, <1>5 DEF StillWaits, Waiting
  <2>3. r[u].id < r[v].id
    BY <1>1, <2>1, <2>2, PromotionInOrder
  <2> QED BY <1>5, <2>3
<1> QED BY <1>4, <1>5

(* What a step may do to the row of u.                                     *)
Untouched(u) ==
  \/ reg'[u] = reg[u]
  \/ IsPromoted(u) /\ reg'[u] = [reg[u] EXCEPT !.type = "ATTENDEE"]
InOrder(u) ==
  \A v \in Users : IsPromoted(u) /\ StillWaits(v) => reg[u].id < reg[v].id

(* Storing a row reorders nobody among the others.                         *)
LEMMA StoreOthers ==
  ASSUME IInv, NEW w \in accounts, NEW type \in RegistrationTypes,
         NEW registered \in BOOLEAN, TakeId(w),
         StoreAndPromote(w, type, registered),
         NEW u \in Users, u # w
  PROVE  Untouched(u) /\ InOrder(u)
<1> DEFINE stored == Store(w, type, registered)
<1>1. RowsOK(stored, nextId') /\ nextId' \in Nat
  BY StoreRows
<1>2. \A v \in Users : v # w => stored[v] = reg[v]
  BY DEF Store, IInv, TypeOK
<1> HIDE DEF stored
<1>3. CASE Counts(reg[w]) /\ type \notin Counting
  <2>1. reg' = Promote(stored, {w})
    BY <1>3 DEF StoreAndPromote, stored
  <2>2. Untouched(u)
    BY <1>1, <1>2, <2>1, PromoteOthers DEF Untouched
  <2>3. ~StillWaits(w)
    BY <1>3 DEF StillWaits, Counts, Counting
  <2>4. InOrder(u)
    <3> SUFFICES ASSUME NEW v \in Users, IsPromoted(u), StillWaits(v)
                 PROVE  reg[u].id < reg[v].id
      BY DEF InOrder
    <3>1. v \notin {w} /\ stored[v] = reg[v] /\ stored[u] = reg[u]
      BY <1>2, <2>3
    <3> QED BY <1>1, <2>1, <3>1, PromoteOthers
  <2> QED BY <2>2, <2>4
<1>4. CASE ~(Counts(reg[w]) /\ type \notin Counting)
  <2>1. reg' = stored
    BY <1>4 DEF StoreAndPromote, stored
  <2> QED BY <1>2, <2>1 DEF Untouched, InOrder, IsPromoted, Counts, Counting
<1> QED BY <1>3, <1>4

(* Removing a row reorders nobody among the others.                        *)
LEMMA RemoveOthers ==
  ASSUME IInv, NEW w \in Users, RemoveAndPromote(w), NEW u \in Users, u # w
  PROVE  Untouched(u) /\ InOrder(u)
<1>1. RowsOK(Remove(w), nextId) /\ nextId \in Nat
  BY RemoveRows DEF IInv, TypeOK
<1>2. \A v \in Users : v # w => Remove(w)[v] = reg[v]
  BY DEF Remove, IInv, TypeOK
<1>3. reg' = Promote(Remove(w), {})
  BY DEF RemoveAndPromote
<1>4. Untouched(u)
  BY <1>1, <1>2, <1>3, PromoteOthers DEF Untouched
<1>5. ~StillWaits(w)
  <2>1. Remove(w)[w].type = "NONE"
    BY DEF Remove, NoRow, IInv, TypeOK
  <2>2. reg'[w].type = "NONE"
    BY <1>1, <1>3, <2>1, PromoteKeepsRows DEF RowsOK
  <2> QED BY <2>2 DEF StillWaits
<1>6. InOrder(u)
  <2> SUFFICES ASSUME NEW v \in Users, IsPromoted(u), StillWaits(v)
               PROVE  reg[u].id < reg[v].id
    BY DEF InOrder
  <2>1. v \notin {} /\ Remove(w)[v] = reg[v] /\ Remove(w)[u] = reg[u]
    BY <1>2, <1>5
  <2> QED BY <1>1, <1>3, <2>1, PromoteOthers
<1> QED BY <1>4, <1>6

(* Whoever is not the user of the step keeps the row or is promoted in     *)
(* order.                                                                  *)
LEMMA NextOthers ==
  ASSUME IInv, [Next]_vars, NEW u \in Users
  PROVE  (Untouched(u) /\ InOrder(u)) \/ Registering(u)
<1>1. ASSUME NEW w \in Users, Registering(w), u # w
      PROVE  Untouched(u) /\ InOrder(u)
  <2>1. ASSUME NEW t \in RegistrationTypes, Register(w, t)
        PROVE  Untouched(u) /\ InOrder(u)
    <3> DEFINE type == IF t = "ATTENDEE" /\ ~Counts(reg[w]) /\ ~HasCapacity(w)
                         THEN "WAITLISTED" ELSE t
    <3>1. type \in RegistrationTypes
      BY DEF RegistrationTypes
    <3>2. w \in accounts /\ TakeId(w) /\ StoreAndPromote(w, type, FALSE)
      BY <2>1 DEF Register
    <3> HIDE DEF type
    <3> QED BY <1>1, <3>1, <3>2, StoreOthers
  <2>2. ASSUME NEW t \in RegistrationTypes, NEW paid \in BOOLEAN, Add(w, t, paid)
        PROVE  Untouched(u) /\ InOrder(u)
    BY <1>1, <2>2, StoreOthers DEF Add
  <2>3. ASSUME NEW t \in RegistrationTypes, NEW paid \in BOOLEAN, Update(w, t, paid)
        PROVE  Untouched(u) /\ InOrder(u)
    <3>1. w \in accounts /\ TakeId(w)
      BY <2>3 DEF Update, IInv, TypeOK, TakeId
    <3> QED BY <1>1, <2>3, <3>1, StoreOthers DEF Update
  <2>4. CASE Unregister(w)
    BY <1>1, <2>4, RemoveOthers DEF Unregister
  <2>5. CASE Delete(w)
    BY <1>1, <2>5, RemoveOthers DEF Delete
  <2>6. CASE DeleteUser(w)
    <3>1. reg'[u] = reg[u]
      BY <1>1, <2>6 DEF DeleteUser, Remove, IInv, TypeOK
    <3> QED BY <3>1 DEF Untouched, InOrder, IsPromoted, Counts, Counting
  <2> QED BY <1>1, <2>1, <2>2, <2>3, <2>4, <2>5, <2>6 DEF Registering
<1>2. ASSUME reg' = reg
      PROVE  Untouched(u) /\ InOrder(u)
  BY <1>2 DEF Untouched, InOrder, IsPromoted, Counts, Counting
<1>3. ASSUME NEW e \in Editors, PromoteEdit(e), event.type = "EVENT"
      PROVE  Untouched(u) /\ InOrder(u)
  <2>1. RowsOK(reg, nextId) /\ nextId \in Nat /\ reg' = Promote(reg, {})
    BY <1>3, IInvRows DEF PromoteEdit, IInv, TypeOK
  <2> QED BY <2>1, PromoteOthers DEF Untouched, InOrder
<1>4. ASSUME NEW e \in Editors, EditStep(e), ~(PromoteEdit(e) /\ event.type = "EVENT")
      PROVE  reg' = reg
  BY <1>4 DEF EditStep, LoadEdit, CheckEdit, SaveEdit, PromoteEdit, AbortEdit
<1>5. TimePasses \/ UNCHANGED vars => reg' = reg
  BY DEF TimePasses, vars
<1> QED BY <1>1, <1>2, <1>3, <1>4, <1>5 DEF Next

(* In every reachable behaviour the waiting list is served in order: who   *)
(* is promoted by a step about someone else was ahead of all who still     *)
(* wait.                                                                   *)
THEOREM ServedInOrder == Spec => PromotedInOrder
<1>1. IInv /\ [Next]_vars =>
        [\A u, v \in Users : IsPromoted(u) /\ StillWaits(v)
            => reg[u].id < reg[v].id \/ Registering(u)]_vars
  BY NextOthers DEF InOrder
<1> QED BY <1>1, InitIInv, NextIInv, PTL DEF Spec, PromotedInOrder

(* In every reachable behaviour a step about one user leaves the id, the   *)
(* queue position and the paid mark of all others alone.                   *)
THEOREM OthersUntouched == Spec => OthersAreLeftAlone
<1>1. IInv /\ [Next]_vars =>
        [\A u \in Users :
           \/ reg'[u] = reg[u]
           \/ IsPromoted(u) /\ reg'[u] = [reg[u] EXCEPT !.type = "ATTENDEE"]
           \/ Registering(u)]_vars
  BY NextOthers DEF Untouched
<1> QED BY <1>1, InitIInv, NextIInv, PTL DEF Spec, OthersAreLeftAlone

=============================================================================
