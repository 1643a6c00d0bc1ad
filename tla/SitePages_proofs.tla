---------------------------- MODULE SitePages_proofs ----------------------------
(***************************************************************************)
(* Proofs about the parts of the site that stand beside the finance pages, *)
(* each for every value of its constants: the role editor (RoleEditor), the*)
(* tables (PagedTable) and the router with its menus (SiteRouter); and that*)
(* the pages, put together (MCSitePages), behave each as it does alone.    *)
(***************************************************************************)
EXTENDS MCSitePages, FinancePages_proofs

-----------------------------------------------------------------------------
(* The role editor                                                         *)

Filled(from) == [of : Roles \cup {NoRole}, set : SUBSET from]
RoleSaves ==
  [number : Nat, role : Roles, adds : SUBSET People, deletes : SUBSET People,
   codes : Filled(Codes), touched : SUBSET People,
   state : {"members", "membersDone", "permissions", "permissionsDone", "failed"},
   got : (SUBSET People) \cup (SUBSET Codes)]

RoleTyped ==
  /\ RoleTypeOK
  /\ base \in Filled(People) /\ ticked \in Filled(Codes) /\ saves \subseteq RoleSaves
  /\ \A s \in saves :
       /\ s.state = "membersDone" => s.got \in SUBSET People
       /\ s.state = "permissionsDone" => s.got \in SUBSET Codes
  /\ sent \in Nat /\ others \in Nat /\ jumps \in Nat

RoleLoads ==
  [what : {"members", "permissions"}, role : Roles, number : Nat, state : {"sent", "read", "late"},
   got : (SUBSET People) \cup (SUBSET Codes)]

(* What was read for the page is of its kind, and members that are not     *)
(* late are those stored.                                                  *)
LoadsFit ==
  /\ roleLoads \subseteq RoleLoads
  /\ \A l \in roleLoads :
       /\ l.what = "members" => l.got \in SUBSET People
       /\ l.what = "permissions" => l.got \in SUBSET Codes
       /\ l.what = "members" /\ l.state = "read" => l.got = members[l.role]

(* A role that is gone has no members.                                     *)
GoneIsEmpty == \A r \in Roles \ exists : members[r] = {}

(* Whoever is selected or not against what was read has been toggled, and  *)
(* so has everybody a save adds or deletes.                                *)
DifferencesAreToggled ==
  /\ \A p \in People : (p \in selected) # (p \in base.set) => p \in touched
  /\ \A s \in saves : s.adds \cup s.deletes \subseteq s.touched

(* While nobody else has changed the role and no saves overlap, the members*)
(* on the page are those stored, unless they came late or the one save     *)
(* under way has just changed them; its answer then says what they are.    *)
ReadIsStored ==
  ~apart =>
    /\ base.of \in Roles
    /\ \A s, t \in saves : s = t
    /\ \A s \in saves : s.state = "membersDone" => s.got = members[s.role]
    /\ \/ late
       \/ base.set = members[base.of]
       \/ \E s \in saves : s.role = base.of /\ s.state \in {"membersDone", "failed"}

(* The invariant that is inductive.                                        *)
RoleIInv == RoleTyped /\ LoadsFit /\ GoneIsEmpty /\ DifferencesAreToggled /\ ReadIsStored

-----------------------------------------------------------------------------
LEMMA OfIsFilled ==
  ASSUME NEW r \in Roles \cup {NoRole}, NEW from, NEW set \in SUBSET from
  PROVE  Of(r, set) \in Filled(from) /\ Of(r, set).of = r /\ Of(r, set).set = set
BY DEF Of, Filled

LEMMA RoleInitEstablishes ==
  ASSUME RoleInit
  PROVE  RoleIInv
<1>1. \A from : Nothing \in Filled(from) /\ Nothing.set = {} /\ Nothing.of = NoRole
  BY OfIsFilled DEF Nothing
<1>2. RoleTyped
  BY <1>1, RoleAssumption DEF RoleInit, RoleTyped, RoleTypeOK, Filled
<1>3. GoneIsEmpty /\ DifferencesAreToggled /\ ReadIsStored
  BY <1>1 DEF RoleInit, GoneIsEmpty, DifferencesAreToggled, ReadIsStored
<1>4. LoadsFit
  BY DEF RoleInit, LoadsOf, LoadsFit, RoleLoads
<1> QED BY <1>2, <1>3, <1>4 DEF RoleIInv

(* Requests that are sent have read nothing yet.                           *)
LEMMA SentLoadsFit ==
  ASSUME LoadsFit, NEW r \in Roles, NEW n \in Nat, roleLoads' = roleLoads \cup LoadsOf(r, n),
         \A q \in Roles : members'[q] = members[q]
  PROVE  LoadsFit'
<1>1. \A l \in LoadsOf(r, n) : l \in RoleLoads /\ l.state = "sent" /\ l.got = {}
  BY DEF LoadsOf, RoleLoads
<1>2. \A l \in roleLoads : l.role \in Roles
  BY DEF LoadsFit, RoleLoads
<1> QED BY <1>1, <1>2 DEF LoadsFit, RoleLoads

(* What was read of a role that is changed is late.                        *)
LEMMA LateLoadsFit ==
  ASSUME LoadsFit, NEW r \in Roles, MakeLate(r),
         \A q \in Roles : q # r => members'[q] = members[q]
  PROVE  LoadsFit'
<1>1. \A l \in roleLoads : l \in RoleLoads /\ l.role \in Roles
  BY DEF LoadsFit, RoleLoads
<1>2. ASSUME NEW l \in roleLoads', l \notin roleLoads
      PROVE  \E k \in roleLoads :
               l \in RoleLoads /\ l.what = k.what /\ l.got = k.got /\ l.state = "late"
  <2>1. PICK k \in roleLoads : l = [k EXCEPT !.state = "late"]
    BY <1>2 DEF MakeLate, MembersOf
  <2> QED BY <1>1, <2>1 DEF RoleLoads
<1>3. ASSUME NEW l \in roleLoads', l.what = "members", l.state = "read"
      PROVE  l \in roleLoads /\ l.role # r
  <2>1. l \in roleLoads
    BY <1>2, <1>3
  <2>2. l \notin MembersOf(r)
    <3> SUFFICES ASSUME l \in MembersOf(r) PROVE FALSE
      OBVIOUS
    <3>1. PICK k \in MembersOf(r) : l = [k EXCEPT !.state = "late"]
      BY DEF MakeLate
    <3> QED BY <1>1, <1>3, <3>1 DEF MembersOf, RoleLoads
  <2> QED BY <1>3, <2>1, <2>2 DEF MembersOf
<1> QED BY <1>1, <1>2, <1>3 DEF LoadsFit

(* Fewer requests, and the same members.                                   *)
LEMMA FewerLoadsFit ==
  ASSUME LoadsFit, roleLoads' \subseteq roleLoads, UNCHANGED members
  PROVE  LoadsFit'
BY DEF LoadsFit

-----------------------------------------------------------------------------
(* Steps that leave the members, the form and the saves alone               *)

LEMMA JumpPreserves ==
  ASSUME RoleIInv, NEW r \in Roles, Jump(r)
  PROVE  RoleIInv'
<1>1. RoleTyped' /\ GoneIsEmpty' /\ DifferencesAreToggled' /\ ReadIsStored'
  BY DEF Jump, server, roleForm, roleHistory, RoleIInv, RoleTyped, RoleTypeOK, GoneIsEmpty,
     DifferencesAreToggled, ReadIsStored
<1>2. LoadsFit'
  BY SentLoadsFit DEF Jump, server, RoleIInv, RoleTyped
<1> QED BY <1>1, <1>2 DEF RoleIInv

LEMMA CreatePreserves ==
  ASSUME RoleIInv, NEW r \in Roles, Create(r)
  PROVE  RoleIInv'
<1>1. RoleTyped'
  BY DEF Create, roleForm, RoleIInv, RoleTyped, RoleTypeOK
<1>2. GoneIsEmpty'
  BY DEF Create, RoleIInv, RoleTyped, RoleTypeOK, GoneIsEmpty
<1>3. DifferencesAreToggled' /\ ReadIsStored'
  BY DEF Create, roleForm, RoleIInv, DifferencesAreToggled, ReadIsStored
<1>4. LoadsFit'
  <2>1. \A q \in Roles : members'[q] = members[q]
    BY DEF Create, RoleIInv, RoleTyped, RoleTypeOK, GoneIsEmpty
  <2> QED BY <2>1, SentLoadsFit DEF Create, RoleIInv, RoleTyped
<1> QED BY <1>1, <1>2, <1>3, <1>4 DEF RoleIInv

LEMMA ServerReadsRolePreserves ==
  ASSUME RoleIInv, NEW l \in roleLoads, ServerReadsRole(l)
  PROVE  RoleIInv'
<1> DEFINE got == IF l.what = "members" THEN members[l.role] ELSE granted[l.role]
           k == [l EXCEPT !.state = "read", !.got = got]
<1>1. l \in RoleLoads /\ l.role \in Roles /\ roleLoads' = (roleLoads \ {l}) \cup {k}
  BY DEF ServerReadsRole, RoleIInv, LoadsFit, RoleLoads
<1>2. /\ l.what = "members" => got \in SUBSET People /\ got = members[l.role]
      /\ l.what = "permissions" => got \in SUBSET Codes
      /\ got \in (SUBSET People) \cup (SUBSET Codes)
  BY <1>1 DEF RoleIInv, RoleTyped, RoleTypeOK
<1> HIDE DEF got
<1>3. k \in RoleLoads /\ k.what = l.what /\ k.role = l.role /\ k.got = got
  BY <1>1, <1>2 DEF RoleLoads
<1> HIDE DEF k
<1>4. LoadsFit'
  BY <1>1, <1>2, <1>3 DEF ServerReadsRole, server, RoleIInv, LoadsFit
<1>5. RoleTyped' /\ GoneIsEmpty' /\ DifferencesAreToggled' /\ ReadIsStored'
  BY DEF ServerReadsRole, server, roleForm, roleHistory, roleBounds, RoleIInv, RoleTyped,
     RoleTypeOK, GoneIsEmpty, DifferencesAreToggled, ReadIsStored
<1> QED BY <1>4, <1>5 DEF RoleIInv

LEMMA MembersLoadedPreserves ==
  ASSUME RoleIInv, NEW l \in roleLoads, MembersLoaded(l)
  PROVE  RoleIInv'
<1>1. l.role \in Roles /\ l.got \in SUBSET People
      /\ (l.state = "read" => l.got = members[l.role])
  BY DEF MembersLoaded, RoleIInv, LoadsFit, RoleLoads
<1>2. base' \in Filled(People) /\ base'.of = l.role /\ base'.set = l.got
  BY <1>1, OfIsFilled DEF MembersLoaded
<1>3. RoleTyped'
  BY <1>1, <1>2 DEF MembersLoaded, server, roleBounds, RoleIInv, RoleTyped, RoleTypeOK
<1>4. GoneIsEmpty' /\ LoadsFit'
  BY FewerLoadsFit DEF MembersLoaded, server, RoleIInv, GoneIsEmpty
<1>5. DifferencesAreToggled'
  BY <1>2 DEF MembersLoaded, RoleIInv, DifferencesAreToggled
<1>6. ReadIsStored'
  BY <1>1, <1>2 DEF MembersLoaded, server, RoleIInv, ReadIsStored
<1> QED BY <1>3, <1>4, <1>5, <1>6 DEF RoleIInv

LEMMA PermissionsLoadedPreserves ==
  ASSUME RoleIInv, NEW l \in roleLoads, PermissionsLoaded(l)
  PROVE  RoleIInv'
<1>1. l.role \in Roles /\ l.got \in SUBSET Codes
  BY DEF PermissionsLoaded, RoleIInv, LoadsFit, RoleLoads
<1>2. ticked' \in Filled(Codes) /\ ticked'.of = l.role /\ ticked'.set = l.got
  BY <1>1, OfIsFilled DEF PermissionsLoaded
<1>3. RoleTyped'
  BY <1>1, <1>2
     DEF PermissionsLoaded, server, roleHistory, roleBounds, RoleIInv, RoleTyped, RoleTypeOK
<1>4. GoneIsEmpty' /\ DifferencesAreToggled' /\ ReadIsStored' /\ LoadsFit'
  BY FewerLoadsFit DEF PermissionsLoaded, server, roleHistory, RoleIInv, GoneIsEmpty,
     DifferencesAreToggled, ReadIsStored
<1> QED BY <1>3, <1>4 DEF RoleIInv

LEMMA RoleLoadFailedPreserves ==
  ASSUME RoleIInv, NEW l \in roleLoads, RoleLoadFailed(l)
  PROVE  RoleIInv'
BY FewerLoadsFit DEF RoleLoadFailed, server, roleForm, roleBounds, RoleIInv, RoleTyped, RoleTypeOK,
   GoneIsEmpty, DifferencesAreToggled, ReadIsStored

LEMMA TogglePreserves ==
  ASSUME RoleIInv, NEW p \in People, Toggle(p)
  PROVE  RoleIInv'
<1>1. RoleTyped'
  BY DEF Toggle, server, roleHistory, roleBounds, RoleIInv, RoleTyped, RoleTypeOK
<1>2. DifferencesAreToggled'
  BY DEF Toggle, RoleIInv, DifferencesAreToggled
<1>3. GoneIsEmpty' /\ ReadIsStored' /\ LoadsFit'
  BY FewerLoadsFit DEF Toggle, server, roleHistory, RoleIInv, GoneIsEmpty, ReadIsStored
<1> QED BY <1>1, <1>2, <1>3 DEF RoleIInv

LEMMA TickPreserves ==
  ASSUME RoleIInv, NEW c \in Codes, Tick(c)
  PROVE  RoleIInv'
<1>1. ticked' \in Filled(Codes)
  <2> DEFINE set == IF c \in ticked.set THEN ticked.set \ {c} ELSE ticked.set \cup {c}
  <2>1. ticked \in Filled(Codes) /\ ticked' = [ticked EXCEPT !.set = set]
    BY DEF Tick, RoleIInv, RoleTyped
  <2>2. set \in SUBSET Codes
    BY <2>1 DEF Filled
  <2> HIDE DEF set
  <2> QED BY <2>1, <2>2 DEF Filled
<1>2. RoleTyped'
  BY <1>1 DEF Tick, server, roleHistory, roleBounds, RoleIInv, RoleTyped, RoleTypeOK, Filled
<1>3. GoneIsEmpty' /\ DifferencesAreToggled' /\ ReadIsStored' /\ LoadsFit'
  BY FewerLoadsFit DEF Tick, server, roleHistory, RoleIInv, GoneIsEmpty, DifferencesAreToggled,
     ReadIsStored
<1> QED BY <1>2, <1>3 DEF RoleIInv

LEMMA OthersMovePreserves ==
  ASSUME RoleIInv, NEW r \in Roles, NEW p \in People, OthersMove(r, p)
  PROVE  RoleIInv'
<1>1. RoleTyped'
  BY DEF OthersMove, roleForm, RoleIInv, RoleTyped, RoleTypeOK
<1>2. GoneIsEmpty' /\ DifferencesAreToggled' /\ ReadIsStored'
  BY DEF OthersMove, roleForm, RoleIInv, RoleTyped, RoleTypeOK, GoneIsEmpty,
     DifferencesAreToggled, ReadIsStored
<1>3. LoadsFit'
  <2>1. \A q \in Roles : q # r => members'[q] = members[q]
    BY DEF OthersMove, RoleIInv, RoleTyped, RoleTypeOK
  <2> QED BY <2>1, LateLoadsFit DEF OthersMove, RoleIInv
<1> QED BY <1>1, <1>2, <1>3 DEF RoleIInv

LEMMA RemoveRolePreserves ==
  ASSUME RoleIInv, NEW r \in Roles, RemoveRole(r)
  PROVE  RoleIInv'
<1>1. RoleTyped'
  BY DEF RemoveRole, roleForm, RoleIInv, RoleTyped, RoleTypeOK
<1>2. GoneIsEmpty' /\ DifferencesAreToggled' /\ ReadIsStored'
  BY DEF RemoveRole, roleForm, RoleIInv, RoleTyped, RoleTypeOK, GoneIsEmpty,
     DifferencesAreToggled, ReadIsStored
<1>3. LoadsFit'
  <2>1. \A q \in Roles : q # r => members'[q] = members[q]
    BY DEF RemoveRole, RoleIInv, RoleTyped, RoleTypeOK
  <2> QED BY <2>1, LateLoadsFit DEF RemoveRole, RoleIInv
<1> QED BY <1>1, <1>2, <1>3 DEF RoleIInv

-----------------------------------------------------------------------------
(* Saves                                                                    *)

LEMMA UpdateRolePreserves ==
  ASSUME RoleIInv, UpdateRole
  PROVE  RoleIInv'
<1> DEFINE save == [number |-> sent, role |-> roleUrl, adds |-> selected \ base.set,
                    deletes |-> base.set \ selected, codes |-> ticked, touched |-> touched,
                    state |-> "members", got |-> {}]
<1>1. /\ selected \subseteq People /\ base.set \subseteq People /\ touched \subseteq People
      /\ ticked \in Filled(Codes) /\ roleUrl \in Roles /\ sent \in Nat
  BY DEF RoleIInv, RoleTyped, RoleTypeOK
<1>2. save \in RoleSaves /\ save.state = "members" /\ save.adds \cup save.deletes \subseteq save.touched
  BY <1>1 DEF RoleSaves, RoleIInv, DifferencesAreToggled
<1>3. saves' = saves \cup {save}
  BY DEF UpdateRole
<1> HIDE DEF save
<1>4. RoleTyped'
  BY <1>2, <1>3 DEF UpdateRole, server, roleForm, RoleIInv, RoleTyped, RoleTypeOK
<1>5. GoneIsEmpty' /\ DifferencesAreToggled' /\ LoadsFit'
  BY <1>2, <1>3, FewerLoadsFit
     DEF UpdateRole, server, roleForm, RoleIInv, GoneIsEmpty, DifferencesAreToggled
<1>6. ReadIsStored'
  BY <1>2, <1>3 DEF UpdateRole, server, roleForm, RoleIInv, ReadIsStored
<1> QED BY <1>4, <1>5, <1>6 DEF RoleIInv

LEMMA ServerUpdatesMembersPreserves ==
  ASSUME RoleIInv, NEW s \in saves, ServerUpdatesMembers(s)
  PROVE  RoleIInv'
<1>1. s \in RoleSaves /\ s.role \in Roles /\ s.role \in exists
  BY DEF ServerUpdatesMembers, RoleIInv, RoleTyped, RoleSaves
<1>2. PICK missed \in SUBSET (s.adds \cup s.deletes), state \in {"membersDone", "failed"} :
        /\ members' = [members EXCEPT ![s.role] = (@ \cup (s.adds \ missed)) \ (s.deletes \ missed)]
        /\ Becomes(s, [s EXCEPT !.state = state, !.got = members'[s.role]])
  BY DEF ServerUpdatesMembers
<1>3. members' \in [Roles -> SUBSET People]
      /\ \A r \in Roles : r # s.role => members'[r] = members[r]
  BY <1>1, <1>2 DEF RoleIInv, RoleTyped, RoleTypeOK, RoleSaves
<1>4. PICK got \in SUBSET People : got = members'[s.role]
  BY <1>1, <1>3
<1> DEFINE t == [s EXCEPT !.state = state, !.got = got]
<1>5. /\ t \in RoleSaves /\ t.state = state /\ t.got = got /\ t.role = s.role
      /\ t.adds = s.adds /\ t.deletes = s.deletes /\ t.touched = s.touched
      /\ saves' = (saves \ {s}) \cup {t}
  BY <1>1, <1>2, <1>4 DEF Becomes, RoleSaves
<1> HIDE DEF t
<1>6. RoleTyped'
  BY <1>3, <1>5
     DEF ServerUpdatesMembers, roleForm, roleHistory, roleBounds, RoleIInv, RoleTyped, RoleTypeOK
<1>7. GoneIsEmpty' /\ LoadsFit'
  BY <1>1, <1>3, LateLoadsFit DEF ServerUpdatesMembers, RoleIInv, GoneIsEmpty
<1>8. DifferencesAreToggled'
  BY <1>5 DEF ServerUpdatesMembers, roleForm, RoleIInv, DifferencesAreToggled
<1>9. ReadIsStored'
  <2> SUFFICES ASSUME ~apart PROVE ReadIsStored'
    BY DEF ServerUpdatesMembers, roleHistory, ReadIsStored
  <2>1. saves' = {t} /\ base' = base /\ base.of \in Roles /\ late' = late
    BY <1>5 DEF ServerUpdatesMembers, roleForm, roleHistory, RoleIInv, ReadIsStored
  <2>2. base.of # s.role => late \/ base.set = members[base.of]
    BY DEF RoleIInv, ReadIsStored
  <2> QED BY <1>3, <1>4, <1>5, <2>1, <2>2 DEF ReadIsStored
<1> QED BY <1>6, <1>7, <1>8, <1>9 DEF RoleIInv

LEMMA MembersAnsweredPreserves ==
  ASSUME RoleIInv, NEW s \in saves, MembersAnswered(s)
  PROVE  RoleIInv'
<1>1. s \in RoleSaves /\ s.role \in Roles /\ s.state = "membersDone" /\ s.got \in SUBSET People
  BY DEF MembersAnswered, RoleIInv, RoleTyped, RoleSaves
<1>2. PICK t \in RoleSaves :
        /\ t.state = "permissions" /\ t.role = s.role
        /\ t.adds = s.adds /\ t.deletes = s.deletes /\ t.touched = s.touched
        /\ t = [s EXCEPT !.state = "permissions"]
  BY <1>1 DEF RoleSaves
<1>3. saves' \subseteq (saves \ {s}) \cup {t}
  BY <1>2 DEF MembersAnswered, Becomes
<1>4. base' \in Filled(People) /\ base'.of = s.role /\ base'.set = s.got /\ selected' = s.got
  BY <1>1, OfIsFilled DEF MembersAnswered
<1>5. RoleTyped'
  BY <1>1, <1>2, <1>3, <1>4 DEF MembersAnswered, server, roleBounds, RoleIInv, RoleTyped, RoleTypeOK
<1>6. GoneIsEmpty' /\ DifferencesAreToggled' /\ LoadsFit'
  BY <1>2, <1>3, <1>4, FewerLoadsFit
     DEF MembersAnswered, server, RoleIInv, GoneIsEmpty, DifferencesAreToggled
<1>7. ReadIsStored'
  BY <1>1, <1>2, <1>3, <1>4 DEF MembersAnswered, server, RoleIInv, ReadIsStored
<1> QED BY <1>5, <1>6, <1>7 DEF RoleIInv

LEMMA ServerUpdatesPermissionsPreserves ==
  ASSUME RoleIInv, NEW s \in saves, ServerUpdatesPermissions(s)
  PROVE  RoleIInv'
<1>1. s \in RoleSaves /\ s.role \in Roles /\ s.state = "permissions" /\ s.codes.set \in SUBSET Codes
  BY DEF ServerUpdatesPermissions, RoleIInv, RoleTyped, RoleSaves, Filled
<1>2. PICK state \in {"permissionsDone", "failed"} :
        Becomes(s, [s EXCEPT !.state = state, !.got = granted'[s.role]])
  BY DEF ServerUpdatesPermissions
<1>3. granted' \in [Roles -> SUBSET Codes]
  BY <1>1, RoleAssumption DEF ServerUpdatesPermissions, RoleIInv, RoleTyped, RoleTypeOK
<1>4. PICK got \in SUBSET Codes : got = granted'[s.role]
  BY <1>1, <1>3
<1> DEFINE t == [s EXCEPT !.state = state, !.got = got]
<1>5. /\ t \in RoleSaves /\ t.state = state /\ t.got = got /\ t.role = s.role
      /\ t.adds = s.adds /\ t.deletes = s.deletes /\ t.touched = s.touched
      /\ saves' = (saves \ {s}) \cup {t}
  BY <1>1, <1>2, <1>4 DEF Becomes, RoleSaves
<1> HIDE DEF t
<1>6. RoleTyped'
  BY <1>3, <1>5
     DEF ServerUpdatesPermissions, roleForm, roleHistory, roleBounds, RoleIInv, RoleTyped, RoleTypeOK
<1>7. GoneIsEmpty' /\ DifferencesAreToggled' /\ LoadsFit'
  BY <1>5, FewerLoadsFit
     DEF ServerUpdatesPermissions, roleForm, RoleIInv, GoneIsEmpty, DifferencesAreToggled
<1>8. ReadIsStored'
  BY <1>1, <1>5 DEF ServerUpdatesPermissions, roleForm, roleHistory, RoleIInv, ReadIsStored
<1> QED BY <1>6, <1>7, <1>8 DEF RoleIInv

LEMMA PermissionsAnsweredPreserves ==
  ASSUME RoleIInv, NEW s \in saves, PermissionsAnswered(s)
  PROVE  RoleIInv'
<1>1. s \in RoleSaves /\ s.role \in Roles /\ s.state = "permissionsDone" /\ s.got \in SUBSET Codes
  BY DEF PermissionsAnswered, RoleIInv, RoleTyped, RoleSaves
<1>2. ticked' \in Filled(Codes) /\ ticked'.of = s.role /\ ticked'.set = s.got
  BY <1>1, OfIsFilled DEF PermissionsAnswered
<1>3. RoleTyped'
  BY <1>1, <1>2
     DEF PermissionsAnswered, server, roleHistory, roleBounds, RoleIInv, RoleTyped, RoleTypeOK
<1>4. GoneIsEmpty' /\ DifferencesAreToggled' /\ LoadsFit'
  BY FewerLoadsFit DEF PermissionsAnswered, server, RoleIInv, GoneIsEmpty, DifferencesAreToggled
<1>5. ReadIsStored'
  BY <1>1 DEF PermissionsAnswered, server, roleHistory, RoleIInv, ReadIsStored
<1> QED BY <1>3, <1>4, <1>5 DEF RoleIInv

LEMMA SaveFailedPreserves ==
  ASSUME RoleIInv, NEW s \in saves, SaveFailed(s)
  PROVE  RoleIInv'
BY FewerLoadsFit DEF SaveFailed, server, roleForm, roleBounds, RoleIInv, RoleTyped, RoleTypeOK,
   GoneIsEmpty, DifferencesAreToggled, ReadIsStored

-----------------------------------------------------------------------------
LEMMA RoleNextPreserves ==
  ASSUME RoleIInv, [RoleNext]_roleVars
  PROVE  RoleIInv'
<1>1. CASE UNCHANGED roleVars
  BY <1>1, FewerLoadsFit DEF roleVars, server, roleForm, roleHistory, roleBounds, RoleIInv,
     RoleTyped, RoleTypeOK, GoneIsEmpty, DifferencesAreToggled, ReadIsStored
<1>2. CASE RoleNext
  BY <1>2, JumpPreserves, CreatePreserves, ServerReadsRolePreserves, MembersLoadedPreserves,
     PermissionsLoadedPreserves, RoleLoadFailedPreserves, TogglePreserves, TickPreserves, OthersMovePreserves, RemoveRolePreserves,
     UpdateRolePreserves, ServerUpdatesMembersPreserves, MembersAnsweredPreserves,
     ServerUpdatesPermissionsPreserves, PermissionsAnsweredPreserves, SaveFailedPreserves DEF RoleNext
<1> QED BY <1>1, <1>2

LEMMA RoleInvariant == RoleSpec => []RoleIInv
<1>1. RoleInit => RoleIInv
  BY RoleInitEstablishes
<1>2. RoleIInv /\ [RoleNext]_roleVars => RoleIInv'
  BY RoleNextPreserves
<1> QED BY <1>1, <1>2, PTL DEF RoleSpec

(* The roles, the page and the requests keep their types, and the role     *)
(* ADMIN is never gone.                                                    *)
THEOREM RolesTyped == RoleSpec => []RoleTypeOK
<1>1. RoleIInv => RoleTypeOK
  BY DEF RoleIInv, RoleTyped
<1> QED BY <1>1, RoleInvariant, PTL

(* When nothing is under way the page shows the role as it is stored, also *)
(* where a change of a person failed unnoticed or an older answer arrived  *)
(* before that of a save; not where members read before a save or another  *)
(* administrator's change arrived after it.                                *)
THEOREM PageIsTheRole == RoleSpec => []PageShowsTheRole
<1>1. RoleIInv => PageShowsTheRole
  BY DEF RoleIInv, RoleTyped, RoleTypeOK, DifferencesAreToggled, ReadIsStored, PageShowsTheRole
<1> QED BY <1>1, RoleInvariant, PTL

(* A save moves only people who were toggled; everybody else is moved by   *)
(* other administrators.                                                   *)
LEMMA StepMovesToggledPeople ==
  ASSUME RoleIInv, [RoleNext]_roleVars
  PROVE  MovesToggledPeople
<1>1. CASE UNCHANGED members
  BY <1>1 DEF MovesToggledPeople
<1>2. ASSUME NEW s \in saves, ServerUpdatesMembers(s) PROVE MovesToggledPeople
  <2>1. s.role \in Roles /\ s.adds \cup s.deletes \subseteq s.touched
    BY DEF RoleIInv, RoleTyped, RoleSaves, DifferencesAreToggled
  <2>2. PICK missed :
          members' = [members EXCEPT ![s.role] = (@ \cup (s.adds \ missed)) \ (s.deletes \ missed)]
    BY <1>2 DEF ServerUpdatesMembers
  <2>3. \A r \in Roles, p \in People :
          ((p \in members[r]) # (p \in members'[r])) => r = s.role /\ p \in s.adds \cup s.deletes
    BY <2>1, <2>2 DEF RoleIInv, RoleTyped, RoleTypeOK
  <2> QED BY <2>1, <2>3 DEF MovesToggledPeople
<1>3. ASSUME NEW r \in Roles, Create(r) PROVE MovesToggledPeople
  BY <1>3 DEF Create, MovesToggledPeople, RoleIInv, RoleTyped, RoleTypeOK, GoneIsEmpty
<1>4. CASE others' = others + 1
  BY <1>4 DEF MovesToggledPeople, RoleIInv, RoleTyped
<1>5. ASSUME NEW l \in roleLoads, ServerReadsRole(l) PROVE MovesToggledPeople
  BY <1>1, <1>5, Zenon DEF ServerReadsRole, server
<1> QED BY <1>1, <1>2, <1>3, <1>4, <1>5
        DEF RoleNext, roleVars, server, Jump, MembersLoaded, PermissionsLoaded, RemoveRole,
            RoleLoadFailed, Toggle, OthersMove, Tick, UpdateRole, MembersAnswered,
            ServerUpdatesPermissions, PermissionsAnswered, SaveFailed

(* Nobody gains or loses a role by a save that did not toggle them.        *)
THEOREM OthersKeepTheirRoles == RoleSpec => OnlyToggledPeopleMove
<1>1. RoleIInv /\ [RoleNext]_roleVars => [MovesToggledPeople]_roleVars
  BY StepMovesToggledPeople
<1> QED BY <1>1, RoleInvariant, PTL DEF RoleSpec, OnlyToggledPeopleMove


-----------------------------------------------------------------------------
(* The tables                                                              *)

(* What a sequence of sequences is flattened to, from its first parts.     *)
LEMMA FlattenedStepByStep ==
  ASSUME NEW seqs, NEW N \in Nat \ {0}, NEW T, NEW f \in [1 .. N -> T], Len(seqs) = N,
         f[1] = seqs[1], \A i \in 2 .. N : f[i] = f[i - 1] \o seqs[i]
  PROVE  FlattenSeq(seqs) = f[N]
<1> DEFINE Step(h) == [i \in 1 .. N |-> IF i = 1 THEN seqs[i] ELSE h[i - 1] \o seqs[i]]
           g == CHOOSE h : h = Step(h)
           bad == {i \in 1 .. N : g[i] # f[i]}
<1>1. f = Step(f)
  <2>1. ASSUME NEW i \in 1 .. N
        PROVE  f[i] = IF i = 1 THEN seqs[i] ELSE f[i - 1] \o seqs[i]
    <3>1. i = 1 \/ i \in 2 .. N
      OBVIOUS
    <3> QED BY <3>1
  <2> QED BY <2>1
<1>2. g = Step(g)
  <2>1. \E h : h = Step(h)
    BY <1>1, Zenon
  <2> QED BY <2>1, Zenon
<1>3. FlattenSeq(seqs) = g[N]
  BY DEF FlattenSeq
<1>4. \A i \in 1 .. N : g[i] = IF i = 1 THEN seqs[i] ELSE g[i - 1] \o seqs[i]
  BY <1>2
<1> HIDE DEF g
<1>5. bad = {}
  <2> SUFFICES ASSUME bad # {} PROVE FALSE
    OBVIOUS
  <2>1. bad \in SUBSET Nat
    OBVIOUS
  <2>2. \E m \in bad : \A n \in bad : m <= n
    BY <2>1, LeastNumber
  <2>3. PICK m \in bad : \A n \in bad : m <= n
    BY <2>2
  <2>4. m \in 1 .. N /\ g[m] # f[m]
    BY <2>3
  <2>5. m # 1
    BY <1>4, <2>4
  <2>6. m - 1 \in 1 .. N /\ m - 1 \notin bad /\ m \in 2 .. N
    BY <2>3, <2>4, <2>5
  <2>7. g[m - 1] = f[m - 1]
    BY <2>6
  <2> QED BY <1>4, <2>4, <2>5, <2>6, <2>7
<1> QED BY <1>3, <1>5

(* Two slices of a sequence that meet are one.                             *)
LEMMA SlicesMeet ==
  ASSUME NEW T, NEW s \in Seq(T), NEW a \in 0 .. Len(s), NEW b \in a .. Len(s)
  PROVE  SubSeq(s, 1, a) \o SubSeq(s, a + 1, b) = SubSeq(s, 1, b)
<1>1. Len(s) \in Nat /\ a \in Nat /\ b \in Nat /\ a <= b /\ b <= Len(s)
  OBVIOUS
<1>2. /\ SubSeq(s, 1, a) \in Seq(T) /\ Len(SubSeq(s, 1, a)) = a
      /\ \A i \in 1 .. a : SubSeq(s, 1, a)[i] = s[i]
  BY <1>1
<1>3. /\ SubSeq(s, a + 1, b) \in Seq(T) /\ Len(SubSeq(s, a + 1, b)) = b - a
      /\ \A i \in 1 .. b - a : SubSeq(s, a + 1, b)[i] = s[a + i]
  BY <1>1
<1>4. /\ SubSeq(s, 1, b) \in Seq(T) /\ Len(SubSeq(s, 1, b)) = b
      /\ \A i \in 1 .. b : SubSeq(s, 1, b)[i] = s[i]
  BY <1>1
<1> DEFINE c == SubSeq(s, 1, a) \o SubSeq(s, a + 1, b)
<1>5. /\ c \in Seq(T) /\ Len(c) = b
      /\ \A i \in 1 .. b : c[i] = IF i <= a THEN SubSeq(s, 1, a)[i] ELSE SubSeq(s, a + 1, b)[i - a]
  <2> DEFINE front == SubSeq(s, 1, a)
             back == SubSeq(s, a + 1, b)
  <2>1. front \in Seq(T) /\ back \in Seq(T) /\ Len(front) = a /\ Len(back) = b - a
    BY <1>2, <1>3
  <2> HIDE DEF front, back
  <2>2. /\ front \o back \in Seq(T) /\ Len(front \o back) = b
        /\ \A i \in 1 .. b : (front \o back)[i] = IF i <= a THEN front[i] ELSE back[i - a]
    BY <1>1, <2>1
  <2> QED BY <2>2 DEF front, back
<1>6. \A i \in 1 .. b : c[i] = SubSeq(s, 1, b)[i]
  BY <1>1, <1>2, <1>3, <1>4, <1>5
<1> HIDE DEF c
<1>7. c = SubSeq(s, 1, b)
  BY <1>4, <1>5, <1>6
<1> QED BY <1>7 DEF c

(* The page asked for is a positive number, whatever becomes of the rows.  *)
TableIInv ==
  /\ table \in Tables /\ tableRows \subseteq Items /\ search \in Searches
  /\ pageSize \in PageSizes
  /\ tablePage \in Nat \ {0}

(* The matches are finitely many numbers.                                  *)
LEMMA MatchesAreFinite ==
  ASSUME TableIInv
  PROVE  Cardinality(Filtered) \in Nat /\ IsFiniteSet(Filtered) /\ Filtered \subseteq Nat
         /\ (Filtered = {} <=> Cardinality(Filtered) = 0)
<1>1. IsFiniteSet(Items) /\ Filtered \in SUBSET Items
  BY TableAssumption DEF TableIInv, Filtered
<1>2. IsFiniteSet(Filtered)
  BY <1>1, FS_Subset
<1> QED BY <1>1, <1>2, FS_CardinalityType, FS_EmptySet, TableAssumption

(* As many pages as the matches need, and no more, but one at least.       *)
LEMMA PagesNeeded ==
  ASSUME TableIInv
  PROVE  /\ PageCount \in Nat \ {0}
         /\ Cardinality(Filtered) <= PageCount * pageSize
         /\ PageCount = 1 \/ (PageCount - 1) * pageSize < Cardinality(Filtered)
<1> DEFINE L == Cardinality(Filtered)
           k == pageSize
           q == (L + k - 1) \div k
<1>1. L \in Nat /\ k \in Nat \ {0}
  BY MatchesAreFinite, TableAssumption DEF TableIInv
<1>2. PageCount = IF q = 0 THEN 1 ELSE q
  BY DEF PageCount
<1> HIDE DEF L, k
<1>3. q \in Nat /\ L <= q * k /\ (q - 1) * k < L
  BY <1>1
<1> HIDE DEF q
<1>4. q = 0 => L = 0
  BY <1>1, <1>3
<1>5. CASE q = 0
  BY <1>1, <1>2, <1>4, <1>5 DEF L, k
<1>6. CASE q # 0
  BY <1>2, <1>3, <1>6 DEF L, k
<1> QED BY <1>5, <1>6

(* One row before another in the order chosen.                             *)
Before(r, q) == IF direction = "asc" THEN r < q ELSE r > q

(* A row has fewer rows up to it than the rows behind it.                   *)
LEMMA PlacesAreOrdered ==
  ASSUME TableIInv, NEW r \in Filtered, NEW q \in Filtered
  PROVE  /\ Cardinality(UpTo(r)) \in 1 .. Cardinality(Filtered)
         /\ Before(r, q) => Cardinality(UpTo(r)) < Cardinality(UpTo(q))
<1>1. IsFiniteSet(Filtered) /\ Filtered \subseteq Nat /\ Cardinality(Filtered) \in Nat
  BY MatchesAreFinite
<1>2. UpTo(r) \in SUBSET Filtered /\ UpTo(q) \in SUBSET Filtered
  BY DEF UpTo
<1>3. IsFiniteSet(UpTo(r)) /\ IsFiniteSet(UpTo(q)) /\ Cardinality(UpTo(r)) <= Cardinality(Filtered)
  BY <1>1, <1>2, FS_Subset
<1>4. Cardinality(UpTo(r)) \in Nat /\ Cardinality(UpTo(q)) \in Nat
  BY <1>3, FS_CardinalityType
<1>5. r \in UpTo(r) /\ q \in UpTo(q)
  BY <1>1 DEF UpTo
<1>6. Cardinality(UpTo(r)) # 0
  BY <1>3, <1>5, FS_EmptySet
<1>7. ASSUME Before(r, q) PROVE Cardinality(UpTo(r)) < Cardinality(UpTo(q))
  <2>1. UpTo(r) \in SUBSET UpTo(q) /\ q \notin UpTo(r)
    <3>1. r \in Nat /\ q \in Nat /\ \A x \in Filtered : x \in Nat
      BY <1>1
    <3>2. IF direction = "asc" THEN r < q ELSE r > q
      BY <1>7 DEF Before
    <3>3. \A x \in Filtered : IF direction = "asc" THEN x <= r => x <= q ELSE x >= r => x >= q
      BY <3>1, <3>2
    <3>4. IF direction = "asc" THEN ~(q <= r) ELSE ~(q >= r)
      BY <3>1, <3>2
    <3> QED BY <3>3, <3>4 DEF UpTo
  <2>2. /\ Cardinality(UpTo(r)) <= Cardinality(UpTo(q))
        /\ Cardinality(UpTo(r)) # Cardinality(UpTo(q))
    BY <1>3, <1>5, <2>1, FS_Subset
  <2> QED BY <1>4, <2>2
<1> QED BY <1>1, <1>3, <1>4, <1>6, <1>7

(* Counting places meets every number from one to the number of matches.   *)
LEMMA MatchesAreInOrder ==
  ASSUME TableIInv
  PROVE  SortedInOrder
<1> DEFINE n == Cardinality(Filtered)
           place == [r \in Filtered |-> Cardinality(UpTo(r))]
<1>1. IsFiniteSet(Filtered) /\ Filtered \subseteq Nat /\ n \in Nat
  BY MatchesAreFinite
<1>2. \A r, q \in Filtered : Before(r, q) \/ Before(q, r) \/ r = q
  BY <1>1 DEF Before
<1>3. /\ place \in [Filtered -> 1 .. n]
      /\ \A r, q \in Filtered : Before(r, q) => place[r] < place[q]
  BY PlacesAreOrdered
<1>4. \A r \in Filtered : place[r] = Cardinality(UpTo(r))
  OBVIOUS
<1> HIDE DEF place
<1>5. \A r, q \in Filtered : place[r] = place[q] => r = q
  <2> SUFFICES ASSUME NEW r \in Filtered, NEW q \in Filtered, place[r] = place[q], r # q
               PROVE  FALSE
    OBVIOUS
  <2>1. place[r] \in Nat /\ place[q] \in Nat
    BY <1>3
  <2>2. place[r] < place[q] \/ place[q] < place[r]
    BY <1>2, <1>3
  <2> QED BY <2>1, <2>2
<1>6. place \in Injection(Filtered, 1 .. n)
  BY <1>3, <1>5 DEF Injection, IsInjective
<1>7. IsFiniteSet(1 .. n) /\ Cardinality(1 .. n) = n
  BY <1>1, FS_Interval
<1>8. place \in Surjection(Filtered, 1 .. n)
  BY <1>6, <1>7, FS_Injection
<1>9. \A i \in 1 .. n : \E r \in Filtered : place[r] = i
  BY <1>8 DEF Surjection
<1>10. Len(Sorted) = n /\ \A i \in 1 .. n : Sorted[i] = CHOOSE r \in Filtered : Cardinality(UpTo(r)) = i
  BY <1>1 DEF Sorted
<1>11. ASSUME NEW i \in 1 .. n PROVE Sorted[i] \in Filtered /\ place[Sorted[i]] = i
  <2>1. \E r \in Filtered : Cardinality(UpTo(r)) = i
    BY <1>4, <1>9
  <2>2. Sorted[i] \in Filtered /\ Cardinality(UpTo(Sorted[i])) = i
    BY <1>10, <2>1
  <2> QED BY <1>4, <2>2
<1>12. ASSUME NEW r \in Filtered PROVE \E i \in 1 .. n : Sorted[i] = r
  <2>1. place[r] \in 1 .. n
    BY <1>3
  <2>2. Sorted[place[r]] = r
    BY <1>5, <1>11, <2>1
  <2> QED BY <2>1, <2>2
<1>13. ASSUME NEW i \in 1 .. n, NEW j \in 1 .. n, i < j PROVE Before(Sorted[i], Sorted[j])
  <2>1. ~Before(Sorted[j], Sorted[i]) /\ Sorted[i] # Sorted[j]
    BY <1>3, <1>11, <1>13
  <2> QED BY <1>2, <1>11, <2>1
<1> HIDE DEF n
<1> QED BY <1>10, <1>11, <1>12, <1>13 DEF SortedInOrder, Before

(* The pages part the sorted matches, and the page shown is one of them.   *)
LEMMA PagesPartitionTheMatches ==
  ASSUME TableIInv
  PROVE  EveryMatchIsFound
<1> DEFINE L == Cardinality(Filtered)
           k == pageSize
           N == PageCount
           upTo(i) == IF i * k <= L THEN i * k ELSE L
           f == [i \in 1 .. N |-> SubSeq(Sorted, 1, upTo(i))]
           pages == [n \in 1 .. N |-> RowsOn(n)]
           T == {Sorted[i] : i \in 1 .. L}
<1>1. /\ L \in Nat /\ k \in Nat \ {0} /\ N \in Nat \ {0} /\ L <= N * k
      /\ N = 1 \/ (N - 1) * k < L
  BY MatchesAreFinite, PagesNeeded, TableAssumption DEF TableIInv
<1>2. Sorted \in Seq(T) /\ Len(Sorted) = L
  BY <1>1 DEF Sorted
<1>3. \A n : RowsOn(n) = SubSeq(Sorted, n * k - k + 1, upTo(n))
  BY <1>2 DEF RowsOn
<1> HIDE DEF L, k, N, T
<1>4. ASSUME NEW i \in 1 .. N
      PROVE  i * k \in Nat /\ (i - 1) * k \in Nat /\ i * k - k = (i - 1) * k
             /\ (i # 1 => (i - 1) * k < L) /\ (i = 1 => (i - 1) * k = 0)
  BY <1>1
<1>5. ASSUME NEW i \in 1 .. N
      PROVE  upTo(i) \in 0 .. L /\ (i - 1) * k <= upTo(i) /\ (L > 0 => (i - 1) * k < upTo(i))
  BY <1>1, <1>4
<1>6. f[1] = pages[1]
  <2>1. 1 \in 1 .. N /\ 1 * k - k + 1 = 1
    BY <1>1
  <2> QED BY <1>3, <2>1
<1>7. ASSUME NEW i \in 2 .. N
      PROVE  f[i] = f[i - 1] \o pages[i]
  <2>1. i \in 1 .. N /\ i - 1 \in 1 .. N /\ i # 1
    BY <1>1
  <2>2. upTo(i - 1) = (i - 1) * k /\ upTo(i) \in upTo(i - 1) .. L /\ upTo(i - 1) \in 0 .. L
        /\ i * k - k = upTo(i - 1)
    BY <1>1, <1>4, <1>5, <2>1
  <2> HIDE DEF upTo
  <2>3. SubSeq(Sorted, 1, upTo(i - 1)) \o SubSeq(Sorted, upTo(i - 1) + 1, upTo(i))
          = SubSeq(Sorted, 1, upTo(i))
    BY <1>2, <2>2, SlicesMeet
  <2> QED BY <1>3, <2>1, <2>2, <2>3
<1>8. f[N] = Sorted
  <2>1. N \in 1 .. N /\ upTo(N) = L
    BY <1>1
  <2>2. SubSeq(Sorted, 1, L) = Sorted
    BY <1>1, <1>2
  <2> QED BY <2>1, <2>2
<1>9. FlattenSeq(pages) = Sorted
  <2>1. Len(pages) = N /\ f \in [1 .. N -> {f[i] : i \in 1 .. N}]
    BY <1>1
  <2> HIDE DEF pages, f
  <2>2. N \in Nat \ {0} /\ \A i \in 2 .. N : f[i] = f[i - 1] \o pages[i]
    BY <1>1, <1>7
  <2>3. FlattenSeq(pages) = f[N]
    BY <1>6, <2>1, <2>2, FlattenedStepByStep
  <2> QED BY <1>8, <2>3
<1>10. ASSUME Filtered # {} PROVE VisibleItems # <<>>
  <2>1. L > 0
    BY <1>1, <1>10, MatchesAreFinite DEF L
  <2>2. CurrentPage \in 1 .. N
    BY <1>1 DEF CurrentPage, TableIInv, N
  <2> DEFINE n == CurrentPage
  <2>3. n * k - k + 1 \in 1 .. upTo(n) /\ upTo(n) \in 1 .. L
    BY <1>1, <1>4, <1>5, <2>1, <2>2
  <2> HIDE DEF n, upTo
  <2>4. Len(SubSeq(Sorted, n * k - k + 1, upTo(n))) > 0
    BY <1>1, <1>2, <2>3
  <2>5. VisibleItems = SubSeq(Sorted, n * k - k + 1, upTo(n))
    BY <1>3 DEF VisibleItems, n
  <2>6. Len(VisibleItems) > 0
    BY <2>4, <2>5
  <2> QED BY <2>6
<1> QED BY <1>9, <1>10, MatchesAreInOrder DEF EveryMatchIsFound, N

(* The first page sizes are among those offered.                           *)
LEMMA InitialDirections == \A t \in Tables : t.direction \in {"asc", "desc"}
<1>1. \A direction0 \in {"asc", "desc"}, size \in {10, 25} :
        LET t == Table(direction0, size) IN
        /\ t.direction = direction0 /\ Reloaded(t).direction = direction0
        /\ Resetting(t).direction = direction0
        /\ [Resetting(t) EXCEPT !.searched = FALSE].direction = direction0
  BY DEF Table, Reloaded, Resetting
<1> QED BY <1>1
        DEF Tables, SourceTable, StripeTable, ImportHistory, BudgetsTable, PostingGroupsTable,
            CashierTable, PostingsViewTable, AdminMembersTable, AccountsTable, MembersTable,
            AccountPostings

LEMMA InitialSizes == \A t \in Tables : t.size \in PageSizes
<1>1. \A direction0 \in {"asc", "desc"}, size \in {10, 25} :
        LET t == Table(direction0, size) IN
        /\ t.size = size /\ Reloaded(t).size = size /\ Resetting(t).size = size
        /\ [Resetting(t) EXCEPT !.searched = FALSE].size = size
  BY DEF Table, Reloaded, Resetting
<1> QED BY <1>1, TableAssumption
        DEF Tables, SourceTable, StripeTable, ImportHistory, BudgetsTable, PostingGroupsTable,
            CashierTable, PostingsViewTable, AdminMembersTable, AccountsTable, MembersTable,
            AccountPostings

LEMMA TableNextPreserves ==
  ASSUME TableIInv, [TableNext]_tableVars
  PROVE  TableIInv'
<1>1. PageCount \in Nat \ {0}
  BY PagesNeeded
<1>2. CASE UNCHANGED tableVars
  BY <1>2 DEF tableVars, TableIInv
<1>3. CASE Previous \/ Following
  BY <1>1, <1>3 DEF Previous, Following, TableIInv
<1> QED BY <1>2, <1>3 DEF TableNext, SetRows, SetSearch, SetPageSize, ToggleSort, TableIInv

(* The page asked for is never beyond what the number of rows allows.      *)
LEMMA TableTypesAreKept ==
  ASSUME TableIInv, TableTypeOK, [TableNext]_tableVars
  PROVE  TableTypeOK'
<1> DEFINE N == Cardinality(Items)
           Rest == direction \in {"asc", "desc"} /\ tablePage \in {1} \cup 1 .. N
<1>1. TableIInv' /\ (TableIInv' /\ Rest' => TableTypeOK')
  BY TableNextPreserves DEF TableIInv, TableTypeOK
<1>2. Rest /\ N \in Nat /\ tablePage \in Nat \ {0}
  BY TableAssumption, FS_CardinalityType DEF TableTypeOK, TableIInv
<1>3. PageCount \in {1} \cup 1 .. N
  <2>1. Cardinality(Filtered) \in Nat /\ Cardinality(Filtered) <= N
    BY TableAssumption, MatchesAreFinite, FS_Subset DEF TableIInv, Filtered
  <2>2. PageCount \in Nat \ {0} /\ pageSize \in Nat \ {0}
    BY PagesNeeded, TableAssumption DEF TableIInv
  <2>3. PageCount = 1 \/ (PageCount - 1) * pageSize < Cardinality(Filtered)
    BY PagesNeeded
  <2> DEFINE n == PageCount
  <2> HIDE DEF n
  <2>4. n - 1 <= (n - 1) * pageSize
    BY <2>2 DEF n
  <2>5. n = 1 \/ n - 1 < Cardinality(Filtered)
    BY <2>1, <2>2, <2>3, <2>4 DEF n
  <2> QED BY <1>2, <2>1, <2>2, <2>5 DEF n
<1> HIDE DEF N
<1> DEFINE n == PageCount
<1> HIDE DEF n
<1>4. ASSUME Previous \/ Following PROVE Rest'
  <2>1. \/ tablePage > 1 /\ tablePage' = tablePage - 1
        \/ tablePage + 1 <= n /\ tablePage' = tablePage + 1
        \/ tablePage' \in {1, n}
    BY <1>4 DEF Previous, Following, n
  <2>2. n \in Nat \ {0} /\ n \in {1} \cup 1 .. N /\ UNCHANGED direction
    BY <1>3, <1>4, PagesNeeded DEF n, Previous, Following
  <2> QED BY <1>2, <2>1, <2>2
<1>5. ASSUME ~(Previous \/ Following) PROVE Rest'
  <2>1. tablePage' \in {1, tablePage} /\ direction' \in {"asc", "desc", direction}
    BY <1>5 DEF TableNext, SetRows, SetSearch, SetPageSize, ToggleSort, tableVars
  <2> QED BY <1>2, <2>1
<1> HIDE DEF Rest
<1> QED BY <1>1, <1>4, <1>5

(* Every variable of a table keeps its type: the buttons do not run away   *)
(* from the rows there can be.                                             *)
THEOREM TableTyping == TableSpec => []TableTypeOK
<1>1. TableInit => TableIInv
  BY InitialSizes, TableAssumption DEF TableInit, TableIInv
<1>2. TableInit => TableTypeOK
  BY <1>1, InitialDirections DEF TableInit, TableIInv, TableTypeOK
<1>3. TableIInv /\ TableTypeOK /\ [TableNext]_tableVars => TableTypeOK'
  BY TableTypesAreKept
<1>4. TableIInv /\ [TableNext]_tableVars => TableIInv'
  BY TableNextPreserves
<1> QED BY <1>1, <1>2, <1>3, <1>4, PTL DEF TableSpec

(* The pages of a table part its matches, each once and in order, and none *)
(* that is shown is empty while there are matches (usePagedItems).         *)
THEOREM PagesPartTheMatches == TableSpec => []EveryMatchIsFound
<1>1. TableInit => TableIInv
  BY InitialSizes, TableAssumption DEF TableInit, TableIInv
<1>2. TableIInv /\ [TableNext]_tableVars => TableIInv'
  BY TableNextPreserves
<1>3. TableIInv => EveryMatchIsFound
  BY PagesPartitionTheMatches
<1> QED BY <1>1, <1>2, <1>3, PTL DEF TableSpec

-----------------------------------------------------------------------------
(* The router                                                              *)

(* The first rule that applies, or none does.                              *)
LEMMA FirstRuleIsTheFirst ==
  ASSUME NEW rules, NEW p, NEW else, DOMAIN rules \in SUBSET Nat
  PROVE  \/ FirstRule(rules, p, else) = else /\ \A i \in DOMAIN rules : ~Applies(rules[i], p)
         \/ \E i \in DOMAIN rules :
              /\ Applies(rules[i], p) /\ FirstRule(rules, p, else) = rules[i].then
              /\ \A j \in DOMAIN rules : Applies(rules[j], p) => i <= j
<1> DEFINE hits == {i \in DOMAIN rules : Applies(rules[i], p)}
<1>1. CASE hits = {}
  BY <1>1 DEF FirstRule
<1>2. CASE hits # {}
  <2>1. \E m \in hits : \A j \in hits : m <= j
    <3>1. hits \in SUBSET Nat
      OBVIOUS
    <3> HIDE DEF hits
    <3> QED BY <1>2, <3>1, LeastNumber
  <2> DEFINE m == CHOOSE i \in hits : \A j \in hits : i <= j
  <2>2. m \in hits /\ \A j \in hits : m <= j
    BY <2>1, Zenon
  <2>3. FirstRule(rules, p, else) = rules[m].then
    BY <1>2 DEF FirstRule
  <2> HIDE DEF m
  <2> QED BY <2>2, <2>3
<1> QED BY <1>1, <1>2

(* What lies below a path begins with it and is longer.                    *)
LEMMA StrictPrefixes ==
  ASSUME NEW S, NEW T, NEW p \in Seq(S), NEW q \in Seq(T), IsStrictPrefix(q, p)
  PROVE  Len(q) < Len(p) /\ \A i \in 1 .. Len(q) : p[i] = q[i]
<1>1. Len(q) \in Nat /\ Len(p) \in Nat /\ Len(q) <= Len(p)
      /\ SubSeq(q, 1, Len(q)) = SubSeq(p, 1, Len(q)) /\ p # q
  BY DEF IsStrictPrefix, IsPrefix
<1>2. \A i \in 1 .. Len(q) : SubSeq(q, 1, Len(q))[i] = q[i]
  BY <1>1
<1>3. \A i \in 1 .. Len(q) : SubSeq(p, 1, Len(q))[i] = p[i]
  BY <1>1
<1>4. SubSeq(q, 1, Len(q)) = q /\ SubSeq(p, 1, Len(p)) = p
  OBVIOUS
<1>5. Len(q) # Len(p)
  BY <1>1, <1>4
<1>6. Len(q) < Len(p)
  BY <1>1, <1>5
<1>7. \A i \in 1 .. Len(q) : p[i] = q[i]
  BY <1>1, <1>2, <1>3
<1> QED BY <1>6, <1>7

(* What lies below a section of the admin pages is in that section.        *)
LEMMA BelowAdmin ==
  ASSUME NEW p \in Seq(Segments), NEW x, IsStrictPrefix(AdminPath(x), p)
  PROVE  Len(p) >= 3 /\ p[1] = "admin" /\ p[2] = x
<1> DEFINE q == AdminPath(x)
<1>1. "admin" \in {"admin", x} /\ x \in {"admin", x}
  OBVIOUS
<1>2. q \in Seq({"admin", x}) /\ Len(q) = 2 /\ q[1] = "admin" /\ q[2] = x
  BY <1>1 DEF AdminPath
<1> HIDE DEF q
<1>3. Len(q) < Len(p) /\ \A i \in 1 .. Len(q) : p[i] = q[i]
  BY <1>2, StrictPrefixes DEF q
<1> QED BY <1>2, <1>3

(* What lies below the postings is among the postings.                     *)
LEMMA BelowPostings ==
  ASSUME NEW p \in Seq(Segments), IsStrictPrefix(Finance("postings"), p)
  PROVE  Len(p) >= 4 /\ p[1] = "admin" /\ p[2] = "finance" /\ p[3] = "postings"
<1> DEFINE q == Finance("postings")
<1>1. \A x \in {"admin", "finance", "postings"} : x \in {"admin", "finance", "postings"}
  OBVIOUS
<1>2. /\ q \in Seq({"admin", "finance", "postings"}) /\ Len(q) = 3
      /\ q[1] = "admin" /\ q[2] = "finance" /\ q[3] = "postings"
  BY <1>1 DEF Finance
<1> HIDE DEF q
<1>3. Len(q) < Len(p) /\ \A i \in 1 .. Len(q) : p[i] = q[i]
  BY <1>2, StrictPrefixes DEF q
<1> QED BY <1>2, <1>3

(* A path fits a pattern of the admin pages only in the section it names.  *)
LEMMA FitsTwo ==
  ASSUME NEW p \in Seq(Segments), NEW x, Fits(p, AdminPath(x)), x \notin {"*", "#"}
  PROVE  Len(p) = 2 /\ p[1] = "admin" /\ p[2] = x
BY DEF Fits, AdminPath

LEMMA FitsThree ==
  ASSUME NEW p \in Seq(Segments), NEW x, NEW y, Fits(p, <<"admin", x, y>>), x \notin {"*", "#"}
  PROVE  Len(p) = 3 /\ p[1] = "admin" /\ p[2] = x /\ (y \notin {"*", "#"} => p[3] = y)
BY DEF Fits

LEMMA FitsFour ==
  ASSUME NEW p \in Seq(Segments), NEW x, NEW y, NEW z, Fits(p, <<"admin", x, y, z>>),
         x \notin {"*", "#"}
  PROVE  /\ Len(p) = 4 /\ p[1] = "admin" /\ p[2] = x
         /\ y \notin {"*", "#"} => p[3] = y
         /\ z \notin {"*", "#"} => p[4] = z
BY DEF Fits

(* A path in one of the sections of the admin pages.                       *)
Below(p, sections) == Len(p) >= 2 /\ p[1] = "admin" /\ p[2] \in sections

(* A rule applies by a pattern or by a prefix.                             *)
LEMMA AppliesByParts ==
  ASSUME NEW is, NEW under, NEW then, NEW p, Applies(Rule(is, under, then), p)
  PROVE  (\E q \in is : Fits(p, q)) \/ (\E q \in under : IsStrictPrefix(q, p))
BY DEF Applies, Rule

(* The finance pages that edit: all but the overview and the postings.     *)
NeedsEdit(p) == Len(p) >= 3 /\ (p[3] # "postings" \/ (Len(p) = 4 /\ p[4] = "edit"))

(* The permission that a section takes; the finance pages take one of two. *)
Suits(needs, p) ==
  \/ needs = "content" /\ Below(p, {"events", "news"})
  \/ needs = "payments" /\ Below(p, {"products", "subscriptions", "subscription"})
  \/ needs = "messages" /\ Below(p, {"messages"})
  \/ needs = "templates" /\ Below(p, {"templates"})
  \/ needs = "roles" /\ Below(p, {"users", "roles"})
  \/ needs \in {"financeView", "financeEdit"} /\ Below(p, {"finance"})

(* A rule of the gate asks for what its section takes, and for the         *)
(* permission to read only where nothing is edited.                        *)
LEMMA GateRulesSuit ==
  ASSUME NEW p \in Seq(Segments), NEW i \in 1 .. 9, Applies(GateRules[i], p)
  PROVE  /\ GateRules[i].then # None /\ Suits(GateRules[i].then, p)
         /\ GateRules[i].then = "financeView" => i = 8 /\ (Len(p) = 2 \/ p[3] = "postings")
<1>1. CASE i = 1
  <2>1. Below(p, {"events"})
    BY <1>1, FitsTwo, FitsThree, AppliesByParts DEF GateRules, Below
  <2>2. GateRules[1].then = "content"
    BY DEF GateRules, Rule
  <2> QED BY <1>1, <2>1, <2>2 DEF Suits, Below, None
<1>2. CASE i = 2
  <2>1. Below(p, {"news"})
    BY <1>2, FitsTwo, BelowAdmin, AppliesByParts DEF GateRules, Below
  <2>2. GateRules[2].then = "content"
    BY DEF GateRules, Rule
  <2> QED BY <1>2, <2>1, <2>2 DEF Suits, Below, None
<1>3. CASE i = 3
  <2>1. Below(p, {"products", "subscriptions", "subscription"})
    BY <1>3, FitsTwo, BelowAdmin, AppliesByParts DEF GateRules, Below
  <2>2. GateRules[3].then = "payments"
    BY DEF GateRules, Rule
  <2> QED BY <1>3, <2>1, <2>2 DEF Suits, Below, None
<1>4. CASE i = 4
  <2>1. Below(p, {"messages"})
    BY <1>4, FitsTwo, AppliesByParts DEF GateRules, Below
  <2>2. GateRules[4].then = "messages"
    BY DEF GateRules, Rule
  <2> QED BY <1>4, <2>1, <2>2 DEF Suits, Below, None
<1>5. CASE i = 5
  <2>1. Below(p, {"templates"})
    BY <1>5, FitsTwo, BelowAdmin, AppliesByParts DEF GateRules, Below
  <2>2. GateRules[5].then = "templates"
    BY DEF GateRules, Rule
  <2> QED BY <1>5, <2>1, <2>2 DEF Suits, Below, None
<1>6. CASE i = 6
  <2>1. Below(p, {"users", "roles"})
    BY <1>6, FitsTwo, BelowAdmin, AppliesByParts DEF GateRules, Below
  <2>2. GateRules[6].then = "roles"
    BY DEF GateRules, Rule
  <2> QED BY <1>6, <2>1, <2>2 DEF Suits, Below, None
<1>7. CASE i = 7
  <2>1. Below(p, {"finance"})
    BY <1>7, FitsFour, AppliesByParts DEF GateRules, Below
  <2>2. GateRules[7].then = "financeEdit"
    BY DEF GateRules, Rule
  <2> QED BY <1>7, <2>1, <2>2 DEF Suits, Below, None
<1>8. CASE i = 8
  <2>1. Below(p, {"finance"}) /\ (Len(p) = 2 \/ p[3] = "postings")
    BY <1>8, FitsTwo, FitsThree, BelowPostings, AppliesByParts DEF GateRules, Below, Finance
  <2>2. GateRules[8].then = "financeView"
    BY DEF GateRules, Rule
  <2> QED BY <1>8, <2>1, <2>2 DEF Suits, Below, None
<1>9. CASE i = 9
  <2>1. Below(p, {"finance"})
    BY <1>9, BelowAdmin, AppliesByParts DEF GateRules, Below
  <2>2. GateRules[9].then = "financeEdit"
    BY DEF GateRules, Rule
  <2> QED BY <1>9, <2>1, <2>2 DEF Suits, Below, None
<1> QED BY <1>1, <1>2, <1>3, <1>4, <1>5, <1>6, <1>7, <1>8, <1>9

(* The gate of a path is that of the first rule that applies to it.        *)
LEMMA TheGateOfAPath ==
  ASSUME NEW p
  PROVE  \/ AdminPermissionForPath(p) = None /\ \A i \in 1 .. 9 : ~Applies(GateRules[i], p)
         \/ \E i \in 1 .. 9 :
              /\ Applies(GateRules[i], p) /\ AdminPermissionForPath(p) = GateRules[i].then
              /\ \A j \in 1 .. 9 : Applies(GateRules[j], p) => i <= j
<1>1. DOMAIN GateRules = 1 .. 9
  BY DEF GateRules
<1>2. DOMAIN GateRules \in SUBSET Nat
  BY <1>1
<1>3. \/ FirstRule(GateRules, p, None) = None /\ \A i \in DOMAIN GateRules : ~Applies(GateRules[i], p)
      \/ \E i \in DOMAIN GateRules :
           /\ Applies(GateRules[i], p) /\ FirstRule(GateRules, p, None) = GateRules[i].then
           /\ \A j \in DOMAIN GateRules : Applies(GateRules[j], p) => i <= j
  BY <1>2, FirstRuleIsTheFirst
<1> QED BY <1>1, <1>3 DEF AdminPermissionForPath

(* The gate of a path suits its section; the editable postings, which the  *)
(* rule for postings would let readers see, come before it.                *)
LEMMA GateOfAPath ==
  ASSUME NEW p \in Seq(Segments), AdminPermissionForPath(p) # None
  PROVE  /\ Suits(AdminPermissionForPath(p), p)
         /\ AdminPermissionForPath(p) = "financeView" => ~NeedsEdit(p)
<1>1. PICK i \in 1 .. 9 :
        /\ Applies(GateRules[i], p) /\ AdminPermissionForPath(p) = GateRules[i].then
        /\ \A j \in 1 .. 9 : Applies(GateRules[j], p) => i <= j
  BY TheGateOfAPath
<1>2. /\ Suits(GateRules[i].then, p)
      /\ GateRules[i].then = "financeView" => i = 8 /\ (Len(p) = 2 \/ p[3] = "postings")
  BY <1>1, GateRulesSuit
<1>3. ASSUME AdminPermissionForPath(p) = "financeView", NeedsEdit(p)
      PROVE  FALSE
  <2>1. i = 8 /\ Below(p, {"finance"}) /\ p[3] = "postings" /\ Len(p) = 4 /\ p[4] = "edit"
    BY <1>1, <1>2, <1>3 DEF NeedsEdit, Suits
  <2>2. Fits(p, <<"admin", "finance", "postings", "edit">>)
    BY <2>1 DEF Fits, Below
  <2>3. Applies(GateRules[7], p)
    BY <2>2 DEF GateRules, Applies, Rule
  <2> QED BY <1>1, <2>1, <2>3
<1> QED BY <1>1, <1>2, <1>3

(* An admin page asks for what its section takes, and for the permission   *)
(* to edit only where something is edited: the first table of pages.       *)
LEMMA AdminRulesSuit ==
  ASSUME NEW p \in Seq(Segments), p[1] = "admin", NEW i \in 1 .. 10,
         Applies(AdminRules[i], p)
  PROVE  LET needs == AdminRules[i].then.needs IN
         needs # None /\ Suits(needs, p) /\ (needs = "financeEdit" => NeedsEdit(p))
<1>1. CASE i = 1
  <2>1. Below(p, {"news"})
    BY <1>1, FitsTwo, AppliesByParts DEF AdminRules, Below, Fits
  <2>2. AdminRules[1].then.needs = "content"
    BY DEF AdminRules, Rule, Page
  <2> QED BY <1>1, <2>1, <2>2 DEF Suits, Below, None
<1>2. CASE i = 2
  <2>1. Below(p, {"products"})
    BY <1>2, FitsTwo, FitsFour, AppliesByParts DEF AdminRules, Below, Fits
  <2>2. AdminRules[2].then.needs = "payments"
    BY DEF AdminRules, Rule, Page
  <2> QED BY <1>2, <2>1, <2>2 DEF Suits, Below, None
<1>3. CASE i = 3
  <2>1. Below(p, {"subscriptions", "subscription"})
    BY <1>3, FitsTwo, FitsThree, AppliesByParts DEF AdminRules, Below, Fits
  <2>2. AdminRules[3].then.needs = "payments"
    BY DEF AdminRules, Rule, Page
  <2> QED BY <1>3, <2>1, <2>2 DEF Suits, Below, None
<1>4. CASE i = 4
  <2>1. Below(p, {"finance"})
    BY <1>4, FitsTwo, AppliesByParts DEF AdminRules, Below, Fits, Finance
  <2>2. AdminRules[4].then.needs = "financeView"
    BY DEF AdminRules, Rule, Page
  <2> QED BY <1>4, <2>1, <2>2 DEF Suits, Below, None
<1>5. CASE i = 5
  <2>1. Below(p, {"finance"})
    BY <1>5, FitsThree, AppliesByParts DEF AdminRules, Below, Fits, Finance
  <2>2. AdminRules[5].then.needs = "financeView"
    BY DEF AdminRules, Rule, Page
  <2> QED BY <1>5, <2>1, <2>2 DEF Suits, Below, None
<1>6. CASE i = 6
  <2>1. Below(p, {"finance"}) /\ NeedsEdit(p)
    BY <1>6, FitsFour, AppliesByParts DEF AdminRules, Below, Fits, NeedsEdit, Finance
  <2>2. AdminRules[6].then.needs = "financeEdit"
    BY DEF AdminRules, Rule, Page
  <2> QED BY <1>6, <2>1, <2>2 DEF Suits, Below, None
<1>7. CASE i = 7
  <2>1. Below(p, {"finance"}) /\ NeedsEdit(p)
    BY <1>7, FitsThree, AppliesByParts DEF AdminRules, Below, Fits, NeedsEdit, Finance
  <2>2. AdminRules[7].then.needs = "financeEdit"
    BY DEF AdminRules, Rule, Page
  <2> QED BY <1>7, <2>1, <2>2 DEF Suits, Below, None
<1>8. CASE i = 8
  <2>1. Below(p, {"finance"}) /\ NeedsEdit(p)
    BY <1>8, FitsFour, AppliesByParts DEF AdminRules, Below, Fits, NeedsEdit, Finance
  <2>2. AdminRules[8].then.needs = "financeEdit"
    BY DEF AdminRules, Rule, Page
  <2> QED BY <1>8, <2>1, <2>2 DEF Suits, Below, None
<1>9. CASE i = 9
  <2>1. Below(p, {"finance"})
    BY <1>9, FitsFour, AppliesByParts DEF AdminRules, Below, Fits, Finance
  <2>2. AdminRules[9].then.needs = "financeView"
    BY DEF AdminRules, Rule, Page
  <2> QED BY <1>9, <2>1, <2>2 DEF Suits, Below, None
<1>10. CASE i = 10
  <2>1. Below(p, {"news"})
    BY <1>10, FitsThree, FitsFour, AppliesByParts DEF AdminRules, Below, Fits
  <2>2. AdminRules[10].then.needs = "content"
    BY DEF AdminRules, Rule, Page
  <2> QED BY <1>10, <2>1, <2>2 DEF Suits, Below, None
<1> QED BY <1>1, <1>2, <1>3, <1>4, <1>5, <1>6, <1>7, <1>8, <1>9, <1>10

(* The second table of pages.                                              *)
LEMMA MoreAdminRulesSuit ==
  ASSUME NEW p \in Seq(Segments), p[1] = "admin", NEW i \in 1 .. 9,
         Applies(MoreAdminRules[i], p)
  PROVE  LET needs == MoreAdminRules[i].then.needs IN
         needs # None /\ Suits(needs, p) /\ (needs = "financeEdit" => NeedsEdit(p))
<1>1. CASE i = 1
  <2>1. Below(p, {"templates"})
    BY <1>1, FitsTwo, AppliesByParts DEF MoreAdminRules, Below, Fits
  <2>2. MoreAdminRules[1].then.needs = "templates"
    BY DEF MoreAdminRules, Rule, Page
  <2> QED BY <1>1, <2>1, <2>2 DEF Suits, Below, None
<1>2. CASE i = 2
  <2>1. Below(p, {"templates"})
    BY <1>2, FitsThree, FitsFour, AppliesByParts DEF MoreAdminRules, Below, Fits
  <2>2. MoreAdminRules[2].then.needs = "templates"
    BY DEF MoreAdminRules, Rule, Page
  <2> QED BY <1>2, <2>1, <2>2 DEF Suits, Below, None
<1>3. CASE i = 3
  <2>1. Below(p, {"users"})
    BY <1>3, FitsFour, AppliesByParts DEF MoreAdminRules, Below, Fits
  <2>2. MoreAdminRules[3].then.needs = "roles"
    BY DEF MoreAdminRules, Rule, Page
  <2> QED BY <1>3, <2>1, <2>2 DEF Suits, Below, None
<1>4. CASE i = 4
  <2>1. Below(p, {"users"})
    BY <1>4, FitsTwo, AppliesByParts DEF MoreAdminRules, Below, Fits
  <2>2. MoreAdminRules[4].then.needs = "roles"
    BY DEF MoreAdminRules, Rule, Page
  <2> QED BY <1>4, <2>1, <2>2 DEF Suits, Below, None
<1>5. CASE i = 5
  <2>1. Below(p, {"messages"})
    BY <1>5, FitsTwo, AppliesByParts DEF MoreAdminRules, Below, Fits
  <2>2. MoreAdminRules[5].then.needs = "messages"
    BY DEF MoreAdminRules, Rule, Page
  <2> QED BY <1>5, <2>1, <2>2 DEF Suits, Below, None
<1>6. CASE i = 6
  <2>1. Below(p, {"roles"})
    BY <1>6, FitsThree, FitsFour, AppliesByParts DEF MoreAdminRules, Below, Fits
  <2>2. MoreAdminRules[6].then.needs = "roles"
    BY DEF MoreAdminRules, Rule, Page
  <2> QED BY <1>6, <2>1, <2>2 DEF Suits, Below, None
<1>7. CASE i = 7
  <2>1. Below(p, {"roles"})
    BY <1>7, FitsTwo, AppliesByParts DEF MoreAdminRules, Below, Fits
  <2>2. MoreAdminRules[7].then.needs = "roles"
    BY DEF MoreAdminRules, Rule, Page
  <2> QED BY <1>7, <2>1, <2>2 DEF Suits, Below, None
<1>8. CASE i = 8
  <2>1. Below(p, {"events"})
    BY <1>8, FitsTwo, AppliesByParts DEF MoreAdminRules, Below, Fits
  <2>2. MoreAdminRules[8].then.needs = "content"
    BY DEF MoreAdminRules, Rule, Page
  <2> QED BY <1>8, <2>1, <2>2 DEF Suits, Below, None
<1>9. CASE i = 9
  <2>1. Below(p, {"events"})
    BY <1>9, FitsThree, FitsFour, AppliesByParts DEF MoreAdminRules, Below, Fits
  <2>2. MoreAdminRules[9].then.needs = "content"
    BY DEF MoreAdminRules, Rule, Page
  <2> QED BY <1>9, <2>1, <2>2 DEF Suits, Below, None
<1> QED BY <1>1, <1>2, <1>3, <1>4, <1>5, <1>6, <1>7, <1>8, <1>9

(* A pattern of no admin page.                                             *)
Elsewhere(q) == Len(q) \in Nat /\ (Len(q) < 2 \/ q[1] \notin {"admin", "*", "#"})

(* A path of the admin pages fits no pattern that begins with another      *)
(* segment.                                                                *)
LEMMA FitsElsewhere ==
  ASSUME NEW p \in Seq(Segments), p[1] = "admin", Len(p) >= 2, NEW q, Elsewhere(q)
  PROVE  ~Fits(p, q)
BY DEF Fits, Elsewhere

(* The rules of the public pages are about other paths.                    *)
LEMMA PublicRulesAreElsewhere ==
  ASSUME NEW i \in 1 .. 10
  PROVE  PublicRules[i].under = {} /\ \A q \in PublicRules[i].is : Elsewhere(q)
<1>1. CASE i = 1
  BY <1>1 DEF PublicRules, Rule, Elsewhere
<1>2. CASE i = 2
  BY <1>2 DEF PublicRules, Rule, Elsewhere
<1>3. CASE i = 3
  BY <1>3 DEF PublicRules, Rule, Elsewhere
<1>4. CASE i = 4
  BY <1>4 DEF PublicRules, Rule, Elsewhere
<1>5. CASE i = 5
  BY <1>5 DEF PublicRules, Rule, Elsewhere
<1>6. CASE i = 6
  BY <1>6 DEF PublicRules, Rule, Elsewhere
<1>7. CASE i = 7
  BY <1>7 DEF PublicRules, Rule, Elsewhere
<1>8. CASE i = 8
  BY <1>8 DEF PublicRules, Rule, Elsewhere
<1>9. CASE i = 9
  BY <1>9 DEF PublicRules, Rule, Elsewhere
<1>10. CASE i = 10
  BY <1>10 DEF PublicRules, Rule, Elsewhere
<1> QED BY <1>1, <1>2, <1>3, <1>4, <1>5, <1>6, <1>7, <1>8, <1>9, <1>10

(* So are those of the pages of an account and of events.                  *)
LEMMA AccountRulesAreElsewhere ==
  ASSUME NEW i \in 1 .. 7
  PROVE  /\ \A q \in AccountRules[i].is : Elsewhere(q)
         /\ \A q \in AccountRules[i].under : q \in {<<"events">>, <<"news">>}
<1>1. CASE i = 1
  BY <1>1 DEF AccountRules, Rule, Elsewhere
<1>2. CASE i = 2
  BY <1>2 DEF AccountRules, Rule, Elsewhere
<1>3. CASE i = 3
  BY <1>3 DEF AccountRules, Rule, Elsewhere
<1>4. CASE i = 4
  BY <1>4 DEF AccountRules, Rule, Elsewhere
<1>5. CASE i = 5
  BY <1>5 DEF AccountRules, Rule, Elsewhere
<1>6. CASE i = 6
  BY <1>6 DEF AccountRules, Rule, Elsewhere
<1>7. CASE i = 7
  BY <1>7 DEF AccountRules, Rule, Elsewhere
<1> QED BY <1>1, <1>2, <1>3, <1>4, <1>5, <1>6, <1>7

(* A path of the admin pages is not below an event or a news item.         *)
LEMMA BelowPublic ==
  ASSUME NEW p \in Seq(Segments), NEW x, p[1] = "admin", x # "admin"
  PROVE  ~IsStrictPrefix(<<x>>, p)
<1> DEFINE q == <<x>>
<1>1. q \in Seq({x})
  OBVIOUS
<1>2. Len(q) = 1 /\ q[1] = x
  OBVIOUS
<1> HIDE DEF q
<1>3. IsStrictPrefix(q, p) => \A i \in 1 .. Len(q) : p[i] = q[i]
  BY <1>1, StrictPrefixes
<1>4. ~IsStrictPrefix(q, p)
  BY <1>2, <1>3
<1> QED BY <1>4 DEF q

(* The elements of two sequences put together.                             *)
LEMMA RulesOfBoth ==
  ASSUME NEW R, NEW s \in Seq(R), NEW t \in Seq(R)
  PROVE  s \o t \in Seq(R) /\ ToSet(s \o t) = ToSet(s) \cup ToSet(t)
<1> DEFINE both == s \o t
<1>1. both \in Seq(R) /\ Len(both) = Len(s) + Len(t) /\ Len(s) \in Nat /\ Len(t) \in Nat
  OBVIOUS
<1>2. /\ \A i \in 1 .. Len(s) : both[i] = s[i]
      /\ \A i \in Len(s) + 1 .. Len(s) + Len(t) : both[i] = t[i - Len(s)]
  BY <1>1
<1> HIDE DEF both
<1>3. DOMAIN both = 1 .. Len(s) + Len(t) /\ DOMAIN s = 1 .. Len(s) /\ DOMAIN t = 1 .. Len(t)
  BY <1>1
<1>4. ASSUME NEW i \in DOMAIN both PROVE both[i] \in ToSet(s) \cup ToSet(t)
  <2>1. CASE i <= Len(s)
    <3>1. i \in 1 .. Len(s)
      BY <1>1, <1>3, <2>1
    <3> QED BY <1>2, <1>3, <3>1 DEF ToSet
  <2>2. CASE i > Len(s)
    <3>1. i \in Len(s) + 1 .. Len(s) + Len(t) /\ i - Len(s) \in 1 .. Len(t)
      BY <1>1, <1>3, <2>2
    <3> QED BY <1>2, <1>3, <3>1 DEF ToSet
  <2> QED BY <1>1, <1>3, <2>1, <2>2
<1>5. ASSUME NEW j \in DOMAIN t PROVE t[j] \in ToSet(both)
  <2>1. Len(s) + j \in Len(s) + 1 .. Len(s) + Len(t) /\ Len(s) + j \in DOMAIN both
        /\ (Len(s) + j) - Len(s) = j
    BY <1>1, <1>3
  <2> QED BY <1>2, <2>1 DEF ToSet
<1>6. ASSUME NEW j \in DOMAIN s PROVE s[j] \in ToSet(both)
  <2>1. j \in 1 .. Len(s) /\ j \in DOMAIN both
    BY <1>1, <1>3
  <2> QED BY <1>2, <2>1 DEF ToSet
<1>7. ToSet(both) = ToSet(s) \cup ToSet(t)
  BY <1>4, <1>5, <1>6 DEF ToSet
<1> QED BY <1>1, <1>7 DEF both

(* A function on 1 .. n is a sequence.                                     *)
LEMMA SequenceOf ==
  ASSUME NEW R, NEW s, NEW n \in Nat, s = [i \in 1 .. n |-> s[i]], \A i \in 1 .. n : s[i] \in R
  PROVE  s \in Seq(R) /\ Len(s) = n
<1>1. s \in [1 .. n -> R]
  OBVIOUS
<1> QED BY <1>1

(* The rules of renderRoute.                                               *)
PageRules == PublicRules \o AccountRules \o AdminRules \o MoreAdminRules

(* The tables of rules are sequences.                                      *)
LEMMA RuleTables ==
  \E R : /\ PublicRules \in Seq(R) /\ Len(PublicRules) = 10
         /\ AccountRules \in Seq(R) /\ Len(AccountRules) = 7
         /\ AdminRules \in Seq(R) /\ Len(AdminRules) = 10
         /\ MoreAdminRules \in Seq(R) /\ Len(MoreAdminRules) = 9
<1> DEFINE R == {PublicRules[i] : i \in 1 .. 10} \cup {AccountRules[i] : i \in 1 .. 7}
             \cup {AdminRules[i] : i \in 1 .. 10} \cup {MoreAdminRules[i] : i \in 1 .. 9}
<1>1. PublicRules \in Seq(R) /\ Len(PublicRules) = 10
  <2>1. DOMAIN PublicRules = 1 .. 10 /\ PublicRules = [i \in 1 .. 10 |-> PublicRules[i]]
    BY DEF PublicRules
  <2>2. \A i \in 1 .. 10 : PublicRules[i] \in R
    OBVIOUS
  <2> QED BY <2>1, <2>2, SequenceOf
<1>2. AccountRules \in Seq(R) /\ Len(AccountRules) = 7
  <2>1. DOMAIN AccountRules = 1 .. 7 /\ AccountRules = [i \in 1 .. 7 |-> AccountRules[i]]
    BY DEF AccountRules
  <2>2. \A i \in 1 .. 7 : AccountRules[i] \in R
    OBVIOUS
  <2> QED BY <2>1, <2>2, SequenceOf
<1>3. AdminRules \in Seq(R) /\ Len(AdminRules) = 10
  <2>1. DOMAIN AdminRules = 1 .. 10 /\ AdminRules = [i \in 1 .. 10 |-> AdminRules[i]]
    BY DEF AdminRules
  <2>2. \A i \in 1 .. 10 : AdminRules[i] \in R
    OBVIOUS
  <2> QED BY <2>1, <2>2, SequenceOf
<1>4. MoreAdminRules \in Seq(R) /\ Len(MoreAdminRules) = 9
  <2>1. DOMAIN MoreAdminRules = 1 .. 9 /\ MoreAdminRules = [i \in 1 .. 9 |-> MoreAdminRules[i]]
    BY DEF MoreAdminRules
  <2>2. \A i \in 1 .. 9 : MoreAdminRules[i] \in R
    OBVIOUS
  <2> QED BY <2>1, <2>2, SequenceOf
<1> QED BY <1>1, <1>2, <1>3, <1>4

(* The rules of renderRoute are those of the four tables.                  *)
LEMMA RulesTogether ==
  /\ \E R : PageRules \in Seq(R)
  /\ ToSet(PageRules) =
       ToSet(PublicRules) \cup ToSet(AccountRules) \cup ToSet(AdminRules) \cup ToSet(MoreAdminRules)
<1>1. PICK R : /\ PublicRules \in Seq(R) /\ Len(PublicRules) = 10
               /\ AccountRules \in Seq(R) /\ Len(AccountRules) = 7
               /\ AdminRules \in Seq(R) /\ Len(AdminRules) = 10
               /\ MoreAdminRules \in Seq(R) /\ Len(MoreAdminRules) = 9
  BY RuleTables
<1> DEFINE two == PublicRules \o AccountRules
           three == two \o AdminRules
<1>2. two \in Seq(R) /\ ToSet(two) = ToSet(PublicRules) \cup ToSet(AccountRules)
  BY <1>1, RulesOfBoth
<1>3. three \in Seq(R) /\ ToSet(three) = ToSet(two) \cup ToSet(AdminRules)
  <2> HIDE DEF two
  <2> QED BY <1>1, <1>2, RulesOfBoth
<1>4. PageRules = three \o MoreAdminRules
  BY DEF PageRules
<1> HIDE DEF two, three
<1>5. PageRules \in Seq(R) /\ ToSet(PageRules) = ToSet(three) \cup ToSet(MoreAdminRules)
  BY <1>1, <1>3, <1>4, RulesOfBoth
<1> QED BY <1>2, <1>3, <1>5

(* The page of an admin path asks for what suits the path; a path with a   *)
(* rule has a page that asks for something.                                *)
LEMMA PageOfAnAdminPath ==
  ASSUME NEW p \in Seq(Segments), p[1] = "admin", Len(p) >= 2
  PROVE  LET needs == FirstRule(PageRules, p, Page("front", None)).needs IN
         /\ needs # None => Suits(needs, p) /\ (needs = "financeEdit" => NeedsEdit(p))
         /\ (\E rule \in ToSet(AdminRules) \cup ToSet(MoreAdminRules) : Applies(rule, p))
              => needs # None
<1> DEFINE front == Page("front", None)
           shown == FirstRule(PageRules, p, front)
           n == Len(PageRules)
           Good(needs) == needs # None /\ Suits(needs, p) /\ (needs = "financeEdit" => NeedsEdit(p))
<1>1. n \in Nat /\ DOMAIN PageRules = 1 .. n
  BY RulesTogether
<1>2. \/ shown = front /\ \A i \in 1 .. n : ~Applies(PageRules[i], p)
      \/ \E i \in 1 .. n :
           /\ Applies(PageRules[i], p) /\ shown = PageRules[i].then
           /\ \A j \in 1 .. n : Applies(PageRules[j], p) => i <= j
  <2> HIDE DEF n, front
  <2> QED BY <1>1, FirstRuleIsTheFirst
<1>3. \/ shown = front /\ \A rule \in ToSet(PageRules) : ~Applies(rule, p)
      \/ \E rule \in ToSet(PageRules) : Applies(rule, p) /\ shown = rule.then
  <2> HIDE DEF n, front, shown
  <2> QED BY <1>1, <1>2 DEF ToSet
<1>4. ASSUME NEW rule \in ToSet(PageRules), Applies(rule, p)
      PROVE  Good(rule.then.needs)
  <2>1. ASSUME rule \in ToSet(PublicRules) PROVE FALSE
    <3>1. DOMAIN PublicRules = 1 .. 10
      BY RuleTables
    <3>2. PICK j \in 1 .. 10 : rule = PublicRules[j]
      BY <2>1, <3>1 DEF ToSet
    <3> QED BY <1>4, <3>2, PublicRulesAreElsewhere, FitsElsewhere DEF Applies
  <2>2. ASSUME rule \in ToSet(AccountRules) PROVE FALSE
    <3>1. DOMAIN AccountRules = 1 .. 7
      BY RuleTables
    <3>2. PICK j \in 1 .. 7 : rule = AccountRules[j]
      BY <2>2, <3>1 DEF ToSet
    <3>3. "events" # "admin" /\ "news" # "admin"
      OBVIOUS
    <3>4. ~IsStrictPrefix(<<"events">>, p) /\ ~IsStrictPrefix(<<"news">>, p)
      BY <3>3, BelowPublic
    <3> QED BY <1>4, <3>2, <3>4, AccountRulesAreElsewhere, FitsElsewhere DEF Applies
  <2>3. ASSUME rule \in ToSet(AdminRules) PROVE Good(rule.then.needs)
    <3>1. DOMAIN AdminRules = 1 .. 10
      BY RuleTables
    <3>2. PICK j \in 1 .. 10 : rule = AdminRules[j]
      BY <2>3, <3>1 DEF ToSet
    <3> QED BY <1>4, <3>2, AdminRulesSuit
  <2>4. ASSUME rule \in ToSet(MoreAdminRules) PROVE Good(rule.then.needs)
    <3>1. DOMAIN MoreAdminRules = 1 .. 9
      BY RuleTables
    <3>2. PICK j \in 1 .. 9 : rule = MoreAdminRules[j]
      BY <2>4, <3>1 DEF ToSet
    <3> QED BY <1>4, <3>2, MoreAdminRulesSuit
  <2> QED BY <2>1, <2>2, <2>3, <2>4, RulesTogether
<1>5. front.needs = None
  BY DEF Page
<1> HIDE DEF shown, front, Good
<1>6. shown.needs # None => Good(shown.needs)
  BY <1>3, <1>4, <1>5
<1>7. ASSUME NEW rule \in ToSet(AdminRules) \cup ToSet(MoreAdminRules), Applies(rule, p)
      PROVE  shown.needs # None
  <2>1. \E r \in ToSet(PageRules) : Applies(r, p) /\ shown = r.then
    BY <1>3, <1>7, RulesTogether
  <2> QED BY <1>4, <2>1 DEF Good
<1> QED BY <1>6, <1>7 DEF shown, front, Good

(* Whoever the gate lets in has what the page asks for.                    *)
LEMMA GatesGrantTheirPages ==
  ASSUME NEW u, NEW p \in Seq(Segments), AdminPermissionForPath(p) # None, ~Gated(u, p),
         PageOf(u, p).needs # None
  PROVE  HasPermission(u, PageOf(u, p).needs)
<1> DEFINE gate == AdminPermissionForPath(p)
           needs == PageOf(u, p).needs
<1>1. HasPermission(u, gate) /\ PageOf(u, p) = FirstRule(PageRules, p, Page("front", None))
  BY DEF Gated, PageOf, PageRules
<1>2. Suits(gate, p) /\ (gate = "financeView" => ~NeedsEdit(p))
  BY GateOfAPath
<1>3. p[1] = "admin" /\ Len(p) >= 2
  BY <1>2 DEF Suits, Below
<1>4. Suits(needs, p) /\ (needs = "financeEdit" => NeedsEdit(p))
  BY <1>1, <1>3, PageOfAnAdminPath
<1>5. needs = gate \/ (needs = "financeView" /\ gate = "financeEdit")
  BY <1>2, <1>4 DEF Suits, Below
<1> QED BY <1>1, <1>5 DEF HasPermission

(* The history is one of paths, and the entry shown is in it.              *)
RouterIInv == entries \in Seq(Seq(Segments)) /\ at \in 1 .. Len(entries)

(* The path shown is a path.                                               *)
LEMMA PathIsAPath ==
  ASSUME RouterIInv
  PROVE  Path \in Seq(Segments)
BY DEF RouterIInv, Path

(* The page shown is one its reader may use.                               *)
LEMMA GateAndPageAgreeThen ==
  ASSUME RouterIInv
  PROVE  GateAndPageAgree
BY PathIsAPath, GatesGrantTheirPages DEF GateAndPageAgree, ShownPage

(* A user is sent to the first destination he may use, to the events if    *)
(* there is none.                                                          *)
LEMMA FirstAdminPathIsADestination ==
  ASSUME NEW u
  PROVE  \/ FirstAdminPath(u) = <<"events">>
            /\ \A i \in 1 .. 7 : ~HasPermission(u, Destinations[i].needs)
         \/ \E i \in 1 .. 7 :
              /\ FirstAdminPath(u) = Destinations[i].path /\ HasPermission(u, Destinations[i].needs)
              /\ \A j \in 1 .. 7 : HasPermission(u, Destinations[j].needs) => i <= j
<1> DEFINE offered == {i \in 1 .. 7 : HasPermission(u, Destinations[i].needs)}
           m == CHOOSE i \in offered : \A j \in offered : i <= j
<1>1. DOMAIN Destinations = 1 .. 7
  BY DEF Destinations
<1>2. FirstAdminPath(u) = IF offered = {} THEN <<"events">> ELSE Destinations[m].path
  BY <1>1 DEF FirstAdminPath
<1>3. offered # {} => m \in offered /\ \A j \in offered : m <= j
  <2>1. offered \in SUBSET Nat
    OBVIOUS
  <2> HIDE DEF offered
  <2> QED BY <2>1, LeastNumber, Zenon
<1> HIDE DEF m
<1> QED BY <1>2, <1>3

(* Where a user who has what a path takes gets to see its page.            *)
IsOpen(p, needs) ==
  /\ p \in Seq(Segments) /\ Suits(needs, p)
  /\ \E rule \in ToSet(AdminRules) \cup ToSet(MoreAdminRules) : Applies(rule, p)
  /\ needs = "financeView" => ~NeedsEdit(p) /\ AdminPermissionForPath(p) # "financeEdit"

(* Such a path shows a page that lets its reader in, without a detour.     *)
LEMMA OpenPathsAreShown ==
  ASSUME NEW u, NEW p, NEW needs, IsOpen(p, needs), HasPermission(u, needs)
  PROVE  ~Gated(u, p) /\ PageOf(u, p).needs # None /\ HasPermission(u, PageOf(u, p).needs)
<1> DEFINE gate == AdminPermissionForPath(p)
           shown == PageOf(u, p).needs
<1>1. p \in Seq(Segments) /\ p[1] = "admin" /\ Len(p) >= 2 /\ Suits(needs, p)
  BY DEF IsOpen, Suits, Below
<1>2. gate # None => gate = needs \/ (gate = "financeView" /\ needs = "financeEdit")
  BY <1>1, GateOfAPath DEF IsOpen, Suits, Below
<1>3. gate # None => HasPermission(u, gate)
  BY <1>2 DEF HasPermission
<1>4. p # <<"admin">>
  <2> SUFFICES ASSUME p = <<"admin">> PROVE FALSE
    OBVIOUS
  <2>1. Len(p) = 1
    OBVIOUS
  <2> QED BY <1>1, <2>1
<1>5. ~Gated(u, p)
  BY <1>3, <1>4 DEF Gated
<1>6. PageOf(u, p) = FirstRule(PageRules, p, Page("front", None))
  BY <1>5 DEF PageOf, PageRules
<1>7. shown # None /\ Suits(shown, p) /\ (shown = "financeEdit" => NeedsEdit(p))
  BY <1>1, <1>6, PageOfAnAdminPath DEF IsOpen
<1>8. shown = needs \/ (shown = "financeView" /\ needs = "financeEdit")
  BY <1>1, <1>7 DEF IsOpen, Suits, Below
<1>9. HasPermission(u, shown)
  BY <1>8 DEF HasPermission
<1> QED BY <1>5, <1>7, <1>9

(* The overview and the postings do not ask for the permission to edit.    *)
LEMMA FinanceIsOpenToReaders ==
  ASSUME NEW p \in {AdminPath("finance"), Finance("postings")}
  PROVE  AdminPermissionForPath(p) # "financeEdit"
<1>1. Applies(GateRules[8], p)
  <2>1. Fits(p, p) /\ p \in GateRules[8].is
    BY DEF Fits, AdminPath, Finance, GateRules, Rule
  <2> QED BY <2>1 DEF Applies
<1>2. ~Applies(GateRules[7], p)
  <2>1. /\ GateRules[7].is = {<<"admin", "finance", "postings", "edit">>}
        /\ GateRules[7].under = {}
    BY DEF GateRules, Rule
  <2>2. ~Fits(p, <<"admin", "finance", "postings", "edit">>)
    BY DEF Fits, AdminPath, Finance
  <2> QED BY <2>1, <2>2 DEF Applies
<1>3. ~\A i \in 1 .. 9 : ~Applies(GateRules[i], p)
  BY <1>1
<1>4. PICK i \in 1 .. 9 :
        /\ Applies(GateRules[i], p) /\ AdminPermissionForPath(p) = GateRules[i].then
        /\ \A j \in 1 .. 9 : Applies(GateRules[j], p) => i <= j
  BY <1>3, TheGateOfAPath
<1>5. i \in 1 .. 6 \/ i = 8
  BY <1>1, <1>2, <1>4
<1> QED BY <1>4, <1>5 DEF GateRules, Rule

(* The paths of the menus, each with the permission behind its item.       *)
LEMMA MenuPathsAreOpen ==
  /\ IsOpen(AdminPath("events"), "content") /\ IsOpen(AdminPath("news"), "content")
  /\ IsOpen(AdminPath("products"), "payments") /\ IsOpen(AdminPath("subscriptions"), "payments")
  /\ IsOpen(AdminPath("messages"), "messages") /\ IsOpen(AdminPath("templates"), "templates")
  /\ IsOpen(AdminPath("users"), "roles") /\ IsOpen(AdminPath("roles"), "roles")
  /\ IsOpen(AdminPath("finance"), "financeView") /\ IsOpen(Finance("postings"), "financeView")
  /\ IsOpen(Finance("csv-import"), "financeEdit")
  /\ IsOpen(<<"admin", "finance", "postings", "edit">>, "financeEdit")
  /\ IsOpen(Finance("chart-of-accounts"), "financeEdit")
  /\ IsOpen(Finance("posting-groups"), "financeEdit") /\ IsOpen(Finance("budgets"), "financeEdit")
<1>1. \A x \in LinkedSegments : x \in Segments
  BY RouterAssumption
<1>2. ASSUME NEW x \in LinkedSegments
      PROVE  /\ AdminPath(x) \in Seq(Segments) /\ Len(AdminPath(x)) = 2
             /\ AdminPath(x)[1] = "admin" /\ AdminPath(x)[2] = x
             /\ Fits(AdminPath(x), AdminPath(x))
  BY <1>1 DEF AdminPath, LinkedSegments, Fits
<1>3. ASSUME NEW x \in LinkedSegments
      PROVE  /\ Finance(x) \in Seq(Segments) /\ Len(Finance(x)) = 3
             /\ Finance(x)[1] = "admin" /\ Finance(x)[2] = "finance" /\ Finance(x)[3] = x
             /\ Fits(Finance(x), Finance(x))
  BY <1>1 DEF Finance, LinkedSegments, Fits
<1>4. \A i \in 1 .. 10 : AdminRules[i] \in ToSet(AdminRules)
  BY RuleTables DEF ToSet
<1>5. \A i \in 1 .. 9 : MoreAdminRules[i] \in ToSet(MoreAdminRules)
  BY RuleTables DEF ToSet
<1>6. \A i \in 1 .. 10 : \A p, q : q \in AdminRules[i].is /\ Fits(p, q) =>
        \E rule \in ToSet(AdminRules) \cup ToSet(MoreAdminRules) : Applies(rule, p)
  BY <1>4 DEF Applies
<1>7. \A i \in 1 .. 9 : \A p, q : q \in MoreAdminRules[i].is /\ Fits(p, q) =>
        \E rule \in ToSet(AdminRules) \cup ToSet(MoreAdminRules) : Applies(rule, p)
  BY <1>5 DEF Applies
<1>8. IsOpen(AdminPath("events"), "content")
  <2>1. "events" \in LinkedSegments
    BY DEF LinkedSegments
  <2>2. AdminPath("events") \in MoreAdminRules[8].is
    BY DEF MoreAdminRules, Rule
  <2> QED BY <1>2, <1>7, <2>1, <2>2 DEF IsOpen, Suits, Below
<1>9. IsOpen(AdminPath("news"), "content")
  <2>1. "news" \in LinkedSegments
    BY DEF LinkedSegments
  <2>2. AdminPath("news") \in AdminRules[1].is
    BY DEF AdminRules, Rule
  <2> QED BY <1>2, <1>6, <2>1, <2>2 DEF IsOpen, Suits, Below
<1>10. IsOpen(AdminPath("products"), "payments")
  <2>1. "products" \in LinkedSegments
    BY DEF LinkedSegments
  <2>2. AdminPath("products") \in AdminRules[2].is
    BY DEF AdminRules, Rule
  <2> QED BY <1>2, <1>6, <2>1, <2>2 DEF IsOpen, Suits, Below
<1>11. IsOpen(AdminPath("subscriptions"), "payments")
  <2>1. "subscriptions" \in LinkedSegments
    BY DEF LinkedSegments
  <2>2. AdminPath("subscriptions") \in AdminRules[3].is
    BY DEF AdminRules, Rule
  <2> QED BY <1>2, <1>6, <2>1, <2>2 DEF IsOpen, Suits, Below
<1>12. IsOpen(AdminPath("messages"), "messages")
  <2>1. "messages" \in LinkedSegments
    BY DEF LinkedSegments
  <2>2. AdminPath("messages") \in MoreAdminRules[5].is
    BY DEF MoreAdminRules, Rule
  <2> QED BY <1>2, <1>7, <2>1, <2>2 DEF IsOpen, Suits, Below
<1>13. IsOpen(AdminPath("templates"), "templates")
  <2>1. "templates" \in LinkedSegments
    BY DEF LinkedSegments
  <2>2. AdminPath("templates") \in MoreAdminRules[1].is
    BY DEF MoreAdminRules, Rule
  <2> QED BY <1>2, <1>7, <2>1, <2>2 DEF IsOpen, Suits, Below
<1>14. IsOpen(AdminPath("users"), "roles")
  <2>1. "users" \in LinkedSegments
    BY DEF LinkedSegments
  <2>2. AdminPath("users") \in MoreAdminRules[4].is
    BY DEF MoreAdminRules, Rule
  <2> QED BY <1>2, <1>7, <2>1, <2>2 DEF IsOpen, Suits, Below
<1>15. IsOpen(AdminPath("roles"), "roles")
  <2>1. "roles" \in LinkedSegments
    BY DEF LinkedSegments
  <2>2. AdminPath("roles") \in MoreAdminRules[7].is
    BY DEF MoreAdminRules, Rule
  <2> QED BY <1>2, <1>7, <2>1, <2>2 DEF IsOpen, Suits, Below
<1>16. IsOpen(AdminPath("finance"), "financeView")
  <2>1. "finance" \in LinkedSegments
    BY DEF LinkedSegments
  <2>2. AdminPath("finance") \in AdminRules[4].is
    BY DEF AdminRules, Rule
  <2> QED BY <1>2, <1>6, <2>1, <2>2, FinanceIsOpenToReaders DEF IsOpen, Suits, Below, NeedsEdit
<1>17. IsOpen(Finance("postings"), "financeView")
  <2>1. "postings" \in LinkedSegments
    BY DEF LinkedSegments
  <2>2. Finance("postings") \in AdminRules[5].is
    BY DEF AdminRules, Rule
  <2> QED BY <1>3, <1>6, <2>1, <2>2, FinanceIsOpenToReaders DEF IsOpen, Suits, Below, NeedsEdit
<1>18. IsOpen(Finance("csv-import"), "financeEdit")
  <2>1. "csv-import" \in LinkedSegments
    BY DEF LinkedSegments
  <2>2. Finance("csv-import") \in AdminRules[7].is
    BY DEF AdminRules, Rule
  <2> QED BY <1>3, <1>6, <2>1, <2>2 DEF IsOpen, Suits, Below
<1>19. IsOpen(Finance("chart-of-accounts"), "financeEdit")
  <2>1. "chart-of-accounts" \in LinkedSegments
    BY DEF LinkedSegments
  <2>2. Finance("chart-of-accounts") \in AdminRules[7].is
    BY DEF AdminRules, Rule
  <2> QED BY <1>3, <1>6, <2>1, <2>2 DEF IsOpen, Suits, Below
<1>20. IsOpen(Finance("posting-groups"), "financeEdit")
  <2>1. "posting-groups" \in LinkedSegments
    BY DEF LinkedSegments
  <2>2. Finance("posting-groups") \in AdminRules[7].is
    BY DEF AdminRules, Rule
  <2> QED BY <1>3, <1>6, <2>1, <2>2 DEF IsOpen, Suits, Below
<1>21. IsOpen(Finance("budgets"), "financeEdit")
  <2>1. "budgets" \in LinkedSegments
    BY DEF LinkedSegments
  <2>2. Finance("budgets") \in AdminRules[7].is
    BY DEF AdminRules, Rule
  <2> QED BY <1>3, <1>6, <2>1, <2>2 DEF IsOpen, Suits, Below
<1>22. IsOpen(<<"admin", "finance", "postings", "edit">>, "financeEdit")
  <2> DEFINE p == <<"admin", "finance", "postings", "edit">>
  <2>1. "admin" \in Segments /\ "finance" \in Segments /\ "postings" \in Segments /\ "edit" \in Segments
    BY <1>1 DEF LinkedSegments
  <2>2. p \in Seq(Segments) /\ Len(p) = 4 /\ p[1] = "admin" /\ p[2] = "finance"
    BY <2>1
  <2>3. p \in AdminRules[6].is /\ Fits(p, p)
    BY DEF AdminRules, Rule, Fits
  <2> HIDE DEF p
  <2>4. IsOpen(p, "financeEdit")
    BY <1>6, <2>2, <2>3 DEF IsOpen, Suits, Below
  <2> QED BY <2>4 DEF p
<1> QED BY <1>8, <1>9, <1>10, <1>11, <1>12, <1>13, <1>14, <1>15, <1>16, <1>17, <1>18, <1>19,
   <1>20, <1>21, <1>22

(* So every item of a menu but the way back, and every destination.        *)
LEMMA MenusAreOpen ==
  /\ \A item \in AdminMenu \cup FinanceMenu : item # BackToAdmin =>
       \A needs \in item.needs : IsOpen(item.path, needs)
  /\ \A i \in 1 .. 7 : IsOpen(Destinations[i].path, Destinations[i].needs)
<1>1. ASSUME NEW item \in AdminMenu PROVE \A needs \in item.needs : IsOpen(item.path, needs)
  BY MenuPathsAreOpen DEF AdminMenu, Item
<1>2. ASSUME NEW item \in FinanceMenu, item # BackToAdmin
      PROVE  \A needs \in item.needs : IsOpen(item.path, needs)
  BY <1>2, MenuPathsAreOpen DEF FinanceMenu, Item
<1>3. \A i \in 1 .. 7 : IsOpen(Destinations[i].path, Destinations[i].needs)
  BY MenuPathsAreOpen DEF Destinations
<1> QED BY <1>1, <1>2, <1>3

(* Whoever is offered the way back is sent to a page before the finance    *)
(* pages.                                                                  *)
LEMMA DestinationOfAnEditor ==
  ASSUME NEW u, \E needs \in BackToAdmin.needs : HasPermission(u, needs)
  PROVE  \E i \in 1 .. 6 :
           FirstAdminPath(u) = Destinations[i].path /\ HasPermission(u, Destinations[i].needs)
<1>1. \A needs \in BackToAdmin.needs : \E j \in 1 .. 6 : Destinations[j].needs = needs
  <2>1. BackToAdmin.needs = {"content", "roles", "templates", "messages"}
    BY DEF BackToAdmin
  <2>2. /\ Destinations[1].needs = "content" /\ Destinations[4].needs = "messages"
        /\ Destinations[5].needs = "templates" /\ Destinations[6].needs = "roles"
    BY DEF Destinations
  <2> QED BY <2>1, <2>2
<1>2. PICK j \in 1 .. 6 : HasPermission(u, Destinations[j].needs)
  BY <1>1
<1>3. j \in 1 .. 7
  OBVIOUS
<1>4. PICK i \in 1 .. 7 :
        /\ FirstAdminPath(u) = Destinations[i].path /\ HasPermission(u, Destinations[i].needs)
        /\ \A k \in 1 .. 7 : HasPermission(u, Destinations[k].needs) => i <= k
  BY <1>2, <1>3, FirstAdminPathIsADestination
<1>5. i \in 1 .. 6
  BY <1>2, <1>3, <1>4
<1> QED BY <1>4, <1>5

(* The first six destinations are no finance pages.                        *)
LEMMA OutsideFinance ==
  ASSUME NEW i \in 1 .. 6
  PROVE  ~IsPrefix(AdminPath("finance"), Destinations[i].path)
<1>1. PICK x \in {"events", "products", "subscriptions", "messages", "templates", "users"} :
        Destinations[i].path = AdminPath(x)
  BY DEF Destinations
<1> DEFINE q == AdminPath("finance")
           p == AdminPath(x)
<1>2. q \in Seq({"admin", "finance"}) /\ p \in Seq({"admin", x})
  <2>1. "admin" \in {"admin", "finance"} /\ "finance" \in {"admin", "finance"}
        /\ "admin" \in {"admin", x} /\ x \in {"admin", x}
    OBVIOUS
  <2> QED BY <2>1 DEF AdminPath
<1>3. q # p /\ Len(q) = 2 /\ q[2] = "finance" /\ p[2] = x
  BY DEF AdminPath
<1> HIDE DEF q, p
<1>4. IsStrictPrefix(q, p) => \A k \in 1 .. Len(q) : p[k] = q[k]
  BY <1>2, StrictPrefixes
<1>5. ~IsPrefix(q, p)
  BY <1>3, <1>4 DEF IsStrictPrefix
<1> QED BY <1>1, <1>5 DEF q, p

(* The events take the permission to edit content.                         *)
LEMMA EventsAskForContent == AdminPermissionForPath(AdminPath("events")) = "content"
<1> DEFINE p == AdminPath("events")
<1>1. Applies(GateRules[1], p)
  <2>1. Fits(p, p) /\ p \in GateRules[1].is
    BY DEF Fits, AdminPath, GateRules, Rule
  <2> QED BY <2>1 DEF Applies
<1> HIDE DEF p
<1>2. ~\A i \in 1 .. 9 : ~Applies(GateRules[i], p)
  BY <1>1
<1>3. PICK i \in 1 .. 9 :
        /\ Applies(GateRules[i], p) /\ AdminPermissionForPath(p) = GateRules[i].then
        /\ \A j \in 1 .. 9 : Applies(GateRules[j], p) => i <= j
  BY <1>2, TheGateOfAPath
<1>4. i = 1
  BY <1>1, <1>3
<1> QED BY <1>3, <1>4 DEF GateRules, Rule, p

(* The items of the menus lead to pages their readers may use.             *)
LEMMA MenuItemsLeadSomewhereThen == MenuItemsLeadSomewhere
<1>1. ASSUME CanAccessAdmin(user) PROVE PageOf(user, FirstAdminPath(user)).needs # None
  <2>1. PICK i \in 1 .. 7 : HasPermission(user, Destinations[i].needs)
    BY <1>1 DEF CanAccessAdmin, Destinations
  <2>2. PICK j \in 1 .. 7 :
          FirstAdminPath(user) = Destinations[j].path /\ HasPermission(user, Destinations[j].needs)
    BY <2>1, FirstAdminPathIsADestination
  <2> QED BY <2>2, MenusAreOpen, OpenPathsAreShown
<1>2. ASSUME NEW item \in AdminLayout(user, Path), item # BackToAdmin
      PROVE  PageOf(user, item.path).needs # None
             /\ HasPermission(user, PageOf(user, item.path).needs)
  <2>1. item \in AdminMenu \cup FinanceMenu
    BY DEF AdminLayout
  <2>2. PICK needs \in item.needs : HasPermission(user, needs)
    BY DEF AdminLayout
  <2> QED BY <1>2, <2>1, <2>2, MenusAreOpen, OpenPathsAreShown
<1>3. ASSUME BackToAdmin \in AdminLayout(user, Path)
      PROVE  LET p == IF Gated(user, BackToAdmin.path) THEN FirstAdminPath(user)
                      ELSE BackToAdmin.path
             IN  /\ PageOf(user, p).needs # None /\ HasPermission(user, PageOf(user, p).needs)
                 /\ ~IsPrefix(AdminPath("finance"), p)
  <2>1. PICK i \in 1 .. 6 :
          FirstAdminPath(user) = Destinations[i].path /\ HasPermission(user, Destinations[i].needs)
    BY <1>3, DestinationOfAnEditor DEF AdminLayout
  <2>2. CASE Gated(user, BackToAdmin.path)
    BY <2>1, <2>2, MenusAreOpen, OpenPathsAreShown, OutsideFinance
  <2>3. CASE ~Gated(user, BackToAdmin.path)
    <3>1. BackToAdmin.path = Destinations[1].path /\ Destinations[1].needs = "content"
      BY DEF BackToAdmin, Destinations
    <3>2. IsOpen(AdminPath("events"), "content") /\ BackToAdmin.path = AdminPath("events")
      BY MenuPathsAreOpen DEF BackToAdmin
    <3>3. HasPermission(user, "content")
      BY <2>3, <3>2, EventsAskForContent DEF Gated, None
    <3> QED BY <3>1, <3>3, MenusAreOpen, OpenPathsAreShown, OutsideFinance
  <2> QED BY <2>2, <2>3
<1> QED BY <1>1, <1>2, <1>3 DEF MenuItemsLeadSomewhere

(* The links of the menus are paths.                                       *)
LEMMA LinksArePaths ==
  ASSUME RouterIInv
  PROVE  Links \subseteq Seq(Segments)
<1>1. \A x \in LinkedSegments : x \in Segments
  BY RouterAssumption
<1>2. FirstAdminPath(user) \in Seq(Segments)
  <2>1. <<"events">> \in Seq(Segments)
    BY <1>1 DEF LinkedSegments
  <2> QED BY <2>1, FirstAdminPathIsADestination, MenusAreOpen DEF IsOpen
<1>3. ASSUME NEW item \in AdminLayout(user, Path) PROVE item.path \in Seq(Segments)
  <2>1. item \in AdminMenu \cup FinanceMenu /\ \E needs \in item.needs : HasPermission(user, needs)
    BY DEF AdminLayout
  <2>2. BackToAdmin.path \in Seq(Segments)
    BY MenuPathsAreOpen DEF BackToAdmin, IsOpen
  <2> QED BY <2>1, <2>2, MenusAreOpen DEF IsOpen
<1>4. /\ <<>> \in Seq(Segments) /\ <<"events">> \in Seq(Segments)
      /\ <<"account", "manage">> \in Seq(Segments) /\ <<"account", "login">> \in Seq(Segments)
      /\ <<"account", "register">> \in Seq(Segments)
  BY <1>1 DEF LinkedSegments
<1> QED BY <1>2, <1>3, <1>4 DEF Links

(* The history is one of paths, and the entry shown is in it.              *)
LEMMA RouterNextPreserves ==
  ASSUME RouterIInv, [RouterNext]_routerVars
  PROVE  RouterIInv'
<1> DEFINE P == Seq(Segments)
<1>1. entries \in Seq(P) /\ at \in 1 .. Len(entries) /\ Len(entries) \in Nat
  BY DEF RouterIInv
<1>2. CASE UNCHANGED <<entries, at>>
  BY <1>2 DEF RouterIInv
<1>3. ASSUME NEW p \in Links, Follow(p) PROVE RouterIInv'
  <2>1. p \in P
    BY LinksArePaths
  <2> HIDE DEF P
  <2>2. SubSeq(entries, 1, at) \in Seq(P) /\ Len(SubSeq(entries, 1, at)) = at
    BY <1>1
  <2> DEFINE before == SubSeq(entries, 1, at)
  <2> HIDE DEF before
  <2>3. Append(before, p) \in Seq(P) /\ Len(Append(before, p)) = at + 1
    BY <1>1, <2>1, <2>2 DEF before
  <2>4. entries' = Append(before, p) /\ at' = at + 1
    BY <1>3 DEF Follow, before
  <2> QED BY <1>1, <2>3, <2>4 DEF RouterIInv, P
<1>4. ASSUME NEW n \in 1 .. Len(entries), Travel(n) PROVE RouterIInv'
  BY <1>1, <1>4 DEF Travel, RouterIInv
<1>5. CASE RedirectAway
  <2>1. FirstAdminPath(user) \in P
    <3>1. "events" \in Segments
      BY RouterAssumption DEF LinkedSegments
    <3>2. <<"events">> \in P
      BY <3>1
    <3> QED BY <3>2, FirstAdminPathIsADestination, MenusAreOpen DEF IsOpen
  <2>2. entries' = [entries EXCEPT ![at] = FirstAdminPath(user)] /\ at' = at
    BY <1>5 DEF RedirectAway
  <2> HIDE DEF P
  <2>3. entries' \in Seq(P) /\ Len(entries') = Len(entries)
    BY <1>1, <2>1, <2>2
  <2> QED BY <1>1, <2>2, <2>3 DEF RouterIInv, P
<1>6. MeAnswered \/ Reload \/ UNCHANGED routerVars => UNCHANGED <<entries, at>>
  BY DEF MeAnswered, Reload, routerVars
<1> QED BY <1>2, <1>3, <1>4, <1>5, <1>6 DEF RouterNext

(* The router is opened at a path.                                         *)
LEMMA RouterInitially == RouterInit => RouterIInv
<1> SUFFICES ASSUME NEW p \in Seq(Segments), OpenedAt(p) PROVE RouterIInv
  BY DEF RouterInit
<1> DEFINE P == Seq(Segments)
<1>1. p \in P
  OBVIOUS
<1> HIDE DEF P
<1>2. <<p>> \in Seq(P) /\ Len(<<p>>) = 1
  BY <1>1
<1> QED BY <1>2 DEF OpenedAt, RouterIInv, P

(* The history stays within its bound, since a link forgets what was       *)
(* before it was followed.                                                 *)
LEMMA RouterTypesAreKept ==
  ASSUME RouterIInv, RouterTypeOK, [RouterNext]_routerVars
  PROVE  RouterTypeOK'
<1> DEFINE Users_ == {Loading} \cup {Known(ps) : ps \in Users}
<1>1. RouterIInv' /\ at \in 1 .. Len(entries) /\ Len(entries) \in Nat /\ user \in Users_
  BY RouterNextPreserves DEF RouterIInv, RouterTypeOK
<1>2. user' \in Users_
  BY <1>1 DEF RouterNext, MeAnswered, Follow, Travel, RedirectAway, Reload, routerVars
<1>3. Len(entries') <= MaxHistory
  <2>1. ASSUME NEW p \in Links, Follow(p) PROVE Len(entries') <= MaxHistory
    <3>1. Len(SubSeq(entries, 1, at)) = at /\ SubSeq(entries, 1, at) \in Seq(Seq(Segments))
      BY <1>1 DEF RouterIInv
    <3>2. Len(entries') = at + 1
      BY <2>1, <3>1 DEF Follow
    <3> QED BY <1>1, <2>1, <3>2, RouterAssumption DEF Follow
  <2>2. CASE RedirectAway
    <3>1. Len(entries') = Len(entries)
      BY <1>1, <2>2 DEF RedirectAway, RouterIInv
    <3> QED BY <3>1 DEF RouterTypeOK
  <2>3. CASE UNCHANGED entries
    BY <2>3 DEF RouterTypeOK
  <2> QED BY <2>1, <2>2, <2>3 DEF RouterNext, MeAnswered, Travel, Reload, routerVars
<1>4. Len(entries') \in 1 .. MaxHistory /\ at' \in 1 .. Len(entries')
  BY <1>1, <1>3, RouterAssumption DEF RouterIInv
<1> QED BY <1>2, <1>4 DEF RouterTypeOK

(* The history is one of at most MaxHistory entries, the entry shown is in *)
(* it, and a user who is known is one of the users.                        *)
THEOREM RouterTyping == RouterSpec => []RouterTypeOK
<1>1. RouterInit => RouterTypeOK
  BY RouterAssumption DEF RouterInit, OpenedAt, RouterTypeOK
<1>2. RouterIInv /\ RouterTypeOK /\ [RouterNext]_routerVars => RouterTypeOK'
  BY RouterTypesAreKept
<1>3. RouterIInv /\ [RouterNext]_routerVars => RouterIInv'
  BY RouterNextPreserves
<1> QED BY RouterInitially, <1>1, <1>2, <1>3, PTL DEF RouterSpec

(* A gate that lets a user in leads to a page that lets him in, on every   *)
(* path, for every set of permissions and whatever the history             *)
(* (renderRoute, adminPermissionForPath).                                  *)
THEOREM PagesGrantWhatUrlsGrant == RouterSpec => []GateAndPageAgree
<1>1. RouterIInv /\ [RouterNext]_routerVars => RouterIInv'
  BY RouterNextPreserves
<1>2. RouterIInv => GateAndPageAgree
  BY GateAndPageAgreeThen
<1> QED BY RouterInitially, <1>1, <1>2, PTL DEF RouterSpec

(* Every item of a menu leads to a page its reader may use, and the way    *)
(* back from the finance pages leads out of them (AdminLayout).            *)
THEOREM MenusLeadSomewhere == RouterSpec => []MenuItemsLeadSomewhere
BY MenuItemsLeadSomewhereThen, PTL

-----------------------------------------------------------------------------
(* The pages together                                                      *)

(* A site that is opened has opened one page and left the others alone.    *)
LEMMA PagesInitially ==
  ASSUME Init
  PROVE  /\ RegisterInit /\ PostingsInit /\ FormInit /\ OverviewInit
         /\ RoleInit /\ TableInit /\ RouterInit
<1>1. RouterInit
  BY BookmarksAssumption DEF Init, RouterInit
<1> QED BY <1>1 DEF Init

(* What the site does is, for each page, a step of it or none.             *)
LEMMA PagesStepAlone ==
  ASSUME [Next]_allVars
  PROVE  /\ [RegisterNext]_registerVars /\ [PostingsNext]_postingsVars
         /\ [FormNext]_formVars /\ [OverviewNext]_overviewVars
         /\ [RoleNext]_roleVars /\ [TableNext]_tableVars /\ [RouterNext]_routerVars
<1>1. CASE UNCHANGED allVars
  BY <1>1, Zenon DEF allVars
<1>2. CASE Next
  BY <1>2, Zenon DEF Next
<1> QED BY <1>1, <1>2

(* Every page of the site behaves as it does alone, whichever page the     *)
(* router has mounted: no page writes what another one keeps (AppRoot).    *)
LEMMA EveryPageAsAlone ==
  Spec => /\ RegisterSpec /\ PostingsSpec /\ FormSpec /\ OverviewSpec
          /\ RoleSpec /\ TableSpec /\ RouterSpec
<1>1. Init => /\ RegisterInit /\ PostingsInit /\ FormInit /\ OverviewInit
              /\ RoleInit /\ TableInit /\ RouterInit
  BY PagesInitially
<1>2. [Next]_allVars =>
        /\ [RegisterNext]_registerVars /\ [PostingsNext]_postingsVars
        /\ [FormNext]_formVars /\ [OverviewNext]_overviewVars
        /\ [RoleNext]_roleVars /\ [TableNext]_tableVars /\ [RouterNext]_routerVars
  BY PagesStepAlone
<1> QED
  BY <1>1, <1>2, PTL
  DEF Spec, RegisterSpec, PostingsSpec, FormSpec, OverviewSpec, RoleSpec, TableSpec, RouterSpec

(* Every variable of every page keeps its type, whichever page is mounted. *)
THEOREM PagesTyped == Spec => []TypeOK
<1>1. (/\ RegisterTypeOK /\ PostingsTypeOK /\ FormTypeOK /\ OverviewTypeOK
       /\ RoleTypeOK /\ TableTypeOK /\ RouterTypeOK) => TypeOK
  BY DEF TypeOK
<1> QED
  BY <1>1, EveryPageAsAlone, RegisterTyped, PostingsTyping, FormTyping, OverviewTyped,
     RolesTyped, TableTyping, RouterTyping, PTL

===============================================================================
