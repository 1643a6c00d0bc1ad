------------------------------- MODULE RoleEditor -------------------------------
(***************************************************************************)
(* Roles: the list, the page that edits the members and the permissions of *)
(* one role, and the requests behind them (AdminRolesPage.jsx,             *)
(* ApiRolesController).  A save is two requests, one after the other; the  *)
(* members are stored person by person, without a transaction and without  *)
(* a look at the result of each.  The page is not told of what other       *)
(* administrators do, a jump in the browser's history to another role      *)
(* keeps the page's state, and the button stays enabled while a save runs. *)
(* No request of the page is cancelled and no answer is checked for its    *)
(* age: what was read before a save may arrive after it.                   *)
(***************************************************************************)
EXTENDS Naturals, FiniteSets

CONSTANTS
  Roles, AdminRole,      \* roles; ADMIN is one of them
  People,
  Codes, Required,  \* permissions, and those ADMIN cannot lose
  MaxMoves,         \* bound: saves, changes by others and pages opened, together
  MaxSaves          \* bound: saves

ASSUME RoleAssumption == AdminRole \in Roles /\ Required \subseteq Codes

VARIABLES
  exists, members, granted,  \* server: AspNetRoles, AspNetUserRoles, RolePermissions
  roleUrl,                   \* the role in the URL
  base,                      \* membership: the members as they were read, and of which role
  selected,                  \* selectedMemberIds
  ticked,                    \* permissionState: the permissions ticked, and of which role
  roleLoads,                 \* effect requests under way, with what was read for them
  saves,                     \* saves under way
  touched,                   \* history: people toggled since `selected` was filled
  apart,                     \* history: since the members were read others changed them, saves
                             \* overlapped, or an error was shown
  late,                      \* history: the members on the page were read before a save or
                             \* another administrator changed them, and arrived after it
  sent, others, jumps        \* how many saves, changes by others and pages opened

server == <<exists, members, granted>>
roleForm == <<base, selected, ticked, touched>>
roleBounds == <<sent, others, jumps>>
MayMove == sent + others + jumps < MaxMoves
roleHistory == <<apart, late>>
roleVars == <<server, roleUrl, roleForm, roleLoads, saves, roleHistory, roleBounds>>

NoRole == "none"
Of(r, set) == [of |-> r, set |-> set]
Nothing == Of(NoRole, {})

(* The requests of the effect, `number` of them since the page was opened; *)
(* "late": the members were changed after they were read.                  *)
LoadsOf(r, number) ==
  {[what |-> what, role |-> r, number |-> number, state |-> "sent", got |-> {}] :
     what \in {"members", "permissions"}}
MembersOf(r) == {l \in roleLoads : l.what = "members" /\ l.role = r /\ l.state = "read"}
MakeLate(r) ==
  roleLoads' = (roleLoads \ MembersOf(r)) \cup {[l EXCEPT !.state = "late"] : l \in MembersOf(r)}

RoleInit ==
  /\ exists = Roles
  /\ members = [r \in Roles |-> IF r = AdminRole THEN People ELSE {}]
  /\ granted = [r \in Roles |-> IF r = AdminRole THEN Codes ELSE {}]
  /\ roleUrl \in Roles
  /\ base = Nothing /\ selected = {} /\ ticked = Nothing /\ touched = {}
  /\ roleLoads = LoadsOf(roleUrl, 0)
  /\ saves = {}
  /\ apart = TRUE /\ late = FALSE
  /\ sent = 0 /\ others = 0 /\ jumps = 0

-----------------------------------------------------------------------------
(* The page of another role is opened, from the history of the browser.    *)
Jump(r) ==
  /\ r # roleUrl /\ MayMove
  /\ roleUrl' = r /\ jumps' = jumps + 1
  /\ roleLoads' = roleLoads \cup LoadsOf(r, jumps')
  /\ UNCHANGED <<server, roleForm, saves, roleHistory, sent, others>>

(* create: the role is made, and its page opened.                          *)
Create(r) ==
  /\ r \notin exists /\ MayMove
  /\ exists' = exists \cup {r}
  /\ members' = [members EXCEPT ![r] = {}] /\ granted' = [granted EXCEPT ![r] = {}]
  /\ roleUrl' = r /\ jumps' = jumps + 1
  /\ roleLoads' = roleLoads \cup LoadsOf(r, jumps')
  /\ apart' = TRUE
  /\ UNCHANGED <<roleForm, saves, late, sent, others>>

(* The server reads the members or the permissions of a role.              *)
ServerReadsRole(l) ==
  /\ l.state = "sent" /\ l.role \in exists
  /\ roleLoads' = (roleLoads \ {l}) \cup
       {[l EXCEPT !.state = "read",
                  !.got = IF l.what = "members" THEN members[l.role] ELSE granted[l.role]]}
  /\ UNCHANGED <<server, roleUrl, roleForm, saves, roleHistory, roleBounds>>

(* The answers to the effect fill the page, whatever role it shows by now. *)
MembersLoaded(l) ==
  /\ l.what = "members" /\ l.state \in {"read", "late"}
  /\ roleLoads' = roleLoads \ {l}
  /\ base' = Of(l.role, l.got) /\ selected' = l.got /\ touched' = {}
  /\ late' = (l.state = "late")
  /\ apart' = (apart /\ (saves # {} \/ late'))
  /\ UNCHANGED <<server, roleUrl, ticked, saves, roleBounds>>

PermissionsLoaded(l) ==
  /\ l.what = "permissions" /\ l.state = "read"
  /\ roleLoads' = roleLoads \ {l}
  /\ ticked' = Of(l.role, l.got)
  /\ UNCHANGED <<server, roleUrl, base, selected, touched, saves, roleHistory, roleBounds>>

RoleLoadFailed(l) ==
  /\ roleLoads' = roleLoads \ {l}
  /\ apart' = TRUE
  /\ UNCHANGED <<server, roleUrl, roleForm, saves, late, roleBounds>>

(* toggleSelectedMember; everybody is listed, as a member or not.          *)
Toggle(p) ==
  /\ base # Nothing
  /\ selected' = IF p \in selected THEN selected \ {p} ELSE selected \cup {p}
  /\ touched' = touched \cup {p}
  /\ UNCHANGED <<server, roleUrl, base, ticked, roleLoads, saves, roleHistory, roleBounds>>

(* A permission is ticked or not; those of ADMIN are locked on the page.   *)
Tick(c) ==
  /\ ticked # Nothing /\ ~(roleUrl = AdminRole /\ c \in Required)
  /\ ticked' = [ticked EXCEPT !.set = IF c \in @ THEN @ \ {c} ELSE @ \cup {c}]
  /\ UNCHANGED <<server, roleUrl, base, selected, touched, roleLoads, saves, roleHistory, roleBounds>>

-----------------------------------------------------------------------------
(* Mutant: everybody selected is added, everybody else is removed.         *)
UpdateRole_WholeSet ==
  /\ base # Nothing /\ MayMove /\ sent < MaxSaves
  /\ sent' = sent + 1
  /\ saves' = saves \cup {[number |-> sent, role |-> roleUrl, adds |-> selected,
                           deletes |-> People \ selected, codes |-> ticked, touched |-> touched,
                           state |-> "members", got |-> {}]}
  /\ apart' = (apart \/ saves # {})
  /\ UNCHANGED <<server, roleUrl, roleForm, roleLoads, late, others, jumps>>

(* updateRole up to its first await: only differences to what was read.    *)
UpdateRole ==
  /\ base # Nothing /\ MayMove /\ sent < MaxSaves
  /\ sent' = sent + 1
  /\ saves' = saves \cup {[number |-> sent, role |-> roleUrl, adds |-> selected \ base.set,
                           deletes |-> base.set \ selected, codes |-> ticked, touched |-> touched,
                           state |-> "members", got |-> {}]}
  /\ apart' = (apart \/ saves # {})
  /\ UNCHANGED <<server, roleUrl, roleForm, roleLoads, late, others, jumps>>

Becomes(s, t) == saves' = (saves \ {s}) \cup {t}

(* PUT members: any of the changes may fail, unnoticed or with an error.   *)
ServerUpdatesMembers(s) ==
  /\ s.state = "members" /\ s.role \in exists
  /\ \E missed \in SUBSET (s.adds \cup s.deletes), state \in {"membersDone", "failed"} :
       /\ members' = [members EXCEPT ![s.role] = (@ \cup (s.adds \ missed)) \ (s.deletes \ missed)]
       /\ Becomes(s, [s EXCEPT !.state = state, !.got = members'[s.role]])
  /\ MakeLate(s.role)
  /\ UNCHANGED <<exists, granted, roleUrl, roleForm, roleHistory, roleBounds>>

(* Mutant: the page keeps what it has sent.                                *)
MembersAnswered_AsSent(s) ==
  /\ s.state = "membersDone"
  /\ base' = Of(s.role, selected) /\ UNCHANGED selected /\ touched' = {}
  /\ IF s.codes = Nothing
       THEN saves' = saves \ {s}
       ELSE Becomes(s, [s EXCEPT !.state = "permissions"])
  /\ late' = FALSE
  /\ UNCHANGED <<server, roleUrl, ticked, roleLoads, apart, roleBounds>>

(* The answer is the role as it is now; the permissions ticked when the    *)
(* save was sent follow.                                                   *)
MembersAnswered(s) ==
  /\ s.state = "membersDone"
  /\ base' = Of(s.role, s.got) /\ selected' = s.got /\ touched' = {}
  /\ IF s.codes = Nothing
       THEN saves' = saves \ {s}
       ELSE Becomes(s, [s EXCEPT !.state = "permissions"])
  /\ late' = FALSE
  /\ UNCHANGED <<server, roleUrl, ticked, roleLoads, apart, roleBounds>>

(* PUT permissions: the rows are replaced in one transaction; an error may *)
(* come after it, from the claims.                                         *)
ServerUpdatesPermissions(s) ==
  /\ s.state = "permissions" /\ s.role \in exists
  /\ \E stored, ok \in BOOLEAN :
       /\ ok => stored
       /\ granted' = [granted EXCEPT ![s.role] =
                        IF ~stored THEN @
                        ELSE s.codes.set \cup (IF s.role = AdminRole THEN Required ELSE {})]
       /\ Becomes(s, [s EXCEPT !.state = IF ok THEN "permissionsDone" ELSE "failed",
                               !.got = granted'[s.role]])
  /\ UNCHANGED <<exists, members, roleUrl, roleForm, roleLoads, roleHistory, roleBounds>>

PermissionsAnswered(s) ==
  /\ s.state = "permissionsDone"
  /\ ticked' = Of(s.role, s.got)
  /\ saves' = saves \ {s}
  /\ UNCHANGED <<server, roleUrl, base, selected, touched, roleLoads, roleHistory, roleBounds>>

(* An error, a role that is gone, or a request that is lost.               *)
SaveFailed(s) ==
  /\ s.state \in {"members", "permissions", "failed"}
  /\ saves' = saves \ {s}
  /\ apart' = TRUE
  /\ UNCHANGED <<server, roleUrl, roleForm, roleLoads, late, roleBounds>>

-----------------------------------------------------------------------------
(* Another administrator saves a role, or removes one other than ADMIN.    *)
OthersMove(r, p) ==
  /\ MayMove /\ r \in exists
  /\ others' = others + 1
  /\ members' = [members EXCEPT ![r] = IF p \in @ THEN @ \ {p} ELSE @ \cup {p}]
  /\ MakeLate(r)
  /\ apart' = TRUE
  /\ UNCHANGED <<exists, granted, roleUrl, roleForm, saves, late, sent, jumps>>

RemoveRole(r) ==
  /\ MayMove /\ r \in exists \ {AdminRole}
  /\ others' = others + 1
  /\ exists' = exists \ {r}
  /\ members' = [members EXCEPT ![r] = {}] /\ granted' = [granted EXCEPT ![r] = {}]
  /\ MakeLate(r)
  /\ apart' = TRUE
  /\ UNCHANGED <<roleUrl, roleForm, saves, late, sent, jumps>>

RoleNext ==
  \/ \E r \in Roles : Jump(r) \/ Create(r) \/ RemoveRole(r)
  \/ \E l \in roleLoads : \/ ServerReadsRole(l) \/ MembersLoaded(l)
                          \/ PermissionsLoaded(l) \/ RoleLoadFailed(l)
  \/ \E p \in People : Toggle(p) \/ \E r \in Roles : OthersMove(r, p)
  \/ \E c \in Codes : Tick(c)
  \/ UpdateRole
  \/ \E s \in saves : \/ ServerUpdatesMembers(s) \/ MembersAnswered(s)
                      \/ ServerUpdatesPermissions(s) \/ PermissionsAnswered(s) \/ SaveFailed(s)

RoleSpec == RoleInit /\ [][RoleNext]_roleVars

-----------------------------------------------------------------------------
RoleTypeOK ==
  /\ exists \subseteq Roles /\ AdminRole \in exists
  /\ members \in [Roles -> SUBSET People] /\ granted \in [Roles -> SUBSET Codes]
  /\ roleUrl \in Roles
  /\ base.of \in Roles \cup {NoRole} /\ base.set \subseteq People
  /\ ticked.of \in Roles \cup {NoRole} /\ ticked.set \subseteq Codes
  /\ selected \subseteq People /\ touched \subseteq People
  /\ apart \in BOOLEAN /\ late \in BOOLEAN

MovesToggledPeople ==
  \A r \in Roles, p \in People :
     ((p \in members[r]) # (p \in members'[r]))
       => others' # others \/ \E s \in saves : s.role = r /\ p \in s.touched

(* A save moves only people the administrator has toggled himself: what    *)
(* others did to the same role while the page was open stays, even if the  *)
(* page was still filled from another role when it was saved.              *)
OnlyToggledPeopleMove == [][MovesToggledPeople]_roleVars

(* When nothing is under way the page shows the role as it is stored, also *)
(* where a change of a person failed unnoticed or an older answer arrived  *)
(* before that of a save: except for what has been toggled since, and      *)
(* until others change the role or an error is shown.  Exempt is also a    *)
(* page on which members that were read before a save arrived after it.    *)
PageShowsTheRole ==
  (roleLoads = {} /\ saves = {} /\ ~apart /\ ~late /\ base.of = roleUrl)
    => \A p \in People \ touched : (p \in selected) <=> (p \in members[roleUrl])

=============================================================================
