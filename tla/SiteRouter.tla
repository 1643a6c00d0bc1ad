------------------------------- MODULE SiteRouter -------------------------------
(***************************************************************************)
(* The router of the browser application: which page a URL shows, which    *)
(* URLs a user without a permission is sent away from, and which links the *)
(* menus offer.  Three tables written in three files answer these          *)
(* questions (renderRoute in app/main.jsx, adminPermissionForPath in       *)
(* utils/access.js, the menus of routes/navigation.jsx and AdminLayout.jsx)*)
(* and have to agree.  A path is the sequence of its segments.             *)
(***************************************************************************)
EXTENDS Naturals, Sequences, FiniteSets, SequencesExt

CONSTANTS
  Segments,   \* what may stand between two slashes of a URL
  Numbers,    \* segments that are numbers
  Users,      \* sets of permissions an account may have
  MaxHistory  \* bound: entries of the browser's history

Permissions == {"content", "registrations", "templates", "messages", "roles",
                "financeView", "financeEdit", "payments"}

(* The segments of the paths the menus link to.                            *)
LinkedSegments == {"account", "admin", "budgets", "chart-of-accounts", "csv-import", "edit",
                   "events", "finance", "login", "manage", "messages", "news", "posting-groups",
                   "postings", "products", "register", "roles", "subscriptions", "templates",
                   "users"}

ASSUME RouterAssumption ==
  /\ LinkedSegments \subseteq Segments
  /\ Users \subseteq SUBSET Permissions /\ {} \in Users
  /\ MaxHistory \in Nat \ {0}

VARIABLES
  entries,  \* the browser's history
  at,       \* the entry shown
  user      \* useCurrentUser: asked for once for each load of the application

routerVars == <<entries, at, user>>

None == "none"
Path == entries[at]
Loading == [isLoading |-> TRUE, permissions |-> {}]
Known(ps) == [isLoading |-> FALSE, permissions |-> ps]

HasPermission(u, p) ==
  p \in u.permissions \/ (p = "financeView" /\ "financeEdit" \in u.permissions)

-----------------------------------------------------------------------------
(* A pattern is a path in which "*" stands for any segment and "#" for a   *)
(* number.  A rule applies to the paths that fit one of its patterns and   *)
(* to those below one of its prefixes; the first rule that applies counts. *)
Fits(p, pattern) ==
  /\ Len(p) = Len(pattern)
  /\ \A i \in 1 .. Len(p) :
       pattern[i] = p[i] \/ pattern[i] = "*" \/ (pattern[i] = "#" /\ p[i] \in Numbers)

Applies(rule, p) ==
  \/ \E q \in rule.is : Fits(p, q)
  \/ \E q \in rule.under : IsStrictPrefix(q, p)

FirstRule(rules, p, else) ==
  LET hits == {i \in DOMAIN rules : Applies(rules[i], p)} IN
  IF hits = {} THEN else ELSE rules[CHOOSE i \in hits : \A j \in hits : i <= j].then

Rule(is, under, then) == [is |-> is, under |-> under, then |-> then]
AdminPath(x) == <<"admin", x>>
Finance(x) == <<"admin", "finance", x>>

(* adminPermissionForPath: what the URL itself asks for.                   *)
GateRules == <<
  Rule({AdminPath("events"), <<"admin", "events", "new">>}, {}, "content"),
  Rule({AdminPath("news")}, {AdminPath("news")}, "content"),
  Rule({AdminPath("products"), AdminPath("subscriptions"), AdminPath("subscription")},
       {AdminPath("products"), AdminPath("subscriptions"), AdminPath("subscription")}, "payments"),
  Rule({AdminPath("messages")}, {}, "messages"),
  Rule({AdminPath("templates")}, {AdminPath("templates")}, "templates"),
  Rule({AdminPath("users"), AdminPath("roles")}, {AdminPath("users"), AdminPath("roles")}, "roles"),
  Rule({<<"admin", "finance", "postings", "edit">>}, {}, "financeEdit"),
  Rule({AdminPath("finance"), Finance("postings")}, {Finance("postings")}, "financeView"),
  Rule({}, {AdminPath("finance")}, "financeEdit") >>

(* Mutant: the editable postings are taken for one more posting.           *)
AdminPermissionForPath_PostingsFirst(p) ==
  FirstRule(SelectSeq(GateRules, LAMBDA r : r.is # {<<"admin", "finance", "postings", "edit">>}),
            p, None)

AdminPermissionForPath(p) == FirstRule(GateRules, p, None)

(* adminDestinations, in the order in which a user is sent to them.        *)
Destinations == <<
  [path |-> AdminPath("events"), needs |-> "content"],
  [path |-> AdminPath("products"), needs |-> "payments"],
  [path |-> AdminPath("subscriptions"), needs |-> "payments"],
  [path |-> AdminPath("messages"), needs |-> "messages"],
  [path |-> AdminPath("templates"), needs |-> "templates"],
  [path |-> AdminPath("users"), needs |-> "roles"],
  [path |-> AdminPath("finance"), needs |-> "financeView"] >>

CanAccessAdmin(u) == \E i \in DOMAIN Destinations : HasPermission(u, Destinations[i].needs)

FirstAdminPath(u) ==
  LET open == {i \in DOMAIN Destinations : HasPermission(u, Destinations[i].needs)} IN
  IF open = {} THEN <<"events">> ELSE Destinations[CHOOSE i \in open : \A j \in open : i <= j].path

-----------------------------------------------------------------------------
(* renderRoute: the page, and the permission behind its isAdmin.           *)
Page(page, needs) == [page |-> page, needs |-> needs]

PublicRules == <<
  Rule({<<>>, <<"Home">>, <<"Home", "Index">>}, {}, Page("front", None)),
  Rule({<<"events">>, <<"arrangementer">>, <<"Home", "Arrangementer">>}, {}, Page("events", None)),
  Rule({<<"news">>}, {}, Page("news", None)),
  Rule({<<"members">>, <<"Users">>}, {}, Page("members", None)),
  Rule({<<"calendar">>, <<"Calendar">>}, {}, Page("calendar", None)),
  Rule({<<"Library">>}, {}, Page("library", None)),
  Rule({<<"pay">>, <<"Pay">>, <<"Pay", "Index">>}, {}, Page("pay", None)),
  Rule({<<"finance">>}, {}, Page("finance", None)),
  Rule({<<"pay", "success">>, <<"Pay", "Success">>, <<"pay", "kontingent-success">>,
        <<"pay", "cancel">>, <<"Pay", "Cancel">>, <<"events", "*", "pay", "success">>}, {},
       Page("paymentStatus", None)),
  Rule({<<"events", "*", "pay", "#">>}, {}, Page("eventPayment", None)) >>

AccountRules == <<
  Rule({<<"om">>, <<"betingelser">>, <<"Home", "Betingelser">>, <<"cookies">>,
        <<"Home", "Cookies">>}, {}, Page("static", None)),
  Rule({<<"account", "login">>, <<"account", "register">>, <<"account", "forgot-password">>,
        <<"account", "resend-email-confirmation">>}, {}, Page("signIn", None)),
  Rule({<<"account", "events">>}, {}, Page("accountEvents", None)),
  Rule({<<"account", "manage">>} \cup
         {<<"account", "manage", s>> : s \in {"email", "password", "two-factor", "subscriptions",
            "finance", "personal-data", "delete-personal-data", "logout"}}, {},
       Page("account", None)),
  Rule({<<"events", "*", "registrations">>}, {}, Page("registrations", None)),
  Rule({}, {<<"events">>}, Page("event", None)),
  Rule({}, {<<"news">>}, Page("newsItem", None)) >>

AdminRules == <<
  Rule({AdminPath("news")}, {}, Page("content", "content")),
  Rule({<<"admin", "products", "#", "edit">>, AdminPath("products")}, {},
       Page("products", "payments")),
  Rule({AdminPath("subscriptions"), <<"admin", "subscription", "#">>}, {},
       Page("subscriptions", "payments")),
  Rule({AdminPath("finance")}, {}, Page("financeOverview", "financeView")),
  Rule({Finance("postings")}, {}, Page("postings", "financeView")),
  Rule({<<"admin", "finance", "postings", "edit">>}, {}, Page("cashier", "financeEdit")),
  Rule({Finance("csv-import"), Finance("budgets"), Finance("chart-of-accounts"),
        Finance("posting-groups")}, {}, Page("register", "financeEdit")),
  Rule({<<"admin", "finance", "posting-groups", "*">>, <<"admin", "finance", "budgets", "*">>}, {},
       Page("record", "financeEdit")),
  Rule({<<"admin", "finance", "postings", "*">>}, {}, Page("posting", "financeView")),
  Rule({<<"admin", "news", "new">>, <<"admin", "news", "#", "edit">>}, {},
       Page("contentEditor", "content")) >>

MoreAdminRules == <<
  Rule({AdminPath("templates")}, {}, Page("templates", "templates")),
  Rule({<<"admin", "templates", "new">>, <<"admin", "templates", "#", "edit">>}, {},
       Page("templateEditor", "templates")),
  Rule({<<"admin", "users", "*", "subscriptions">>}, {}, Page("memberSubscriptions", "roles")),
  Rule({AdminPath("users"), <<"Users", "Expanded">>, <<"Users", "UpdateMass">>}, {},
       Page("adminMembers", "roles")),
  Rule({AdminPath("messages"), <<"Messages">>}, {}, Page("messages", "messages")),
  Rule({<<"admin", "roles", "new">>, <<"Role", "Create">>, <<"admin", "roles", "*", "edit">>,
        <<"Role", "Update", "*">>}, {}, Page("roleEditor", "roles")),
  Rule({AdminPath("roles"), <<"Role">>}, {}, Page("roles", "roles")),
  Rule({AdminPath("events")}, {}, Page("content", "content")),
  Rule({<<"admin", "events", "new">>, <<"admin", "events", "#", "edit">>}, {},
       Page("contentEditor", "content")) >>

Redirect == Page("redirect", None)
Gated(u, p) ==
  LET needs == AdminPermissionForPath(p) IN
  p = <<"admin">> \/ (needs # None /\ ~HasPermission(u, needs))

PageOf(u, p) ==
  IF Gated(u, p) THEN Redirect
  ELSE FirstRule(PublicRules \o AccountRules \o AdminRules \o MoreAdminRules, p,
                 Page("front", None))

ShownPage == PageOf(user, Path)

-----------------------------------------------------------------------------
Item(path, needs) == [path |-> path, needs |-> {needs}]

AdminMenu == {Item(AdminPath("events"), "content"), Item(AdminPath("news"), "content"),
  Item(AdminPath("products"), "payments"), Item(AdminPath("subscriptions"), "payments"),
  Item(AdminPath("messages"), "messages"), Item(AdminPath("templates"), "templates"),
  Item(AdminPath("users"), "roles"), Item(AdminPath("roles"), "roles"),
  Item(AdminPath("finance"), "financeView")}

BackToAdmin ==
  [path |-> AdminPath("events"), needs |-> {"content", "roles", "templates", "messages"}]

FinanceMenu == {BackToAdmin,
  Item(AdminPath("finance"), "financeView"), Item(Finance("postings"), "financeView"),
  Item(Finance("csv-import"), "financeEdit"),
  Item(<<"admin", "finance", "postings", "edit">>, "financeEdit"),
  Item(Finance("chart-of-accounts"), "financeEdit"),
  Item(Finance("posting-groups"), "financeEdit"), Item(Finance("budgets"), "financeEdit")}

(* Mutant: one permission of an item is not looked at.                     *)
AdminLayout_AnyItem(u, p) ==
  {item \in IF IsPrefix(AdminPath("finance"), p) THEN FinanceMenu ELSE AdminMenu :
     \/ Cardinality(item.needs) > 1
     \/ \E needs \in item.needs : HasPermission(u, needs)}

(* AdminLayout: the items a user may see; also on a page that refuses him. *)
AdminLayout(u, p) ==
  {item \in IF IsPrefix(AdminPath("finance"), p) THEN FinanceMenu ELSE AdminMenu :
     \E needs \in item.needs : HasPermission(u, needs)}

(* The links of the header and of the admin pages' menu.                   *)
Links ==
  {<<>>, <<"events">>}
  \cup (IF CanAccessAdmin(user) THEN {FirstAdminPath(user)} ELSE {})
  \cup (IF ShownPage.needs # None THEN {item.path : item \in AdminLayout(user, Path)} ELSE {})
  \cup (IF user.isLoading THEN {}
        ELSE {<<"account", "manage">>, <<"account", "login">>, <<"account", "register">>})

-----------------------------------------------------------------------------
(* A path is opened from outside the application.                          *)
OpenedAt(p) ==
  /\ entries = <<p>> /\ at = 1
  /\ user = Loading

RouterInit == \E p \in Seq(Segments) : OpenedAt(p)

(* GET api/me: a visitor and a failed request have no permissions.         *)
MeAnswered ==
  /\ user.isLoading
  /\ \E ps \in Users : user' = Known(ps)
  /\ UNCHANGED <<entries, at>>

(* Mutant: the entries after this one are kept.                            *)
Follow_KeepsForward(p) ==
  /\ at < MaxHistory
  /\ entries' = Append(entries, p)
  /\ at' = at + 1
  /\ UNCHANGED user

(* navigate: pushState forgets the entries after this one.                 *)
Follow(p) ==
  /\ at < MaxHistory
  /\ entries' = Append(SubSeq(entries, 1, at), p)
  /\ at' = at + 1
  /\ UNCHANGED user

(* popstate: the user goes back or forward.                                *)
Travel(n) ==
  /\ n # at
  /\ at' = n
  /\ UNCHANGED <<entries, user>>

(* AdminRedirectPage: replaceState, once it is known where to.             *)
RedirectAway ==
  /\ ShownPage = Redirect /\ ~user.isLoading
  /\ entries' = [entries EXCEPT ![at] = FirstAdminPath(user)]
  /\ UNCHANGED <<at, user>>

(* The page is loaded again: the user is asked for again.                  *)
Reload ==
  /\ ~user.isLoading
  /\ user' = Loading
  /\ UNCHANGED <<entries, at>>

RouterNext ==
  \/ MeAnswered
  \/ \E p \in Links : Follow(p)
  \/ \E n \in 1 .. Len(entries) : Travel(n)
  \/ RedirectAway
  \/ Reload

RouterSpec == RouterInit /\ [][RouterNext]_routerVars

-----------------------------------------------------------------------------
RouterTypeOK ==
  /\ Len(entries) \in 1 .. MaxHistory /\ at \in 1 .. Len(entries)
  /\ user \in {Loading} \cup {Known(ps) : ps \in Users}

(* A gated URL that lets a user in shows him a page that lets him in: the  *)
(* gate on the path asks for no less than the permission behind the page's *)
(* isAdmin, for every path that is opened, every set of permissions and any*)
(* history.  Not the converse: some pages have no gate and check alone.    *)
GateAndPageAgree ==
  (~user.isLoading /\ AdminPermissionForPath(Path) # None /\ ~Gated(user, Path))
    => (ShownPage.needs # None => HasPermission(user, ShownPage.needs))

(* Every item a menu offers leads to a page its reader may use, without a  *)
(* detour; the way back from the finance pages leads to another admin page,*)
(* directly or by one redirect (the menus of AdminLayout and the header).  *)
MenuItemsLeadSomewhere ==
  ~user.isLoading =>
    /\ CanAccessAdmin(user) => PageOf(user, FirstAdminPath(user)).needs # None
    /\ ShownPage.needs # None =>
         \A item \in AdminLayout(user, Path) :
           LET p == IF item = BackToAdmin /\ Gated(user, item.path) THEN FirstAdminPath(user)
                    ELSE item.path IN
           /\ PageOf(user, p).needs # None /\ HasPermission(user, PageOf(user, p).needs)
           /\ item = BackToAdmin => ~IsPrefix(AdminPath("finance"), p)

=============================================================================
