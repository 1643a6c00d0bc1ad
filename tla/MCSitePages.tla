------------------------------ MODULE MCSitePages ------------------------------
(***************************************************************************)
(* Pages of the browser application on small instances.  The router mounts *)
(* one page and a page that is left loses its state, so a behaviour is one *)
(* of a single page, `mounted`; the router itself and the tables count as  *)
(* pages here.  The variables of a page that is not mounted stay at one    *)
(* initial state.                                                          *)
(***************************************************************************)
EXTENDS FinanceRegister, PostingsTable, FinanceDetail, FinanceOverview, RoleEditor, PagedTable,
        SiteRouter, TLC

CONSTANT Mounted  \* the pages to check

VARIABLE mounted

allVars == <<mounted, registerVars, postingsVars, formVars, overviewVars, roleVars, tableVars,
             routerVars>>

-----------------------------------------------------------------------------
(* Overviews with no account, accounts that share a sub-account or its     *)
(* context or cancel each other, posting groups of one or several contexts,*)
(* and with either kind of movements.                                      *)
AccountOf(id, main, sub, context, n, before) ==
  [id |-> id, main |-> main, sub |-> sub, context |-> context,
   realized |-> n, budget |-> 3 * n, previous |-> before]
A(n) == AccountOf(1, 1, 1, 1, n, 0)
B(n) == AccountOf(2, 1, 1, 1, n, 4)
C(n) == AccountOf(3, 1, 1, 2, n, 0)
Z(n) == AccountOf(4, 2, 1, 1, n, -1)
Bank(amount, posted) == [amount |-> amount, balance |-> 7, posted |-> posted]
Mobile(amount, posted) == [amount |-> amount, posted |-> posted]
Card(posted) == [amount |-> 9, fee |-> 2, net |-> 7, posted |-> posted]
GroupOf(name, n) == [name |-> name, amount |-> n, previous |-> 2]
Answer(accounts, groups, bank, mobilePay, stripe) ==
  [accounts |-> accounts, groups |-> groups, bank |-> bank, mobilePay |-> mobilePay,
   stripe |-> stripe, year |-> 1]
AllOverviews == {
  Answer(<<>>, <<>>, <<Bank(4, 4)>>, <<>>, <<>>),
  Answer(<<A(5)>>, <<GroupOf(1, 4)>>, <<>>, <<Mobile(6, 2)>>, <<Card(7), Card(0)>>),
  Answer(<<A(5), B(-2)>>, <<GroupOf(1, 4), GroupOf(2, 4)>>, <<Bank(4, 0), Bank(0, 3)>>, <<>>,
         <<Card(0)>>),
  Answer(<<A(5), B(-5), C(1)>>, <<GroupOf(2, 3), GroupOf(1, 0), GroupOf(2, -3)>>, <<>>,
         <<Mobile(1, 1), Mobile(3, 0)>>, <<>>),
  Answer(<<C(-1), A(0), Z(2), B(0)>>, <<GroupOf(1, 1), GroupOf(1, 1)>>, <<>>, <<>>, <<>>),
  Answer(<<Z(3), C(3), C(3)>>, <<>>, <<Bank(1, 0)>>, <<>>, <<>>)}

(* Every path the routing tables tell apart, with one id of each kind, and *)
(* users with every single permission and some pairs.                      *)
AllPermissions == {"content", "registrations", "templates", "messages", "roles",
                   "financeView", "financeEdit", "payments"}
AdminPages == {"events", "news", "products", "subscriptions", "subscription", "messages",
               "templates", "users", "roles", "finance"}
FinancePages == {"postings", "csv-import", "budgets", "chart-of-accounts", "posting-groups"}
Bookmarks ==
  {<<>>, <<"admin">>, <<"Role">>, <<"Role", "Update", "r">>, <<"Users", "Expanded">>,
   <<"Messages">>, <<"events", "r">>, <<"events", "r", "pay", "1">>}
  \cup {<<"admin", x>> : x \in AdminPages}
  \cup {<<"admin", x, y>> : x \in AdminPages, y \in {"new", "1"}}
  \cup {<<"admin", x, "1", "edit">> : x \in AdminPages}
  \cup {<<"admin", "finance", x>> : x \in FinancePages}
  \cup {<<"admin", "finance", "postings", "edit">>, <<"admin", "finance", "postings", "r">>,
        <<"admin", "finance", "budgets", "r">>, <<"admin", "users", "r", "subscriptions">>}

ASSUME BookmarksAssumption == Bookmarks \subseteq Seq(Segments)

-----------------------------------------------------------------------------
(* One posting of year 1 is stored at first; the router is opened at the   *)
(* bookmarks, the role editor at a role that may be removed.               *)
OnePosting ==
  [p \in Postings |-> IF p[2] = 0 THEN CHOOSE c \in Contents : c.year = 1 ELSE NoContent]

Init ==
  /\ mounted \in Mounted
  /\ RegisterInit /\ (mounted # "register" => page = "budgets")
  /\ PostingsInit /\ stored = OnePosting /\ (mounted # "postings" => mode = "view" /\ year = 1)
  /\ FormInit /\ (mounted # "detail" => kind = "group")
  /\ OverviewInit /\ (mounted # "overview" => overviewYear = 1)
  /\ RoleInit /\ roleUrl = "board"
  /\ TableInit /\ (mounted # "table" => table = SourceTable)
  /\ \E p \in Bookmarks : OpenedAt(p) /\ (mounted # "router" => p = <<>>)

Mount(it) == mounted = it /\ UNCHANGED mounted

Next ==
  \/ /\ Mount("register") /\ RegisterNext
     /\ UNCHANGED <<postingsVars, formVars, overviewVars, roleVars, tableVars, routerVars>>
  \/ /\ Mount("postings") /\ PostingsNext
     /\ UNCHANGED <<registerVars, formVars, overviewVars, roleVars, tableVars, routerVars>>
  \/ /\ Mount("detail") /\ FormNext
     /\ UNCHANGED <<registerVars, postingsVars, overviewVars, roleVars, tableVars, routerVars>>
  \/ /\ Mount("overview") /\ OverviewNext
     /\ UNCHANGED <<registerVars, postingsVars, formVars, roleVars, tableVars, routerVars>>
  \/ /\ Mount("roles") /\ RoleNext
     /\ UNCHANGED <<registerVars, postingsVars, formVars, overviewVars, tableVars, routerVars>>
  \/ /\ Mount("table") /\ TableNext
     /\ UNCHANGED <<registerVars, postingsVars, formVars, overviewVars, roleVars, routerVars>>
  \/ /\ Mount("router") /\ RouterNext
     /\ UNCHANGED <<registerVars, postingsVars, formVars, overviewVars, roleVars, tableVars>>

Spec == Init /\ [][Next]_allVars

-----------------------------------------------------------------------------
(* Every variable of every page keeps its type.                            *)
TypeOK ==
  /\ RegisterTypeOK /\ PostingsTypeOK /\ FormTypeOK /\ OverviewTypeOK
  /\ RoleTypeOK /\ TableTypeOK /\ RouterTypeOK

=============================================================================
