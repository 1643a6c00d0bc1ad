---------------------------- MODULE FinanceOverview ----------------------------
(***************************************************************************)
(* The overview of the association's finances and the workbook made from   *)
(* it.  The page shows the accounts grouped and added up; the workbook has *)
(* the same accounts with totals that are formulas, each written next to   *)
(* the value the browser computed.  A spreadsheet program computes the     *)
(* formulas again, so the two have to agree.  Amounts are whole øre.       *)
(***************************************************************************)
EXTENDS Integers, Sequences, FiniteSets, SequencesExt

CONSTANTS
  OverviewYears,
  Names,         \* what accounts and their groups are told apart by
  Overviews,     \* overviews the server may answer
  MaxOverviews,  \* bound: loads under way
  MaxChoices     \* bound: changes of the year

Account == [id : Names, main : Names, sub : Names, context : Names,
            realized : Int, budget : Int, previous : Int]
Group == [name : Names, amount : Int, previous : Int]
Overview == [accounts : Seq(Account), groups : Seq(Group),
             bank : Seq([amount : Int, balance : Int, posted : Int]),
             mobilePay : Seq([amount : Int, posted : Int]),
             stripe : Seq([amount : Int, fee : Int, net : Int, posted : Int]),
             year : OverviewYears]

NoData == [accounts |-> <<>>, groups |-> <<>>, bank |-> <<>>, mobilePay |-> <<>>,
           stripe |-> <<>>, year |-> 0]

ASSUME OverviewAssumption ==
  /\ 0 \notin OverviewYears
  /\ Overviews \subseteq Overview
  /\ MaxOverviews \in Nat /\ MaxChoices \in Nat

VARIABLES
  overviewYear,  \* the year selected
  choices,       \* bound: changes of the year so far
  data,          \* the overview shown, or NoData
  overviews,     \* the years of the loads under way
  open,          \* AccountTable: the sub-accounts whose contexts are shown
  book           \* the workbook made last

overviewVars == <<overviewYear, choices, data, overviews, open, book>>

-----------------------------------------------------------------------------
(* total: the sum of one field of all rows.                                *)
Total(rows, key) == SumFunction([i \in DOMAIN rows |-> rows[i][key]])

(* hasFinanceValue: half an øre or more, of either sign, in any figure.    *)
Figures == {"realized", "budget", "previous"}
HasFinanceValue(a) == \E figure \in Figures : a[figure] # 0

Listed(accounts) == {i \in DOMAIN accounts : HasFinanceValue(accounts[i])}
SubAccount(a) == <<a.main, a.sub>>
Subs(accounts) == {SubAccount(accounts[i]) : i \in Listed(accounts)}
AccountsOf(accounts, s) == {i \in Listed(accounts) : SubAccount(accounts[i]) = s}

(* Mutant: an account of a context that is listed already is left out.     *)
AccountGroups_FirstOnly(accounts, s) ==
  [c \in {accounts[i].context : i \in AccountsOf(accounts, s)} |->
     accounts[Min({i \in AccountsOf(accounts, s) : accounts[i].context = c})]]

(* accountGroups: the rows of a sub-account, one for each context; accounts*)
(* of one context are added up in the row of the first.                    *)
AccountGroups(accounts, s) ==
  [c \in {accounts[i].context : i \in AccountsOf(accounts, s)} |->
     LET same == {i \in AccountsOf(accounts, s) : accounts[i].context = c}
         rows == Restrict(accounts, same) IN
     [accounts[Min(same)] EXCEPT !.realized = Total(rows, "realized"),
                                 !.budget = Total(rows, "budget"),
                                 !.previous = Total(rows, "previous")]]

(* AccountTable: the sums shown for each sub-account, and the contexts     *)
(* below it when it is open.                                               *)
AccountTable(accounts) ==
  [s \in Subs(accounts) |->
     LET rows == AccountGroups(accounts, s) IN
     [realized |-> Total(rows, "realized"), budget |-> Total(rows, "budget"),
      previous |-> Total(rows, "previous"),
      contexts |-> IF s \in open THEN DOMAIN rows ELSE {}]]

(* GroupTable: the posting groups by name, each with its contexts.         *)
GroupTable(groups) ==
  [name \in {groups[i].name : i \in DOMAIN groups} |->
     LET rows == Restrict(groups, {i \in DOMAIN groups : groups[i].name = name}) IN
     [amount |-> Total(rows, "amount"), previous |-> Total(rows, "previous"),
      contexts |-> DOMAIN rows]]

-----------------------------------------------------------------------------
(* A sheet is the sequence of its rows below the headings, so that row i is*)
(* row i + 1 of the spreadsheet.  Formulas name a column by its letter, the*)
(* code that computes their values by its index, which starts at 0.        *)
Column == [A |-> 1, B |-> 2, C |-> 3, D |-> 4, E |-> 5, F |-> 6, G |-> 7, H |-> 8, I |-> 9,
           J |-> 10, K |-> 11, L |-> 12, M |-> 13]

Text == [is |-> "text", value |-> 0]
Num(v) == [is |-> "number", value |-> v]
Diff(a, b, i, v) ==
  [is |-> "difference", minuend |-> a, subtrahend |-> b, row |-> i + 1, value |-> v]

(* Mutant: the total's formula ends one row late.                          *)
SumOf_TooFar(rows, letter, index) ==
  [is |-> "sum", column |-> letter, last |-> Len(rows) + 2,
   value |-> Total([i \in DOMAIN rows |-> rows[i][index + 1]], "value")]

(* SUM(X2:Xn) of a column and the sum the browser computed.                *)
SumOf(rows, letter, index) ==
  [is |-> "sum", column |-> letter, last |-> Len(rows) + 1,
   value |-> Total([i \in DOMAIN rows |-> rows[i][index + 1]], "value")]

(* A sheet with rows gets the row TOTAL at its end.                        *)
WithTotal(rows, total) == IF rows = <<>> THEN rows ELSE Append(rows, total)

AccountSheet(accounts) ==
  LET rows == [i \in DOMAIN accounts |->
                 <<Text, Text, Text, Text, Num(accounts[i].realized), Num(accounts[i].budget),
                   Num(accounts[i].previous)>>] IN
  WithTotal(rows, <<Text, Text, Text, Text, SumOf(rows, "E", 4), SumOf(rows, "F", 5),
                    SumOf(rows, "G", 6)>>)

GroupSheet(groups) ==
  LET rows == [i \in DOMAIN groups |->
                 <<Text, Text, Text, Num(groups[i].amount), Num(groups[i].previous)>>] IN
  WithTotal(rows, <<Text, Text, Text, SumOf(rows, "D", 3), SumOf(rows, "E", 4)>>)

(* sourceWithTotal, which is called for the transfers with their balance.  *)
SourceSheet(transfers) ==
  LET difference(i) == Diff("D", "F", i, transfers[i].amount - transfers[i].posted)
      rows == [i \in DOMAIN transfers |->
                 <<Text, Text, Text, Num(transfers[i].amount), Num(transfers[i].balance),
                   Num(transfers[i].posted), difference(i)>>] IN
  WithTotal(rows, <<Text, Text, Text, SumOf(rows, "D", 3), Text, SumOf(rows, "F", 5),
                    SumOf(rows, "G", 6)>>)

MobilePaySheet(transfers) ==
  LET difference(i) == Diff("H", "I", i, transfers[i].amount - transfers[i].posted)
      rows == [i \in DOMAIN transfers |->
                 <<Text, Text, Text, Text, Text, Text, Text, Num(transfers[i].amount),
                   Num(transfers[i].posted), difference(i)>>] IN
  WithTotal(rows, <<Text, Text, Text, Text, Text, Text, Text, SumOf(rows, "H", 7),
                    SumOf(rows, "I", 8), SumOf(rows, "J", 9)>>)

StripeSheet(payments) ==
  LET difference(i) == Diff("K", "L", i, payments[i].net - payments[i].posted)
      rows == [i \in DOMAIN payments |->
                 <<Text, Text, Text, Text, Text, Text, Text, Text, Num(payments[i].amount),
                   Num(payments[i].fee), Num(payments[i].net), Num(payments[i].posted),
                   difference(i)>>] IN
  WithTotal(rows, <<Text, Text, Text, Text, Text, Text, Text, Text, SumOf(rows, "I", 8),
                    SumOf(rows, "J", 9), SumOf(rows, "K", 10), SumOf(rows, "L", 11),
                    SumOf(rows, "M", 12)>>)

NoBook == <<>>
BuildFinanceWorkbook(d) ==
  <<AccountSheet(d.accounts), GroupSheet(d.groups), SourceSheet(d.bank),
    MobilePaySheet(d.mobilePay), StripeSheet(d.stripe)>>

-----------------------------------------------------------------------------
OverviewInit ==
  /\ overviewYear \in OverviewYears /\ choices = 0
  /\ data = NoData
  /\ overviews = <<overviewYear>>
  /\ open = {}
  /\ book = NoBook

(* setYear, and the effect that forgets the figures and loads the year's;  *)
(* the tables go with the figures.                                         *)
ChooseYear(y) ==
  /\ y # overviewYear /\ choices < MaxChoices /\ Len(overviews) < MaxOverviews
  /\ overviewYear' = y /\ choices' = choices + 1
  /\ data' = NoData /\ open' = {}
  /\ overviews' = Append(overviews, y)
  /\ UNCHANGED book

(* adminOverview answered: no load is cancelled, the last answer is shown. *)
OverviewAnswered(i) ==
  /\ \E d \in Overviews : data' = [d EXCEPT !.year = overviews[i]]
  /\ overviews' = RemoveAt(overviews, i)
  /\ UNCHANGED <<overviewYear, choices, open, book>>

OverviewFailed(i) ==
  /\ overviews' = RemoveAt(overviews, i)
  /\ UNCHANGED <<overviewYear, choices, data, open, book>>

(* The button of a sub-account.                                            *)
ToggleSubAccount(s) ==
  /\ open' = IF s \in open THEN open \ {s} ELSE open \cup {s}
  /\ UNCHANGED <<overviewYear, choices, data, overviews, book>>

(* setTab: another table is shown, and later this one again, made anew.    *)
SetTab ==
  /\ data # NoData
  /\ open' = {}
  /\ UNCHANGED <<overviewYear, choices, data, overviews, book>>

(* The export asks for the overview of its year itself (PostingsTable.tla  *)
(* models the requests); here it finds the figures the page shows.         *)
ExportWorkbook ==
  /\ data # NoData
  /\ book' = BuildFinanceWorkbook(data)
  /\ UNCHANGED <<overviewYear, choices, data, overviews, open>>

OverviewNext ==
  \/ \E y \in OverviewYears : ChooseYear(y)
  \/ \E i \in DOMAIN overviews : OverviewAnswered(i) \/ OverviewFailed(i)
  \/ \E s \in Subs(data.accounts) : ToggleSubAccount(s)
  \/ SetTab
  \/ ExportWorkbook

OverviewSpec == OverviewInit /\ [][OverviewNext]_overviewVars

-----------------------------------------------------------------------------
OverviewTypeOK ==
  /\ overviewYear \in OverviewYears /\ choices \in 0 .. MaxChoices
  /\ data \in Overview \cup {NoData}
  /\ overviews \in Seq(OverviewYears)
  /\ open \subseteq Names \X Names

(* What a spreadsheet program computes for a cell: row n of the spreadsheet*)
(* is row n - 1 of the sequence.                                           *)
Computed(sheet, cell) ==
  CASE cell.is = "sum" ->
         Total([r \in 1 .. cell.last - 1 |-> sheet[r][Column[cell.column]]], "value")
    [] cell.is = "difference" ->
         sheet[cell.row - 1][Column[cell.minuend]].value
           - sheet[cell.row - 1][Column[cell.subtrahend]].value
    [] OTHER -> cell.value

(* Opened in a spreadsheet program, which computes every formula again, the*)
(* workbook shows the figures it was written with: each total adds up the  *)
(* rows above it, all of them, in its own column, and never itself         *)
(* (buildFinanceWorkbookXlsx, where letters, indexes and row numbers meet).*)
FormulasMatchValues ==
  \A n \in DOMAIN book : \A i \in DOMAIN book[n] : \A c \in DOMAIN book[n][i] :
    LET cell == book[n][i][c] IN
    /\ cell.is = "sum" => cell.last = i /\ Column[cell.column] = c
    /\ Computed(book[n], cell) = cell.value

(* The total of a column as the workbook shows it.                         *)
Bottom(sheet, letter) == IF sheet = <<>> THEN 0 ELSE sheet[Len(sheet)][Column[letter]].value

(* The figures of the page and those of the workbook are the same money:   *)
(* what the sub-accounts show adds up to the totals of the accounts in the *)
(* workbook, however accounts share a context, cancel each other or are    *)
(* left out (accountGroups), and what the posting groups show to theirs.   *)
PageAddsUpToTheBook ==
  LET accounts == AccountSheet(data.accounts)
      groups == GroupSheet(data.groups) IN
  /\ Total(AccountTable(data.accounts), "realized") = Bottom(accounts, "E")
  /\ Total(AccountTable(data.accounts), "budget") = Bottom(accounts, "F")
  /\ Total(AccountTable(data.accounts), "previous") = Bottom(accounts, "G")
  /\ Total(GroupTable(data.groups), "amount") = Bottom(groups, "D")
  /\ Total(GroupTable(data.groups), "previous") = Bottom(groups, "E")

=============================================================================
