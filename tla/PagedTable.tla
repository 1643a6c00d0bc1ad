------------------------------- MODULE PagedTable -------------------------------
(***************************************************************************)
(* The tables of the site: rows that are searched, sorted and shown a page *)
(* at a time.  The page number is state of its own; rows, search and page  *)
(* size change under it.  The tables of the overview and of the imports go *)
(* back to the first page when they get new rows, the others do not.       *)
(***************************************************************************)
EXTENDS Integers, Sequences, FiniteSets, SequencesExt

CONSTANTS
  Items,     \* numbers of rows; a row's number is its place in ascending order
  Searches,  \* texts looked for, each as the set of rows it is found in
  PageSizes

ASSUME TableAssumption ==
  /\ Items \subseteq Nat /\ IsFiniteSet(Items) /\ PageSizes \subseteq Nat \ {0}
  /\ {10, 25} \subseteq PageSizes
  /\ Searches \subseteq SUBSET Items /\ Items \in Searches

-----------------------------------------------------------------------------
(* The tables of the site: how each is sorted and paged at first, whether  *)
(* it has a search field, whether its rows change after they are loaded and*)
(* whether its effect goes back to the first page when they do.            *)
Table(direction, size) ==
  [direction |-> direction, size |-> size, searched |-> TRUE, reloads |-> FALSE, resets |-> FALSE]
Reloaded(table) == [table EXCEPT !.reloads = TRUE]
Resetting(table) == [Reloaded(table) EXCEPT !.resets = TRUE]

SourceTable == Resetting(Table("desc", 10))
StripeTable == Resetting(Table("desc", 10))
ImportHistory == [Resetting(Table("desc", 10)) EXCEPT !.searched = FALSE]
BudgetsTable == Reloaded(Table("desc", 10))
PostingGroupsTable == Reloaded(Table("asc", 10))
CashierTable == Reloaded(Table("desc", 25))
PostingsViewTable == Reloaded(Table("desc", 25))
AdminMembersTable == Reloaded(Table("asc", 10))
AccountsTable == Table("asc", 10)
MembersTable == Table("asc", 10)
AccountPostings == Table("desc", 10)

Tables == {SourceTable, StripeTable, ImportHistory, BudgetsTable, PostingGroupsTable,
           CashierTable, PostingsViewTable, AdminMembersTable, AccountsTable, MembersTable,
           AccountPostings}

VARIABLES
  table,      \* which table
  tableRows,  \* the rows loaded
  search, direction, pageSize,
  tablePage       \* the page asked for

tableVars == <<table, tableRows, search, direction, pageSize, tablePage>>

TableInit ==
  /\ table \in Tables
  /\ tableRows = {} /\ search = Items
  /\ direction = table.direction /\ pageSize = table.size
  /\ tablePage = 1

-----------------------------------------------------------------------------
(* useFilteredMembers, useSortedMembers: a new array for each render.  In  *)
(* it a row has as many rows up to it as its place says.                   *)
Filtered == tableRows \cap search
UpTo(r) == {x \in Filtered : IF direction = "asc" THEN x <= r ELSE x >= r}
Sorted ==
  [i \in 1 .. Cardinality(Filtered) |-> CHOOSE r \in Filtered : Cardinality(UpTo(r)) = i]

PageCount == LET n == (Cardinality(Filtered) + pageSize - 1) \div pageSize IN
             IF n = 0 THEN 1 ELSE n

(* Mutant: the page asked for is taken as it is.                           *)
CurrentPage_AsAsked == tablePage

CurrentPage == IF tablePage <= PageCount THEN tablePage ELSE PageCount

(* The rows of page n, as slice gives them.                                *)
RowsOn(n) ==
  LET last == n * pageSize IN
  SubSeq(Sorted, last - pageSize + 1, IF last <= Len(Sorted) THEN last ELSE Len(Sorted))
VisibleItems == RowsOn(CurrentPage)

-----------------------------------------------------------------------------
(* A load is answered, or a row is removed or added.                       *)
SetRows(new) ==
  /\ new # tableRows /\ (tableRows = {} \/ table.reloads)
  /\ tableRows' = new
  /\ tablePage' = IF table.resets THEN 1 ELSE tablePage
  /\ UNCHANGED <<table, search, direction, pageSize>>

(* A new search, page size or sort: the effect goes back to the first page.*)
SetSearch(t) ==
  /\ table.searched /\ t # search
  /\ search' = t /\ tablePage' = 1
  /\ UNCHANGED <<table, tableRows, direction, pageSize>>

SetPageSize(n) ==
  /\ n # pageSize
  /\ pageSize' = n /\ tablePage' = 1
  /\ UNCHANGED <<table, tableRows, search, direction>>

ToggleSort ==
  /\ direction' = IF direction = "asc" THEN "desc" ELSE "asc"
  /\ tablePage' = 1
  /\ UNCHANGED <<table, tableRows, search, pageSize>>

(* Pagination: the buttons look at the page shown and move the page asked  *)
(* for.                                                                    *)
Previous ==
  /\ CurrentPage > 1
  /\ tablePage' = IF tablePage > 1 THEN tablePage - 1 ELSE 1
  /\ UNCHANGED <<table, tableRows, search, direction, pageSize>>

Following ==
  /\ CurrentPage < PageCount
  /\ tablePage' = IF tablePage + 1 <= PageCount THEN tablePage + 1 ELSE PageCount
  /\ UNCHANGED <<table, tableRows, search, direction, pageSize>>

TableNext ==
  \/ \E new \in SUBSET Items : SetRows(new)
  \/ \E t \in Searches : SetSearch(t)
  \/ \E n \in PageSizes : SetPageSize(n)
  \/ ToggleSort \/ Previous \/ Following

TableSpec == TableInit /\ [][TableNext]_tableVars

-----------------------------------------------------------------------------
TableTypeOK ==
  /\ table \in Tables /\ tableRows \subseteq Items /\ search \in Searches
  /\ direction \in {"asc", "desc"} /\ pageSize \in PageSizes
  /\ tablePage \in {1} \cup 1 .. Cardinality(Items)

(* Every match is listed once, in the order chosen.                        *)
SortedInOrder ==
  /\ \A i \in 1 .. Len(Sorted) : Sorted[i] \in Filtered
  /\ \A r \in Filtered : \E i \in 1 .. Len(Sorted) : Sorted[i] = r
  /\ \A i, j \in 1 .. Len(Sorted) : i < j =>
       IF direction = "asc" THEN Sorted[i] < Sorted[j] ELSE Sorted[i] > Sorted[j]

(* Leafing through a table finds every row that matches once, in order, and*)
(* a table with matches never shows an empty page, however many rows went  *)
(* away under the page it was on (usePagedItems).                          *)
EveryMatchIsFound ==
  /\ SortedInOrder
  /\ FlattenSeq([n \in 1 .. PageCount |-> RowsOn(n)]) = Sorted
  /\ Filtered # {} => VisibleItems # <<>>

=============================================================================
