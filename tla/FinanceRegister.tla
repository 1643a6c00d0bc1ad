---------------------------- MODULE FinanceRegister ----------------------------
(***************************************************************************)
(* The two tables the cashier edits in place: budgets and posting groups   *)
(* (FinanceAdminBudgetsPage, FinanceAdminPostingGroupsPage).  Every row is *)
(* a form of its own; the id is a field like the others, so saving a row   *)
(* may rename it.  A row remembers the id it was loaded under (_originalId)*)
(* and the pages find a row again, after an await, by the identity of its  *)
(* object, which every keystroke renews (here: rev).                       *)
(***************************************************************************)
EXTENDS Naturals, FiniteSets

CONSTANTS
  RowIds,      \* ids of records
  LoadedRows,  \* the records there are when the page is opened
  RowValues,   \* contents of a record
  NoRecord,    \* no record
  MaxEdits,    \* bound: new objects for one row
  MaxRowCalls  \* bound: writes under way

ASSUME RegisterAssumption ==
  /\ LoadedRows \subseteq RowIds /\ NoRecord \notin RowValues
  /\ MaxEdits \in Nat /\ MaxRowCalls \in Nat

VARIABLES
  page,     \* "budgets" or "groups": which of the two pages is open
  records,  \* server: the table
  rows,     \* rows[s]: the row that was loaded as record s, or Gone
  calls,    \* writes under way
  saving,   \* setSaving: the key of the row being saved; one for the table
  met       \* history: rows whose record two saves may have met in

registerVars == <<page, records, rows, calls, saving, met>>

Gone == [id |-> NoRecord]
Row == [id : RowIds, original : RowIds, value : RowValues, rev : 0 .. MaxEdits + 1,
        unsaved : BOOLEAN]
RowCall == [op : {"save", "delete"}, slot : LoadedRows, rev : 0 .. MaxEdits + 1, original : RowIds,
         id : RowIds, value : RowValues, answer : {"none", "ok", "failed"}]
NoKey == NoRecord

(* A row is on the page, with its fields and its buttons.                  *)
RowShown(s) == rows[s] # Gone

(* Its fields take keystrokes, a save under way or not.                    *)
Editable(s) == RowShown(s) /\ rows[s].rev < MaxEdits

(* Its button "Gem" is disabled while `saving` is the key of this row.     *)
CanSave(s) == RowShown(s) /\ saving # rows[s].original /\ rows[s].rev <= MaxEdits

(* The table as loaded: each row with its _originalId.                     *)
RegisterInit ==
  /\ page \in {"budgets", "groups"}
  /\ \E v \in RowValues : records = [i \in RowIds |-> IF i \in LoadedRows THEN v ELSE NoRecord]
  /\ rows = [s \in LoadedRows |-> [id |-> s, original |-> s, value |-> records[s],
                               rev |-> 0, unsaved |-> FALSE]]
  /\ calls = {}
  /\ saving = NoKey
  /\ met = {}

-----------------------------------------------------------------------------
(* updateRow: one field changes, in a new object that takes the row's place.*)
Edit(s, id, value) ==
  /\ Editable(s)
  /\ (id = rows[s].id) # (value = rows[s].value)
  /\ rows' = [rows EXCEPT ![s].id = id, ![s].value = value,
                          ![s].rev = @ + 1, ![s].unsaved = TRUE]
  /\ UNCHANGED <<page, records, calls, saving, met>>

RowRequest(op, s) ==
  [op |-> op, slot |-> s, rev |-> rows[s].rev, original |-> rows[s].original,
   id |-> rows[s].id, value |-> rows[s].value, answer |-> "none"]

(* A write is sent.  Two meet when a row is saved again before the answer,  *)
(* or when a row left with an old _originalId claims the record that        *)
(* another row has taken over by renaming.                                  *)
SendRow(op, s) ==
  /\ Cardinality(calls) < MaxRowCalls /\ RowRequest(op, s) \notin calls
  /\ calls' = calls \cup {RowRequest(op, s)}
  /\ met' = met \cup {t \in LoadedRows :
               \/ t = s /\ \E c \in calls : c.slot = s \/ c.original = rows[s].id
               \/ t # s /\ rows[t].id = rows[s].original}

(* saveRow, up to its await.                                               *)
SaveRow(s) ==
  /\ CanSave(s)
  /\ SendRow("save", s)
  /\ saving' = rows[s].original
  /\ UNCHANGED <<page, records, rows>>

(* deleteRow, confirmed: it deletes the id typed in the row.               *)
DeleteRow(s) ==
  /\ RowShown(s)
  /\ SendRow("delete", s)
  /\ UNCHANGED <<page, records, rows, saving>>

-----------------------------------------------------------------------------
RowExists(id) == records[id] # NoRecord

(* UPDATE ... SET id = new WHERE id = original: the id is the key.         *)
ServerSaves(c) ==
  /\ c.op = "save" /\ c.answer = "none"
  /\ LET ok == RowExists(c.original) /\ (c.id = c.original \/ ~RowExists(c.id)) IN
     /\ records' = IF ok THEN [records EXCEPT ![c.original] = NoRecord, ![c.id] = c.value]
                 ELSE records
     /\ calls' = (calls \ {c}) \cup {[c EXCEPT !.answer = IF ok THEN "ok" ELSE "failed"]}
  /\ UNCHANGED <<page, rows, saving, met>>

ServerDeletes(c) ==
  /\ c.op = "delete" /\ c.answer = "none"
  /\ records' = [records EXCEPT ![c.id] = NoRecord]
  /\ calls' = (calls \ {c}) \cup {[c EXCEPT !.answer = IF RowExists(c.id) THEN "ok" ELSE "failed"]}
  /\ UNCHANGED <<page, rows, saving, met>>

(* A request is lost on its way, or refused.                               *)
NeverArrives(c) ==
  /\ c.answer = "none"
  /\ calls' = (calls \ {c}) \cup {[c EXCEPT !.answer = "failed"]}
  /\ UNCHANGED <<page, records, rows, saving, met>>

(* The row as the server answered it.                                      *)
SavedRow(c, rev) == [id |-> c.id, original |-> c.id, value |-> c.value,
                     rev |-> rev, unsaved |-> FALSE]

(* Mutant: the row is found by its key instead of its identity.            *)
SaveAnswered_ByKey(c) ==
  /\ c.op = "save" /\ c.answer # "none"
  /\ calls' = calls \ {c}
  /\ saving' = NoKey
  /\ rows' = IF c.answer = "ok" /\ RowShown(c.slot) /\ rows[c.slot].original = c.original
               THEN [rows EXCEPT ![c.slot] = SavedRow(c, rows[c.slot].rev + 1)]
               ELSE rows
  /\ UNCHANGED <<page, records, met>>

(* saveRow after its await: the answer replaces the row if the row is still*)
(* the object that was saved, and whichever row was being saved no longer  *)
(* is.                                                                     *)
SaveAnswered(c) ==
  /\ c.op = "save" /\ c.answer # "none"
  /\ calls' = calls \ {c}
  /\ saving' = NoKey
  /\ rows' = IF c.answer = "ok" /\ RowShown(c.slot) /\ rows[c.slot].rev = c.rev
               THEN [rows EXCEPT ![c.slot] = SavedRow(c, c.rev + 1)]
               ELSE rows
  /\ UNCHANGED <<page, records, met>>

(* deleteRow of the posting groups: the object that was deleted goes.      *)
GroupDeleted(c) ==
  /\ page = "groups"
  /\ c.op = "delete" /\ c.answer # "none"
  /\ calls' = calls \ {c}
  /\ rows' = IF c.answer = "ok" /\ RowShown(c.slot) /\ rows[c.slot].rev = c.rev
               THEN [rows EXCEPT ![c.slot] = Gone] ELSE rows
  /\ UNCHANGED <<page, records, saving, met>>

(* Mutant: the budgets drop the row by its identity, as the groups do.     *)
BudgetDeleted_ByRow(c) ==
  /\ page = "budgets"
  /\ c.op = "delete" /\ c.answer # "none"
  /\ calls' = calls \ {c}
  /\ rows' = IF c.answer = "ok" /\ RowShown(c.slot) /\ rows[c.slot].rev = c.rev
               THEN [rows EXCEPT ![c.slot] = Gone] ELSE rows
  /\ UNCHANGED <<page, records, saving, met>>

(* deleteRow of the budgets: every row that carries the deleted id goes.   *)
BudgetDeleted(c) ==
  /\ page = "budgets"
  /\ c.op = "delete" /\ c.answer # "none"
  /\ calls' = calls \ {c}
  /\ rows' = IF c.answer = "ok"
               THEN [s \in LoadedRows |-> IF rows[s].id = c.id THEN Gone ELSE rows[s]] ELSE rows
  /\ UNCHANGED <<page, records, saving, met>>

RegisterNext ==
  \/ \E s \in LoadedRows : \/ \E i \in RowIds, v \in RowValues : Edit(s, i, v)
                       \/ SaveRow(s) \/ DeleteRow(s)
  \/ \E c \in calls : \/ ServerSaves(c) \/ ServerDeletes(c) \/ NeverArrives(c)
                      \/ SaveAnswered(c) \/ GroupDeleted(c) \/ BudgetDeleted(c)

RegisterSpec == RegisterInit /\ [][RegisterNext]_registerVars

-----------------------------------------------------------------------------
RegisterTypeOK ==
  /\ page \in {"budgets", "groups"}
  /\ records \in [RowIds -> RowValues \cup {NoRecord}]
  /\ \A s \in LoadedRows : rows[s] \in Row \cup {Gone}
  /\ calls \subseteq RowCall
  /\ saving \in RowIds \cup {NoKey}
  /\ met \subseteq LoadedRows

KeepsTypedEdits ==
  \A s \in LoadedRows :
     (RowShown(s) /\ rows[s].unsaved /\ rows'[s] # Gone /\ ~rows'[s].unsaved)
       => \E c \in calls : c.op = "save" /\ c.slot = s /\ c.id = rows[s].id
                             /\ c.value = rows[s].value

(* What the cashier has typed and not saved is never replaced by an answer:*)
(* a row stops being unsaved only when the very state it is in was saved   *)
(* (the comparison item === row in saveRow), or when it is deleted.        *)
TypedEditsSurvive == [][KeepsTypedEdits]_registerVars

(* A budget row without unsaved changes and without a write under way shows*)
(* what is stored, unless two writes of it met: rows renamed onto another's*)
(* id, saved and deleted in any order included (BudgetsPage.deleteRow drops*)
(* every row with the deleted id; the posting groups do not).              *)
BudgetRowsAreStored ==
  page = "budgets" =>
    \A s \in LoadedRows \ met :
      (RowShown(s) /\ ~rows[s].unsaved /\ \A c \in calls : c.slot # s /\ c.id # rows[s].id)
        => records[rows[s].id] = rows[s].value

=============================================================================
