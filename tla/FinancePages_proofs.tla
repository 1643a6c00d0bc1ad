--------------------------- MODULE FinancePages_proofs ---------------------------
(***************************************************************************)
(* Proofs about the pages of the finance administration, each for every set*)
(* of records and any number of keystrokes, loads and writes: the tables   *)
(* that are edited in place (FinanceRegister), the tables of postings      *)
(* (PostingsTable), the forms with one record (FinanceDetail), and the     *)
(* overview with its workbook (FinanceOverview).                           *)
(***************************************************************************)
EXTENDS FinanceRegister, PostingsTable, FinanceDetail, FinanceOverview, FiniteSetTheorems,
        WellFoundedInduction, TLAPS

-----------------------------------------------------------------------------
(* Budgets and posting groups                                              *)

(* The identity of a row only grows, a save under way carries one that was *)
(* seen before, and as long as it is still that of the row, the row says   *)
(* what was sent.                                                          *)
SavesKnowTheirRow ==
  \A c \in calls :
    /\ c.op = "save" => c.rev <= MaxEdits
    /\ RowShown(c.slot) =>
         /\ c.rev <= rows[c.slot].rev
         /\ c.rev = rows[c.slot].rev => c.id = rows[c.slot].id /\ c.value = rows[c.slot].value

(* The invariant that is inductive.                                        *)
RegisterIInv == RegisterTypeOK /\ rows \in [LoadedRows -> Row \cup {Gone}] /\ SavesKnowTheirRow

-----------------------------------------------------------------------------
LEMMA GoneIsNoRow ==
  ASSUME NEW row \in Row
  PROVE  row # Gone
<1>1. DOMAIN row = {"id", "original", "value", "rev", "unsaved"}
  BY DEF Row
<1>2. DOMAIN Gone = {"id"}
  BY DEF Gone
<1> QED BY <1>1, <1>2

LEMMA RegisterInitEstablishes ==
  ASSUME RegisterInit
  PROVE  RegisterIInv
<1>1. PICK v \in RowValues : records = [i \in RowIds |-> IF i \in LoadedRows THEN v ELSE NoRecord]
  BY DEF RegisterInit
<1>2. /\ records \in [RowIds -> RowValues \cup {NoRecord}]
      /\ \A s \in LoadedRows : records[s] \in RowValues
  BY <1>1, RegisterAssumption
<1>3. rows \in [LoadedRows -> Row \cup {Gone}]
  <2> SUFFICES ASSUME NEW s \in LoadedRows
               PROVE  [id |-> s, original |-> s, value |-> records[s], rev |-> 0,
                       unsaved |-> FALSE] \in Row
    BY DEF RegisterInit
  <2> QED BY <1>2, RegisterAssumption DEF Row
<1>4. RegisterTypeOK /\ SavesKnowTheirRow
  BY <1>2, <1>3 DEF RegisterInit, RegisterTypeOK, SavesKnowTheirRow
<1> QED BY <1>3, <1>4 DEF RegisterIInv

LEMMA ShownRow ==
  ASSUME RegisterIInv, NEW s \in LoadedRows, RowShown(s)
  PROVE  rows[s] \in Row
BY DEF RegisterIInv, RowShown

LEMMA EditRowPreserves ==
  ASSUME RegisterIInv, NEW s \in LoadedRows, NEW id \in RowIds, NEW value \in RowValues,
         Edit(s, id, value)
  PROVE  RegisterIInv'
<1>1. rows[s] \in Row /\ rows[s].rev \in Nat /\ rows[s].rev < MaxEdits
  BY ShownRow, RegisterAssumption DEF Edit, Editable, Row
<1> DEFINE row == [rows[s] EXCEPT !.id = id, !.value = value, !.rev = @ + 1, !.unsaved = TRUE]
<1>2. row \in Row /\ row.rev = rows[s].rev + 1
  <2>1. rows[s].rev + 1 \in 0 .. MaxEdits + 1
    BY <1>1, RegisterAssumption
  <2>2. \A old \in Row, rev \in 0 .. MaxEdits + 1 :
           [[[[old EXCEPT !.id = id] EXCEPT !.value = value] EXCEPT !.rev = rev]
             EXCEPT !.unsaved = TRUE] \in Row
    BY DEF Row
  <2>3. row = [[[[rows[s] EXCEPT !.id = id] EXCEPT !.value = value] EXCEPT !.rev = rows[s].rev + 1]
                 EXCEPT !.unsaved = TRUE]
    BY <1>1 DEF Row
  <2>4. row.rev = rows[s].rev + 1
    BY <1>1 DEF Row
  <2> QED BY <1>1, <2>1, <2>2, <2>3, <2>4
<1>3. rows' = [rows EXCEPT ![s] = row]
  BY DEF Edit, RegisterIInv
<1> HIDE DEF row
<1>4. rows' \in [LoadedRows -> Row \cup {Gone}]
  BY <1>2, <1>3 DEF RegisterIInv
<1>5. RegisterTypeOK'
  BY <1>4 DEF Edit, RegisterIInv, RegisterTypeOK
<1>6. SavesKnowTheirRow'
  <2> SUFFICES ASSUME NEW c \in calls
               PROVE  /\ c.op = "save" => c.rev <= MaxEdits
                      /\ RowShown(c.slot)' =>
                           /\ c.rev <= rows'[c.slot].rev
                           /\ c.rev = rows'[c.slot].rev =>
                                c.id = rows'[c.slot].id /\ c.value = rows'[c.slot].value
    BY DEF Edit, SavesKnowTheirRow, RowShown
  <2>1. c.slot \in LoadedRows /\ c.rev \in Nat
    BY RegisterAssumption DEF RegisterIInv, RegisterTypeOK, RowCall
  <2>2. CASE c.slot = s
    <3>1. c.rev <= rows[s].rev
      BY <2>2 DEF RegisterIInv, SavesKnowTheirRow, Edit, Editable
    <3> QED BY <1>1, <1>2, <1>3, <2>1, <2>2, <3>1 DEF RegisterIInv, SavesKnowTheirRow
  <2>3. CASE c.slot # s
    BY <1>3, <2>1, <2>3 DEF RegisterIInv, SavesKnowTheirRow, RowShown
  <2> QED BY <2>2, <2>3
<1> QED BY <1>4, <1>5, <1>6 DEF RegisterIInv

(* A request carries the row as it is when it is sent.                     *)
LEMMA SendRowPreserves ==
  ASSUME RegisterIInv, NEW s \in LoadedRows, NEW op \in {"save", "delete"}, RowShown(s),
         op = "save" => rows[s].rev <= MaxEdits,
         SendRow(op, s), saving' \in RowIds \cup {NoKey}, UNCHANGED <<page, records, rows>>
  PROVE  RegisterIInv'
<1> DEFINE c == RowRequest(op, s)
<1>1. rows[s] \in Row
  BY ShownRow
<1>2. /\ c \in RowCall /\ c.op = op /\ c.slot = s /\ c.rev = rows[s].rev
      /\ c.id = rows[s].id /\ c.value = rows[s].value
  BY <1>1 DEF RowRequest, Row, RowCall
<1>3. calls' = calls \cup {c} /\ met' \subseteq LoadedRows
  BY DEF SendRow, RegisterIInv, RegisterTypeOK
<1> HIDE DEF c
<1>4. RegisterTypeOK'
  BY <1>2, <1>3 DEF RegisterIInv, RegisterTypeOK
<1>5. rows[s].rev \in Nat
  BY <1>1, RegisterAssumption DEF Row
<1>6. SavesKnowTheirRow'
  BY <1>2, <1>3, <1>5 DEF RegisterIInv, SavesKnowTheirRow, RowShown
<1> QED BY <1>4, <1>6 DEF RegisterIInv

LEMMA SaveRowPreserves ==
  ASSUME RegisterIInv, NEW s \in LoadedRows, SaveRow(s)
  PROVE  RegisterIInv'
<1>1. rows[s] \in Row /\ rows[s].rev <= MaxEdits
  BY ShownRow DEF SaveRow, CanSave
<1> QED BY <1>1, SendRowPreserves DEF SaveRow, CanSave, Row

LEMMA DeleteRowPreserves ==
  ASSUME RegisterIInv, NEW s \in LoadedRows, DeleteRow(s)
  PROVE  RegisterIInv'
BY SendRowPreserves DEF DeleteRow, RegisterIInv, RegisterTypeOK

-----------------------------------------------------------------------------
(* The server answers a call, and the call says the same as before.        *)
LEMMA RegisterServerPreserves ==
  ASSUME RegisterIInv, NEW c \in calls, NEW answer \in {"ok", "failed"},
         records' \in [RowIds -> RowValues \cup {NoRecord}],
         calls' = (calls \ {c}) \cup {[c EXCEPT !.answer = answer]},
         UNCHANGED <<page, rows, saving, met>>
  PROVE  RegisterIInv'
<1> DEFINE d == [c EXCEPT !.answer = answer]
<1>1. c \in RowCall
  BY DEF RegisterIInv, RegisterTypeOK
<1>2. /\ d \in RowCall /\ d.op = c.op /\ d.slot = c.slot /\ d.rev = c.rev
      /\ d.id = c.id /\ d.value = c.value
  BY <1>1 DEF RowCall
<1> HIDE DEF d
<1>3. calls' = (calls \ {c}) \cup {d}
  BY DEF d
<1>4. RegisterTypeOK'
  BY <1>2, <1>3 DEF RegisterIInv, RegisterTypeOK
<1>5. SavesKnowTheirRow'
  BY <1>2, <1>3 DEF RegisterIInv, SavesKnowTheirRow, RowShown
<1> QED BY <1>4, <1>5 DEF RegisterIInv

LEMMA ServerActsPreserves ==
  ASSUME RegisterIInv, NEW c \in calls, ServerSaves(c) \/ ServerDeletes(c) \/ NeverArrives(c)
  PROVE  RegisterIInv'
<1>1. c.value \in RowValues /\ records \in [RowIds -> RowValues \cup {NoRecord}]
  BY DEF RegisterIInv, RegisterTypeOK, RowCall
<1>2. records' \in [RowIds -> RowValues \cup {NoRecord}]
  BY <1>1 DEF ServerSaves, ServerDeletes, NeverArrives
<1>3. PICK answer \in {"ok", "failed"} : calls' = (calls \ {c}) \cup {[c EXCEPT !.answer = answer]}
  BY DEF ServerSaves, ServerDeletes, NeverArrives
<1> QED BY <1>2, <1>3, RegisterServerPreserves DEF ServerSaves, ServerDeletes, NeverArrives

LEMMA SaveAnsweredPreserves ==
  ASSUME RegisterIInv, NEW c \in calls, SaveAnswered(c)
  PROVE  RegisterIInv'
<1>1. /\ c \in RowCall /\ c.slot \in LoadedRows /\ c.rev \in Nat /\ c.rev <= MaxEdits
      /\ \A d \in calls : d.slot \in LoadedRows /\ d.rev \in Nat
  BY RegisterAssumption DEF SaveAnswered, RegisterIInv, RegisterTypeOK, RowCall, SavesKnowTheirRow
<1> DEFINE row == SavedRow(c, c.rev + 1)
<1>2. row \in Row /\ row.rev = c.rev + 1
  BY <1>1, RegisterAssumption DEF SavedRow, Row, RowCall
<1> HIDE DEF row
<1>3. \/ rows' = rows
      \/ RowShown(c.slot) /\ rows[c.slot].rev = c.rev /\ rows' = [rows EXCEPT ![c.slot] = row]
  BY DEF SaveAnswered, row
<1>4. rows' \in [LoadedRows -> Row \cup {Gone}]
  BY <1>1, <1>2, <1>3 DEF RegisterIInv
<1>5. RegisterTypeOK'
  BY <1>4 DEF SaveAnswered, RegisterIInv, RegisterTypeOK
<1>6. SavesKnowTheirRow'
  <2>1. CASE rows' = rows
    BY <2>1 DEF SaveAnswered, RegisterIInv, SavesKnowTheirRow, RowShown
  <2>2. CASE RowShown(c.slot) /\ rows[c.slot].rev = c.rev /\ rows' = [rows EXCEPT ![c.slot] = row]
    <3>1. \A d \in calls : d.slot # c.slot => rows'[d.slot] = rows[d.slot]
      BY <1>1, <2>2 DEF RegisterIInv
    <3>2. \A d \in calls : d.slot = c.slot => rows'[d.slot] = row /\ d.rev < row.rev
      BY <1>1, <1>2, <2>2 DEF RegisterIInv, SavesKnowTheirRow
    <3> QED BY <1>1, <1>2, <3>1, <3>2 DEF SaveAnswered, RegisterIInv, SavesKnowTheirRow, RowShown
  <2> QED BY <1>3, <2>1, <2>2
<1> QED BY <1>4, <1>5, <1>6 DEF RegisterIInv

(* A deletion that is answered takes rows off the page.                    *)
LEMMA RowDeletedPreserves ==
  ASSUME RegisterIInv, NEW c \in calls, GroupDeleted(c) \/ BudgetDeleted(c)
  PROVE  RegisterIInv'
<1>1. rows' \in [LoadedRows -> Row \cup {Gone}] /\ \A s \in LoadedRows : rows'[s] \in {rows[s], Gone}
  BY DEF GroupDeleted, BudgetDeleted, RegisterIInv, RegisterTypeOK, RowCall
<1>2. RegisterTypeOK'
  BY <1>1 DEF GroupDeleted, BudgetDeleted, RegisterIInv, RegisterTypeOK
<1>3. SavesKnowTheirRow'
  BY <1>1 DEF GroupDeleted, BudgetDeleted, RegisterIInv, RegisterTypeOK, RowCall,
              SavesKnowTheirRow, RowShown
<1> QED BY <1>1, <1>2, <1>3 DEF RegisterIInv

LEMMA RegisterNextPreserves ==
  ASSUME RegisterIInv, [RegisterNext]_registerVars
  PROVE  RegisterIInv'
<1>1. CASE UNCHANGED registerVars
  BY <1>1 DEF registerVars, RegisterIInv, RegisterTypeOK, SavesKnowTheirRow, RowShown
<1>2. CASE RegisterNext
  BY <1>2, EditRowPreserves, SaveRowPreserves, DeleteRowPreserves, ServerActsPreserves,
     SaveAnsweredPreserves, RowDeletedPreserves DEF RegisterNext
<1> QED BY <1>1, <1>2

LEMMA RegisterInvariant == RegisterSpec => []RegisterIInv
<1>1. RegisterInit => RegisterIInv
  BY RegisterInitEstablishes
<1>2. RegisterIInv /\ [RegisterNext]_registerVars => RegisterIInv'
  BY RegisterNextPreserves
<1> QED BY <1>1, <1>2, PTL DEF RegisterSpec

(* A row stops being unsaved only by the answer to a save of the very state*)
(* it is in.                                                               *)
LEMMA StepKeepsTypedEdits ==
  ASSUME RegisterIInv, [RegisterNext]_registerVars
  PROVE  KeepsTypedEdits
<1>1. CASE UNCHANGED rows
  BY <1>1 DEF KeepsTypedEdits
<1>2. ASSUME NEW s \in LoadedRows, NEW id \in RowIds, NEW value \in RowValues, Edit(s, id, value)
      PROVE  KeepsTypedEdits
  <2>1. rows[s] \in Row
    BY <1>2, ShownRow DEF Edit, Editable
  <2>2. rows'[s].unsaved = TRUE /\ \A t \in LoadedRows \ {s} : rows'[t] = rows[t]
    BY <1>2, <2>1 DEF Edit, RegisterIInv, Row
  <2> QED BY <2>2 DEF KeepsTypedEdits
<1>3. ASSUME NEW c \in calls, SaveAnswered(c) PROVE KeepsTypedEdits
  BY <1>3 DEF SaveAnswered, KeepsTypedEdits, RegisterIInv, RegisterTypeOK, RowCall, SavesKnowTheirRow
<1>4. ASSUME NEW c \in calls, GroupDeleted(c) \/ BudgetDeleted(c) PROVE KeepsTypedEdits
  <2>1. \A s \in LoadedRows : rows'[s] \in {rows[s], Gone}
    BY <1>4 DEF GroupDeleted, BudgetDeleted, RegisterIInv, RegisterTypeOK, RowCall
  <2> QED BY <2>1 DEF KeepsTypedEdits
<1> QED BY <1>1, <1>2, <1>3, <1>4
        DEF RegisterNext, registerVars, SaveRow, DeleteRow, ServerSaves, ServerDeletes, NeverArrives

(* Every variable of the register keeps its type, and every request under  *)
(* way is one the page sends.                                              *)
THEOREM RegisterTyped == RegisterSpec => []RegisterTypeOK
<1>1. RegisterIInv => RegisterTypeOK
  BY DEF RegisterIInv
<1> QED BY <1>1, RegisterInvariant, PTL

(* What was typed and not saved is never replaced by an answer.            *)
THEOREM NothingTypedIsLost == RegisterSpec => TypedEditsSurvive
<1>1. RegisterIInv /\ [RegisterNext]_registerVars => [KeepsTypedEdits]_registerVars
  BY StepKeepsTypedEdits
<1>2. RegisterSpec => []RegisterIInv
  BY RegisterInvariant
<1> QED BY <1>1, <1>2, PTL DEF RegisterSpec, TypedEditsSurvive

-----------------------------------------------------------------------------
(* The budgets: what a row shows and what is stored                        *)

(* A deletion carried out is going to drop every row with that id.         *)
StoredOrGoing(i, v) ==
  records[i] = v \/ \E d \in calls : d.op = "delete" /\ d.answer = "ok" /\ d.id = i

NoOtherSaves(s, i) == \A d \in calls : (d.op = "save" /\ d.slot # s) => d.original # i

OneCall(s) == \A c, d \in calls : (c.slot = s /\ d.slot = s) => c = d

(* A row without unsaved changes says what is stored, and no other row is  *)
(* about to rename its record.                                             *)
CleanRow(s) ==
  (RowShown(s) /\ ~rows[s].unsaved) =>
    /\ rows[s].id = rows[s].original
    /\ StoredOrGoing(rows[s].id, rows[s].value)
    /\ NoOtherSaves(s, rows[s].id)

(* So will the row that the answer of a save is going to put in its place. *)
CallOfRow(s) ==
  \A c \in calls : (c.slot = s /\ RowShown(s)) =>
    IF c.rev = rows[s].rev
      THEN /\ c.original = rows[s].original
           /\ c.op = "save" => NoOtherSaves(s, c.id)
           /\ (c.op = "save" /\ c.answer = "ok") => StoredOrGoing(c.id, c.value)
      ELSE rows[s].unsaved

BudgetRow(s) == OneCall(s) /\ CleanRow(s) /\ CallOfRow(s)

BudgetRows == page = "budgets" => \A s \in LoadedRows \ met : BudgetRow(s)

LEMMA CallIsTyped ==
  ASSUME RegisterIInv, NEW c \in calls
  PROVE  c.id \in RowIds /\ c.value \in RowValues
BY DEF RegisterIInv, RegisterTypeOK, RowCall

(* An answer that is taken in, and may take the row off the page.          *)
LEMMA BudgetRowIsKept ==
  ASSUME RegisterIInv, NEW s \in LoadedRows, BudgetRow(s), calls' \subseteq calls,
         rows'[s] = rows[s] \/ rows'[s] = Gone,
         \A i, v : (RowShown(s)' /\ i = rows[s].id /\ StoredOrGoing(i, v)) => StoredOrGoing(i, v)'
  PROVE  BudgetRow(s)'
<1>1. OneCall(s)' /\ \A i : NoOtherSaves(s, i) => NoOtherSaves(s, i)'
  BY DEF BudgetRow, OneCall, NoOtherSaves
<1>2. CASE rows'[s] = Gone
  BY <1>1, <1>2 DEF BudgetRow, CleanRow, CallOfRow, RowShown
<1>3. CASE rows'[s] = rows[s]
  <2>1. RowShown(s)' = RowShown(s)
    BY <1>3 DEF RowShown
  <2>2. CleanRow(s)'
    BY <1>1, <1>3, <2>1 DEF BudgetRow, CleanRow
  <2>3. \A c \in calls : (RowShown(s) /\ c.slot = s /\ c.rev = rows[s].rev) => c.id = rows[s].id
    BY DEF RegisterIInv, SavesKnowTheirRow
  <2>4. CallOfRow(s)'
    BY <1>1, <1>3, <2>1, <2>3 DEF BudgetRow, CallOfRow
  <2> QED BY <1>1, <2>2, <2>4 DEF BudgetRow
<1> QED BY <1>2, <1>3

LEMMA BudgetInitEstablishes ==
  ASSUME RegisterInit
  PROVE  BudgetRows
<1>1. PICK v \in RowValues : records = [i \in RowIds |-> IF i \in LoadedRows THEN v ELSE NoRecord]
  BY DEF RegisterInit
<1>2. ASSUME NEW s \in LoadedRows PROVE BudgetRow(s)
  BY <1>1, RegisterAssumption
     DEF RegisterInit, BudgetRow, OneCall, CleanRow, CallOfRow, StoredOrGoing, NoOtherSaves
<1> QED BY <1>2 DEF BudgetRows

(* A row that is edited has unsaved changes, and the answers under way are *)
(* to an older row.                                                        *)
LEMMA EditKeepsBudgetRows ==
  ASSUME RegisterIInv, BudgetRows, NEW t \in LoadedRows, NEW id \in RowIds, NEW value \in RowValues,
         Edit(t, id, value)
  PROVE  BudgetRows'
<1>1. UNCHANGED <<page, records, calls, met>>
  BY DEF Edit
<1>2. rows[t] \in Row /\ rows[t].rev \in Nat
  BY ShownRow, RegisterAssumption DEF Edit, Editable, Row
<1>3. /\ rows'[t].unsaved /\ rows'[t].rev = rows[t].rev + 1
      /\ \A s \in LoadedRows \ {t} : rows'[s] = rows[s]
  BY <1>2 DEF Edit, RegisterIInv, Row
<1>4. ASSUME page = "budgets", NEW s \in LoadedRows \ met PROVE BudgetRow(s)'
  <2>1. BudgetRow(s)
    BY <1>4 DEF BudgetRows
  <2>2. CASE s # t
    <3>1. \A i, v : StoredOrGoing(i, v) => StoredOrGoing(i, v)'
      BY <1>1 DEF StoredOrGoing
    <3>2. rows'[s] = rows[s] /\ calls' \subseteq calls
      BY <1>1, <1>3, <2>2
    <3> QED BY <2>1, <3>1, <3>2, BudgetRowIsKept
  <2>3. CASE s = t
    <3>1. \A c \in calls : c.slot = s => c.rev \in Nat /\ c.rev <= rows[s].rev
      BY <2>3, RegisterAssumption
      DEF RegisterIInv, RegisterTypeOK, RowCall, SavesKnowTheirRow, Edit, Editable
    <3>2. \A c \in calls : c.slot = s => c.rev # rows'[s].rev
      BY <1>2, <1>3, <2>3, <3>1
    <3>3. OneCall(s)' /\ CleanRow(s)' /\ CallOfRow(s)'
      BY <1>1, <1>3, <2>1, <2>3, <3>2 DEF BudgetRow, OneCall, CleanRow, CallOfRow
    <3> QED BY <3>3 DEF BudgetRow
  <2> QED BY <2>2, <2>3
<1> QED BY <1>1, <1>4 DEF BudgetRows

(* Rows in which two writes may meet are set aside when the second is sent.*)
LEMMA SendKeepsBudgetRows ==
  ASSUME RegisterIInv, BudgetRows, NEW t \in LoadedRows, NEW op \in {"save", "delete"}, RowShown(t),
         SendRow(op, t), UNCHANGED <<page, records, rows>>
  PROVE  BudgetRows'
<1> DEFINE c == RowRequest(op, t)
<1>1. rows[t] \in Row
  BY ShownRow
<1>2. /\ c.op = op /\ c.slot = t /\ c.rev = rows[t].rev /\ c.original = rows[t].original
      /\ c.id = rows[t].id /\ c.value = rows[t].value /\ c.answer = "none"
  BY <1>1 DEF RowRequest, Row
<1>3. calls' = calls \cup {c}
  BY DEF SendRow
<1> HIDE DEF c
<1>4. \A i, v : StoredOrGoing(i, v) => StoredOrGoing(i, v)'
  BY <1>3 DEF StoredOrGoing
<1>5. ASSUME page = "budgets", NEW s \in LoadedRows \ met' PROVE BudgetRow(s)'
  <2>1. s \in LoadedRows \ met /\ BudgetRow(s)
    BY <1>5 DEF BudgetRows, SendRow
  <2>2. CASE s # t
    <3>1. rows[s].id # rows[t].original
      BY <1>5, <2>2 DEF SendRow
    <3>2. \A d \in calls : (RowShown(s) /\ d.slot = s /\ d.rev = rows[s].rev) => d.id = rows[s].id
      BY DEF RegisterIInv, SavesKnowTheirRow
    <3>3. NoOtherSaves(s, rows[s].id) => NoOtherSaves(s, rows[s].id)'
      BY <1>2, <1>3, <3>1 DEF NoOtherSaves
    <3>4. OneCall(s)'
      BY <1>2, <1>3, <2>1, <2>2 DEF BudgetRow, OneCall
    <3>5. CleanRow(s)'
      BY <1>4, <2>1, <3>3 DEF BudgetRow, CleanRow, RowShown
    <3>6. CallOfRow(s)'
      BY <1>2, <1>3, <1>4, <2>1, <2>2, <3>2, <3>3 DEF BudgetRow, CallOfRow, RowShown
    <3> QED BY <3>4, <3>5, <3>6 DEF BudgetRow
  <2>3. CASE s = t
    <3>1. \A d \in calls : d.slot # t /\ d.original # rows[t].id
      BY <1>5, <2>3 DEF SendRow
    <3>2. NoOtherSaves(t, rows[t].id)'
      BY <1>2, <1>3, <3>1 DEF NoOtherSaves
    <3>3. OneCall(t)'
      BY <1>2, <1>3, <3>1 DEF OneCall
    <3>4. CleanRow(t)'
      BY <1>4, <2>1, <2>3, <3>2 DEF BudgetRow, CleanRow, RowShown
    <3>5. CallOfRow(t)'
      BY <1>2, <1>3, <3>1, <3>2 DEF CallOfRow
    <3> QED BY <2>3, <3>3, <3>4, <3>5 DEF BudgetRow
  <2> QED BY <2>2, <2>3
<1> QED BY <1>5 DEF BudgetRows

(* The server has answered call c: nothing else about the calls changes.   *)
LEMMA AnsweredKeepsBudgetRow ==
  ASSUME RegisterIInv, NEW c \in calls, NEW answer \in {"ok", "failed"},
         calls' = (calls \ {c}) \cup {[c EXCEPT !.answer = answer]}, rows' = rows,
         NEW s \in LoadedRows, BudgetRow(s),
         (RowShown(s) /\ ~rows[s].unsaved) => StoredOrGoing(rows[s].id, rows[s].value)',
         \A e \in calls' : (RowShown(s) /\ e.slot = s /\ e.rev = rows[s].rev /\ e.op = "save"
                              /\ e.answer = "ok") => StoredOrGoing(e.id, e.value)'
  PROVE  BudgetRow(s)'
<1> DEFINE d == [c EXCEPT !.answer = answer]
<1>1. c \in RowCall
  BY DEF RegisterIInv, RegisterTypeOK
<1>2. /\ d.op = c.op /\ d.slot = c.slot /\ d.rev = c.rev /\ d.original = c.original
      /\ d.id = c.id /\ d.value = c.value
  BY <1>1 DEF RowCall
<1>3. calls' = (calls \ {c}) \cup {d}
  OBVIOUS
<1> HIDE DEF d
<1>4. \A i : NoOtherSaves(s, i) => NoOtherSaves(s, i)'
  BY <1>2, <1>3 DEF NoOtherSaves
<1>5. OneCall(s)'
  BY <1>2, <1>3 DEF BudgetRow, OneCall
<1>6. CleanRow(s)'
  BY <1>4 DEF BudgetRow, CleanRow, RowShown
<1>7. ASSUME NEW e \in calls', e.slot = s, RowShown(s)
      PROVE  IF e.rev = rows[s].rev THEN /\ e.original = rows[s].original
                                         /\ e.op = "save" => NoOtherSaves(s, e.id)
                                    ELSE rows[s].unsaved
  <2>1. PICK b \in calls : /\ b.slot = e.slot /\ b.rev = e.rev /\ b.original = e.original
                           /\ b.op = e.op /\ b.id = e.id
    BY <1>2, <1>3
  <2> QED BY <1>7, <2>1 DEF BudgetRow, CallOfRow
<1>8. CallOfRow(s)'
  BY <1>4, <1>7 DEF CallOfRow, RowShown
<1> QED BY <1>5, <1>6, <1>8 DEF BudgetRow

(* A save of another row leaves the record alone: it does not rename it,   *)
(* and what would be renamed to it is refused while it exists.             *)
LEMMA ServerSavesKeepsBudgetRows ==
  ASSUME RegisterIInv, BudgetRows, NEW c \in calls, ServerSaves(c)
  PROVE  BudgetRows'
<1> DEFINE ok == RowExists(c.original) /\ (c.id = c.original \/ ~RowExists(c.id))
           answer == IF ok THEN "ok" ELSE "failed"
           d == [c EXCEPT !.answer = answer]
<1>1. /\ UNCHANGED <<page, rows, met>> /\ c.op = "save"
      /\ calls' = (calls \ {c}) \cup {[c EXCEPT !.answer = answer]}
      /\ answer \in {"ok", "failed"}
      /\ records' = IF ok THEN [records EXCEPT ![c.original] = NoRecord, ![c.id] = c.value]
                          ELSE records
  BY DEF ServerSaves
<1>2. /\ c.id \in RowIds /\ c.original \in RowIds /\ c \in RowCall
      /\ records \in [RowIds -> RowValues \cup {NoRecord}]
  BY DEF RegisterIInv, RegisterTypeOK, RowCall
<1>3. d.op = c.op /\ d.id = c.id /\ d.value = c.value /\ d.slot = c.slot /\ d.answer = answer
  BY <1>2 DEF RowCall
<1>4. calls' = (calls \ {c}) \cup {d}
  BY <1>1
<1>5. ok => records'[c.id] = c.value /\ \A i \in RowIds \ {c.id, c.original} : records'[i] = records[i]
  BY <1>1, <1>2
<1>6. ~ok => records' = records /\ answer = "failed"
  BY <1>1
<1>7. ok <=> RowExists(c.original) /\ (c.id = c.original \/ ~RowExists(c.id))
  OBVIOUS
<1> HIDE DEF d, answer, ok
<1>8. ASSUME NEW i \in RowIds, NEW v \in RowValues, StoredOrGoing(i, v), c.original # i
      PROVE  StoredOrGoing(i, v)'
  <2>1. CASE records[i] = v
    <3>1. ok => c.id # i
      BY <1>7, <1>8, <2>1, RegisterAssumption DEF RowExists
    <3> QED BY <1>5, <1>6, <1>8, <2>1, <3>1 DEF StoredOrGoing
  <2>2. CASE records[i] # v
    <3>1. PICK e \in calls : e.op = "delete" /\ e.answer = "ok" /\ e.id = i
      BY <1>8, <2>2 DEF StoredOrGoing
    <3> QED BY <1>1, <1>4, <3>1 DEF StoredOrGoing
  <2> QED BY <2>1, <2>2
<1>9. ASSUME page = "budgets", NEW s \in LoadedRows \ met PROVE BudgetRow(s)'
  <2>1. BudgetRow(s)
    BY <1>9 DEF BudgetRows
  <2>2. RowShown(s) => rows[s] \in Row /\ rows[s].id \in RowIds /\ rows[s].value \in RowValues
    BY ShownRow DEF Row
  <2>3. /\ (RowShown(s) /\ ~rows[s].unsaved) => StoredOrGoing(rows[s].id, rows[s].value)'
        /\ \A e \in calls' : (RowShown(s) /\ e.slot = s /\ e.rev = rows[s].rev /\ e.op = "save"
                                /\ e.answer = "ok") => StoredOrGoing(e.id, e.value)'
    <3>1. CASE c.slot # s
      <4>1. (RowShown(s) /\ ~rows[s].unsaved) => StoredOrGoing(rows[s].id, rows[s].value)'
        BY <1>1, <1>8, <2>1, <2>2, <3>1 DEF BudgetRow, CleanRow, NoOtherSaves
      <4>2. ASSUME NEW e \in calls', RowShown(s), e.slot = s, e.rev = rows[s].rev, e.op = "save",
                   e.answer = "ok"
            PROVE  StoredOrGoing(e.id, e.value)'
        <5>1. e \in calls
          BY <1>3, <1>4, <3>1, <4>2
        <5>2. e.id \in RowIds /\ e.value \in RowValues
          BY <5>1, CallIsTyped
        <5>3. StoredOrGoing(e.id, e.value) /\ NoOtherSaves(s, e.id)
          BY <2>1, <4>2, <5>1 DEF BudgetRow, CallOfRow
        <5>4. c.original # e.id
          BY <1>1, <3>1, <5>3 DEF NoOtherSaves
        <5> QED BY <1>8, <5>2, <5>3, <5>4
      <4> QED BY <4>1, <4>2
    <3>2. CASE c.slot = s
      <4>1. ASSUME RowShown(s), ~rows[s].unsaved
            PROVE  StoredOrGoing(rows[s].id, rows[s].value)'
        <5>1. c.rev = rows[s].rev /\ c.original = rows[s].original /\ rows[s].id = rows[s].original
              /\ StoredOrGoing(rows[s].id, rows[s].value)
          BY <2>1, <3>2, <4>1 DEF BudgetRow, CleanRow, CallOfRow
        <5>2. c.id = rows[s].id /\ c.value = rows[s].value
          BY <3>2, <4>1, <5>1 DEF RegisterIInv, SavesKnowTheirRow
        <5>3. CASE ok
          BY <1>1, <1>5, <5>2, <5>3 DEF StoredOrGoing
        <5>4. CASE ~ok
          <6>1. \A e \in calls : e.op = "delete" => e \in calls'
            BY <1>1, <1>4
          <6> QED BY <1>1, <1>6, <5>1, <5>4, <6>1 DEF StoredOrGoing
        <5> QED BY <5>3, <5>4
      <4>2. ASSUME NEW e \in calls', e.slot = s, e.answer = "ok"
            PROVE  StoredOrGoing(e.id, e.value)'
        <5>1. e = d
          BY <1>4, <2>1, <3>2, <4>2 DEF BudgetRow, OneCall
        <5> QED BY <1>3, <1>5, <1>6, <4>2, <5>1 DEF StoredOrGoing
      <4> QED BY <4>1, <4>2
    <3> QED BY <3>1, <3>2
  <2> QED BY <1>1, <2>1, <2>3, AnsweredKeepsBudgetRow
<1> QED BY <1>1, <1>9 DEF BudgetRows

(* A deletion of a record that exists is going to drop its rows.           *)
LEMMA ServerDeletesKeepsBudgetRows ==
  ASSUME RegisterIInv, BudgetRows, NEW c \in calls, ServerDeletes(c) \/ NeverArrives(c)
  PROVE  BudgetRows'
<1>1. UNCHANGED <<page, rows, met>> /\ c.answer = "none"
  BY DEF ServerDeletes, NeverArrives
<1>2. PICK answer \in {"ok", "failed"} :
        /\ calls' = (calls \ {c}) \cup {[c EXCEPT !.answer = answer]}
        /\ c.op = "save" => answer = "failed"
        /\ \/ records' = records
           \/ /\ c.op = "delete" /\ records' = [records EXCEPT ![c.id] = NoRecord]
              /\ RowExists(c.id) => answer = "ok"
  BY DEF ServerDeletes, NeverArrives
<1> DEFINE d == [c EXCEPT !.answer = answer]
<1>3. c \in RowCall /\ records \in [RowIds -> RowValues \cup {NoRecord}]
  BY DEF RegisterIInv, RegisterTypeOK
<1>4. d.op = c.op /\ d.id = c.id /\ d.answer = answer /\ d.slot = c.slot
  BY <1>3 DEF RowCall
<1>5. calls' = (calls \ {c}) \cup {d}
  BY <1>2
<1> HIDE DEF d
<1>6. ASSUME NEW i \in RowIds, NEW v \in RowValues, StoredOrGoing(i, v)
      PROVE  StoredOrGoing(i, v)'
  <2>1. CASE \E e \in calls : e.op = "delete" /\ e.answer = "ok" /\ e.id = i
    BY <1>1, <1>5, <2>1 DEF StoredOrGoing
  <2>2. CASE records[i] = v
    <3>1. CASE records'[i] = records[i]
      BY <2>2, <3>1 DEF StoredOrGoing
    <3>2. CASE records'[i] # records[i]
      <4>1. c.op = "delete" /\ c.id = i /\ (RowExists(c.id) => answer = "ok")
        BY <1>2, <1>3, <3>2
      <4>2. RowExists(i)
        BY <2>2, RegisterAssumption DEF RowExists
      <4> QED BY <1>4, <1>5, <4>1, <4>2 DEF StoredOrGoing
    <3> QED BY <3>1, <3>2
  <2> QED BY <1>6, <2>1, <2>2 DEF StoredOrGoing
<1>7. ASSUME page = "budgets", NEW s \in LoadedRows \ met PROVE BudgetRow(s)'
  <2>1. BudgetRow(s)
    BY <1>7 DEF BudgetRows
  <2>2. RowShown(s) => rows[s] \in Row /\ rows[s].id \in RowIds /\ rows[s].value \in RowValues
    BY ShownRow DEF Row
  <2>3. (RowShown(s) /\ ~rows[s].unsaved) => StoredOrGoing(rows[s].id, rows[s].value)'
    BY <1>1, <1>6, <2>1, <2>2 DEF BudgetRow, CleanRow
  <2>4. ASSUME NEW e \in calls', RowShown(s), e.slot = s, e.rev = rows[s].rev, e.op = "save",
               e.answer = "ok"
        PROVE  StoredOrGoing(e.id, e.value)'
    <3>1. e \in calls
      BY <1>2, <1>4, <1>5, <2>4
    <3>2. e.id \in RowIds /\ e.value \in RowValues
      BY <3>1, CallIsTyped
    <3>3. StoredOrGoing(e.id, e.value)
      BY <2>1, <2>4, <3>1 DEF BudgetRow, CallOfRow
    <3> QED BY <1>6, <3>2, <3>3
  <2> QED BY <1>1, <1>2, <2>1, <2>3, <2>4, AnsweredKeepsBudgetRow
<1> QED BY <1>1, <1>7 DEF BudgetRows

LEMMA SaveAnsweredKeepsBudgetRows ==
  ASSUME RegisterIInv, BudgetRows, NEW c \in calls, SaveAnswered(c)
  PROVE  BudgetRows'
<1>1. UNCHANGED <<page, records, met>> /\ calls' = calls \ {c} /\ c.op = "save"
  BY DEF SaveAnswered
<1>2. \A i, v : StoredOrGoing(i, v) => StoredOrGoing(i, v)'
  BY <1>1 DEF StoredOrGoing
<1>3. c.slot \in LoadedRows
  BY DEF RegisterIInv, RegisterTypeOK, RowCall
<1>4. ASSUME page = "budgets", NEW s \in LoadedRows \ met PROVE BudgetRow(s)'
  <2>1. BudgetRow(s)
    BY <1>4 DEF BudgetRows
  <2>2. CASE rows'[s] = rows[s]
    <3>1. calls' \subseteq calls
      BY <1>1
    <3> QED BY <1>2, <2>1, <2>2, <3>1, BudgetRowIsKept
  <2>3. CASE rows'[s] # rows[s]
    <3>1. /\ c.slot = s /\ c.answer = "ok" /\ RowShown(s) /\ rows[s].rev = c.rev
          /\ rows'[s] = SavedRow(c, c.rev + 1)
      BY <1>3, <2>3 DEF SaveAnswered, RegisterIInv
    <3>2. /\ rows'[s].id = c.id /\ rows'[s].original = c.id /\ rows'[s].value = c.value
      BY <3>1 DEF SavedRow
    <3>3. NoOtherSaves(s, c.id) /\ StoredOrGoing(c.id, c.value)
      BY <1>1, <2>1, <3>1 DEF BudgetRow, CallOfRow
    <3>4. NoOtherSaves(s, c.id)' /\ StoredOrGoing(c.id, c.value)'
      BY <1>1, <1>2, <3>3 DEF NoOtherSaves
    <3>5. CleanRow(s)'
      BY <3>2, <3>4 DEF CleanRow
    <3>6. \A e \in calls' : e.slot # s
      BY <1>1, <2>1, <3>1 DEF BudgetRow, OneCall
    <3> QED BY <3>5, <3>6 DEF BudgetRow, OneCall, CallOfRow
  <2> QED BY <2>2, <2>3
<1> QED BY <1>1, <1>4 DEF BudgetRows

(* The rows that said otherwise than what is stored are gone.              *)
LEMMA BudgetDeletedKeepsBudgetRows ==
  ASSUME RegisterIInv, BudgetRows, NEW c \in calls, BudgetDeleted(c)
  PROVE  BudgetRows'
<1>1. UNCHANGED <<page, records, met>> /\ calls' = calls \ {c}
  BY DEF BudgetDeleted
<1>2. ASSUME page = "budgets", NEW s \in LoadedRows \ met PROVE BudgetRow(s)'
  <2>1. BudgetRow(s) /\ calls' \subseteq calls
    BY <1>1, <1>2 DEF BudgetRows
  <2>2. rows'[s] = rows[s] \/ rows'[s] = Gone
    BY DEF BudgetDeleted
  <2>3. ASSUME NEW i, NEW v, RowShown(s)', i = rows[s].id, StoredOrGoing(i, v)
        PROVE  StoredOrGoing(i, v)'
    <3>1. c.answer = "ok" => c.id # i
      BY <2>3 DEF BudgetDeleted, RowShown
    <3> QED BY <1>1, <2>3, <3>1 DEF StoredOrGoing
  <2> QED BY <2>1, <2>2, <2>3, BudgetRowIsKept
<1> QED BY <1>1, <1>2 DEF BudgetRows

LEMMA BudgetNextPreserves ==
  ASSUME RegisterIInv, BudgetRows, [RegisterNext]_registerVars
  PROVE  BudgetRows'
<1>1. ASSUME UNCHANGED registerVars PROVE BudgetRows'
  BY <1>1 DEF registerVars, BudgetRows, BudgetRow, OneCall, CleanRow, CallOfRow, StoredOrGoing,
              NoOtherSaves, RowShown
<1>2. ASSUME NEW s \in LoadedRows, SaveRow(s) \/ DeleteRow(s) PROVE BudgetRows'
  BY <1>2, SendKeepsBudgetRows DEF SaveRow, CanSave, DeleteRow
<1>3. ASSUME NEW c \in calls, GroupDeleted(c) PROVE BudgetRows'
  BY <1>3 DEF GroupDeleted, BudgetRows
<1> QED BY <1>1, <1>2, <1>3, EditKeepsBudgetRows, ServerSavesKeepsBudgetRows,
           ServerDeletesKeepsBudgetRows, SaveAnsweredKeepsBudgetRows, BudgetDeletedKeepsBudgetRows
        DEF RegisterNext

(* A budget row without unsaved changes shows what is stored, whatever rows*)
(* are renamed, saved and deleted in any order.                            *)
THEOREM BudgetsShowWhatIsStored == RegisterSpec => []BudgetRowsAreStored
<1>1. RegisterIInv /\ BudgetRows => BudgetRowsAreStored
  BY DEF BudgetRows, BudgetRow, CleanRow, StoredOrGoing, BudgetRowsAreStored
<1>2. RegisterInit => BudgetRows
  BY BudgetInitEstablishes
<1>3. RegisterIInv /\ BudgetRows /\ [RegisterNext]_registerVars => BudgetRows'
  BY BudgetNextPreserves
<1> QED BY <1>1, <1>2, <1>3, RegisterInvariant, PTL DEF RegisterSpec

-----------------------------------------------------------------------------
(* The tables of postings                                                  *)

SomeYear == Years \cup {AllYears}
LoadRecord == [year : SomeYear, by : {"effect", "save", "write"}, read : BOOLEAN,
               got : PostingsTables, overtaken : BOOLEAN]
Write == [op : {"save", "duplicate", "delete"}, posting : Postings, content : Contents,
          year : SomeYear, answer : {"none", "ok", "failed"}]

PostingsTyped ==
  /\ year \in SomeYear
  /\ stored \in PostingsTables /\ listed \in PostingsTables
  /\ typed \subseteq Postings
  /\ loads \in Seq(LoadRecord)
  /\ writes \subseteq Write
  /\ \A w \in writes : w.op = "duplicate" => CopyOf(w.posting) \in Postings

(* No write has been carried out whose handler still waits: then nothing   *)
(* is going to be loaded on its behalf.                                    *)
NoneAccepted == \A w \in writes : w.answer # "ok"

(* The load that was sent last, if it has been read and not overtaken, read*)
(* what is still stored.                                                   *)
LastLoadIsCurrent ==
  (NoneAccepted /\ loads # <<>> /\ loads[Len(loads)].read /\ ~loads[Len(loads)].overtaken)
    => loads[Len(loads)].got = RowsOf(stored, loads[Len(loads)].year)

(* So what the table shows once nothing is under way is what is stored;    *)
(* writes that will be refused change nothing.                             *)
ListedIsCurrent ==
  (NoneAccepted /\ PostingsFresh)
    => \A p \in Postings \ typed : listed[p] = RowsOf(stored, year)[p]

(* The invariant that is inductive.                                        *)
PostingsIInv == PostingsTyped /\ LastLoadIsCurrent /\ ListedIsCurrent

LEMMA RowsOfIsATable ==
  ASSUME NEW t \in PostingsTables, NEW y
  PROVE  RowsOf(t, y) \in PostingsTables
BY DEF RowsOf, PostingsTables

LEMMA UnreadIsATable == Unread \in PostingsTables
BY DEF Unread, PostingsTables

(* A set of numbers that is not empty has a least one.                     *)
LEMMA LeastNumber ==
  ASSUME NEW S \in SUBSET Nat, S # {}
  PROVE  \E m \in S : \A n \in S : m <= n
<1> DEFINE R == OpToRel(<, Nat)
<1>1. IsWellFoundedOn(R, Nat)
  BY NatLessThanWellFounded, Zenon
<1>2. \A m, n \in Nat : m < n => <<m, n>> \in R
  BY DEF OpToRel
<1> HIDE DEF R
<1>3. \E m \in S : \A n \in S : ~(<<n, m>> \in R)
  BY <1>1, WFMin, Zenon
<1>4. PICK m \in S : \A n \in S : ~(<<n, m>> \in R)
  BY <1>3
<1>5. ASSUME NEW n \in S PROVE m <= n
  <2>1. ~(n < m)
    BY <1>2, <1>4
  <2> QED BY <2>1
<1> QED BY <1>5

(* Years are numbers with an end, so a set of them has a greatest one.     *)
LEMMA GreatestYear ==
  ASSUME NEW ys \in SUBSET Years, ys # {}
  PROVE  (CHOOSE y \in ys : \A z \in ys : z <= y) \in Years
<1> DEFINE Bounds == {u \in Nat : \A z \in ys : z <= u}
<1>1. ASSUME NEW y \in ys PROVE y \in Nat /\ 1 <= y /\ y <= 9999
  <2>1. y \in 1 .. 9999
    BY PostingsAssumption
  <2> QED BY <2>1
<1>2. 9999 \in Bounds /\ Bounds \in SUBSET Nat
  BY <1>1
<1>3. \A u \in Nat : u \in Bounds <=> \A z \in ys : z <= u
  OBVIOUS
<1> HIDE DEF Bounds
<1>4. \E u \in Bounds : \A v \in Bounds : u <= v
  BY <1>2, LeastNumber
<1>5. PICK u \in Bounds : \A v \in Bounds : u <= v
  BY <1>4
<1>6. u \in Nat /\ \A z \in ys : z <= u
  BY <1>2, <1>3
<1>7. u \in ys
  <2> SUFFICES ASSUME u \notin ys PROVE FALSE
    OBVIOUS
  <2>1. PICK z \in ys : TRUE
    OBVIOUS
  <2>2. u - 1 \in Nat
    BY <2>1, <1>1, <1>6
  <2>3. ASSUME NEW x \in ys PROVE x <= u - 1
    <3>1. x # u /\ x <= u /\ x \in Nat
      BY <1>1, <1>6
    <3> QED BY <3>1, <1>6
  <2>4. u - 1 \in Bounds
    BY <2>2, <2>3, <1>3
  <2>5. u <= u - 1
    BY <2>4, <1>5
  <2> QED BY <2>5, <1>6
<1>8. \E y \in ys : \A z \in ys : z <= y
  BY <1>6, <1>7
<1>9. (CHOOSE y \in ys : \A z \in ys : z <= y) \in ys
  BY <1>8, Zenon
<1> QED BY <1>9

(* What a handler writes is typed.                                         *)
LEMMA LoadIsTyped ==
  ASSUME NEW y \in SomeYear, NEW by \in {"effect", "save", "write"}
  PROVE  Load(y, by) \in LoadRecord
BY UnreadIsATable DEF Load, LoadRecord

(* A load just sent has not been read: it claims nothing about the rows,   *)
(* and while it is under way the table is not settled.                     *)
LEMMA SentLoadClaimsNothing ==
  ASSUME loads \in Seq(LoadRecord), NEW y \in SomeYear, NEW by \in {"effect", "save", "write"},
         loads' = Append(loads, Load(y, by))
  PROVE  loads' \in Seq(LoadRecord) /\ LastLoadIsCurrent' /\ ListedIsCurrent'
<1>1. Load(y, by) \in LoadRecord
  BY LoadIsTyped
<1>2. loads' \in Seq(LoadRecord) /\ Len(loads') = Len(loads) + 1
      /\ loads'[Len(loads')] = Load(y, by) /\ loads' # <<>>
  BY <1>1
<1>3. ~loads'[Len(loads')].read
  BY <1>2 DEF Load
<1> QED BY <1>2, <1>3 DEF LastLoadIsCurrent, ListedIsCurrent, PostingsFresh

LEMMA OvertakenIsTyped ==
  ASSUME NEW l \in LoadRecord
  PROVE  [l EXCEPT !.overtaken = TRUE] \in LoadRecord /\ [l EXCEPT !.overtaken = TRUE].overtaken
BY DEF LoadRecord

(* When load i ends, the last one stays the last one, or was it.           *)
LEMMA LoadsLeft ==
  ASSUME loads \in Seq(LoadRecord), NEW i \in 1 .. Len(loads)
  PROVE  /\ LoadsWithout(i) \in Seq(LoadRecord)
         /\ Len(LoadsWithout(i)) = Len(loads) - 1
         /\ i < Len(loads) =>
              LoadsWithout(i)[Len(LoadsWithout(i))] = loads[Len(loads)]
         /\ (i = Len(loads) /\ LoadsWithout(i) # <<>>) =>
              LoadsWithout(i)[Len(LoadsWithout(i))].overtaken
         /\ LoadsWithout(i) = <<>> => i = Len(loads)
<1> DEFINE n == Len(loads) - 1
           at(j) == IF j < i THEN [loads[j] EXCEPT !.overtaken = TRUE] ELSE loads[j + 1]
<1>1. n \in Nat /\ Len(loads) \in Nat
  OBVIOUS
<1>2. ASSUME NEW j \in 1 .. n PROVE at(j) \in LoadRecord
  <2>1. loads[j] \in LoadRecord /\ loads[j + 1] \in LoadRecord
    BY <1>1
  <2> QED BY <2>1, OvertakenIsTyped
<1>3. LoadsWithout(i) = [j \in 1 .. n |-> at(j)]
  BY DEF LoadsWithout
<1> HIDE DEF n
<1>4. LoadsWithout(i) \in [1 .. n -> LoadRecord]
  BY <1>2, <1>3
<1>5. LoadsWithout(i) \in Seq(LoadRecord) /\ Len(LoadsWithout(i)) = n
  BY <1>1, <1>4
<1>6. ASSUME n > 0
      PROVE  LoadsWithout(i)[n] = at(n)
  BY <1>1, <1>3, <1>6
<1>7. i < Len(loads) => LoadsWithout(i)[n] = loads[Len(loads)]
  BY <1>1, <1>6 DEF n
<1>8. ASSUME i = Len(loads), n > 0 PROVE LoadsWithout(i)[n].overtaken
  <2>1. LoadsWithout(i)[n] = [loads[n] EXCEPT !.overtaken = TRUE]
    BY <1>1, <1>6, <1>8 DEF n
  <2>2. loads[n] \in LoadRecord
    BY <1>1, <1>8 DEF n
  <2> QED BY <2>1, <2>2 DEF LoadRecord
<1>9. LoadsWithout(i) # <<>> => n > 0
  BY <1>1, <1>5
<1>10. LoadsWithout(i) = <<>> => n = 0
  BY <1>5
<1> QED BY <1>1, <1>5, <1>7, <1>8, <1>9, <1>10 DEF n

LEMMA PostingsInitEstablishes ==
  ASSUME PostingsInit
  PROVE  PostingsIInv
<1>1. Load(year, "effect") \in LoadRecord
  BY LoadIsTyped DEF PostingsInit, SomeYear
<1>2. loads \in Seq(LoadRecord) /\ Len(loads) = 1 /\ loads[1] = Load(year, "effect")
  BY <1>1 DEF PostingsInit
<1>3. ~loads[1].read
  BY <1>2 DEF Load
<1>4. PostingsTyped
  BY <1>2, UnreadIsATable DEF PostingsInit, PostingsTyped, SomeYear
<1>5. LastLoadIsCurrent /\ ListedIsCurrent
  BY <1>2, <1>3 DEF LastLoadIsCurrent, ListedIsCurrent, PostingsFresh
<1> QED BY <1>4, <1>5 DEF PostingsIInv

LEMMA SetYearPreserves ==
  ASSUME PostingsIInv, NEW y \in SomeYear, SetYear(y)
  PROVE  PostingsIInv'
<1>1. loads' \in Seq(LoadRecord) /\ LastLoadIsCurrent' /\ ListedIsCurrent'
  BY SentLoadClaimsNothing DEF PostingsIInv, PostingsTyped, SetYear
<1>2. PostingsTyped'
  BY <1>1 DEF PostingsIInv, PostingsTyped, SetYear, shownVars, writeVars
<1> QED BY <1>1, <1>2 DEF PostingsIInv

LEMMA YearsKnownPreserves ==
  ASSUME PostingsIInv, YearsKnown
  PROVE  PostingsIInv'
<1>1. UNCHANGED <<stored, listed, typed, stale, writes>>
  BY DEF YearsKnown, shownVars, writeVars
<1>2. CASE UNCHANGED <<year, loads>>
  BY <1>1, <1>2 DEF PostingsIInv, PostingsTyped, LastLoadIsCurrent, ListedIsCurrent,
                    PostingsFresh, NoneAccepted
<1>3. CASE /\ year' = CHOOSE y \in years' : \A z \in years' : z <= y
           /\ loads' = Append(loads, Load(year', "effect"))
  <2>1. years' # {} /\ years' \in SUBSET Years
    BY DEF YearsKnown, YearsOf, PostingsIInv, PostingsTyped, PostingsTables, Contents
  <2>2. year' \in SomeYear
    BY <1>3, <2>1, GreatestYear DEF SomeYear
  <2>3. loads' \in Seq(LoadRecord) /\ LastLoadIsCurrent' /\ ListedIsCurrent'
    BY <1>3, <2>2, SentLoadClaimsNothing DEF PostingsIInv, PostingsTyped
  <2>4. PostingsTyped'
    BY <1>1, <2>2, <2>3 DEF PostingsIInv, PostingsTyped
  <2> QED BY <2>3, <2>4 DEF PostingsIInv
<1> QED BY <1>2, <1>3 DEF YearsKnown

LEMMA ServerReadsPostingsPreserves ==
  ASSUME PostingsIInv, NEW i \in 1 .. Len(loads), ServerReadsPostings(i)
  PROVE  PostingsIInv'
<1>1. loads \in Seq(LoadRecord) /\ Len(loads) \in Nat
  BY DEF PostingsIInv, PostingsTyped
<1>2. UNCHANGED <<year, stored, listed, typed, stale, writes>>
  BY DEF ServerReadsPostings, yearVars, shownVars, writeVars
<1>3. RowsOf(stored, loads[i].year) \in PostingsTables
  BY RowsOfIsATable DEF PostingsIInv, PostingsTyped
<1>4. loads[i] \in LoadRecord
  BY <1>1
<1> DEFINE answered == [loads[i] EXCEPT !.read = TRUE, !.got = RowsOf(stored, loads[i].year)]
<1>5. answered \in LoadRecord /\ answered.got = RowsOf(stored, loads[i].year)
      /\ answered.year = loads[i].year
  BY <1>3, <1>4 DEF LoadRecord
<1>6. loads' = [loads EXCEPT ![i] = answered]
  BY DEF ServerReadsPostings
<1> HIDE DEF answered
<1>7. loads' \in Seq(LoadRecord) /\ Len(loads') = Len(loads) /\ loads' # <<>>
  BY <1>1, <1>5, <1>6
<1>8. PostingsTyped'
  BY <1>2, <1>7 DEF PostingsIInv, PostingsTyped
<1>9. LastLoadIsCurrent'
  <2>1. CASE i = Len(loads)
    <3>1. loads'[Len(loads')] = answered
      BY <1>1, <1>6, <1>7, <2>1
    <3> QED BY <1>2, <1>5, <3>1 DEF LastLoadIsCurrent
  <2>2. CASE i # Len(loads)
    <3>1. Len(loads) \in DOMAIN loads /\ Len(loads') = Len(loads) /\ loads # <<>>
      BY <1>1, <1>7
    <3>2. loads'[Len(loads')] = loads[Len(loads)]
      BY <1>6, <2>2, <3>1
    <3>3. NoneAccepted' => NoneAccepted
      BY <1>2 DEF NoneAccepted
    <3>4. LastLoadIsCurrent /\ stored' = stored
      BY <1>2 DEF PostingsIInv
    <3> QED BY <3>1, <3>2, <3>3, <3>4 DEF LastLoadIsCurrent
  <2> QED BY <2>1, <2>2
<1>10. ListedIsCurrent'
  BY <1>7 DEF ListedIsCurrent, PostingsFresh
<1> QED BY <1>8, <1>9, <1>10 DEF PostingsIInv

(* Load i has ended: what the last load claims is claimed still.           *)
LEMMA LoadEndedKeepsTheLast ==
  ASSUME PostingsIInv, NEW i \in 1 .. Len(loads), loads' = LoadsWithout(i),
         UNCHANGED <<stored, writes>>
  PROVE  loads' \in Seq(LoadRecord) /\ LastLoadIsCurrent'
<1>1. loads \in Seq(LoadRecord) /\ Len(loads) \in Nat
  BY DEF PostingsIInv, PostingsTyped
<1>2. CASE i = Len(loads)
  BY <1>1, <1>2, LoadsLeft DEF LastLoadIsCurrent
<1>3. CASE i < Len(loads)
  <2>1. loads'[Len(loads')] = loads[Len(loads)] /\ loads # <<>>
    BY <1>1, <1>3, LoadsLeft
  <2> QED BY <1>1, <2>1, LoadsLeft DEF LastLoadIsCurrent, NoneAccepted, PostingsIInv
<1> QED BY <1>1, <1>2, <1>3

LEMMA LoadAnsweredPreserves ==
  ASSUME PostingsIInv, NEW i \in 1 .. Len(loads), LoadAnswered(i)
  PROVE  PostingsIInv'
<1>1. loads \in Seq(LoadRecord) /\ Len(loads) \in Nat
  BY DEF PostingsIInv, PostingsTyped
<1>2. UNCHANGED <<year, stored, writes>>
  BY DEF LoadAnswered, yearVars
<1>3. loads' \in Seq(LoadRecord) /\ LastLoadIsCurrent'
  BY <1>2, LoadEndedKeepsTheLast DEF LoadAnswered
<1>4. loads[i] \in LoadRecord
  BY <1>1
<1>5. PostingsTyped'
  BY <1>2, <1>3, <1>4 DEF LoadAnswered, PostingsIInv, PostingsTyped, LoadRecord
<1>6. ASSUME NoneAccepted', PostingsFresh'
      PROVE  listed' = RowsOf(stored, year)
  <2>1. LoadsWithout(i) = <<>>
    BY <1>6 DEF LoadAnswered, PostingsFresh
  <2>2. i = Len(loads) /\ loads # <<>>
    BY <1>1, <2>1, LoadsLeft
  <2>3. ~loads[i].overtaken /\ loads[i].year = year /\ loads[i].read /\ NoneAccepted
    BY <1>2, <1>6 DEF LoadAnswered, PostingsFresh, NoneAccepted
  <2>4. loads[i].got = RowsOf(stored, year)
    BY <2>2, <2>3 DEF PostingsIInv, LastLoadIsCurrent
  <2> QED BY <2>4 DEF LoadAnswered
<1>7. ListedIsCurrent'
  BY <1>2, <1>6 DEF ListedIsCurrent
<1> QED BY <1>3, <1>5, <1>7 DEF PostingsIInv

LEMMA LoadFailedPreserves ==
  ASSUME PostingsIInv, NEW i \in 1 .. Len(loads), LoadFailed(i)
  PROVE  PostingsIInv'
<1>1. UNCHANGED <<year, stored, writes, listed, typed>>
  BY DEF LoadFailed, yearVars
<1>2. loads' \in Seq(LoadRecord) /\ LastLoadIsCurrent'
  BY <1>1, LoadEndedKeepsTheLast DEF LoadFailed
<1>3. PostingsTyped'
  BY <1>1, <1>2 DEF PostingsIInv, PostingsTyped
<1>4. ListedIsCurrent'
  BY DEF LoadFailed, ListedIsCurrent, PostingsFresh
<1> QED BY <1>2, <1>3, <1>4 DEF PostingsIInv

(* Typing: the row typed in is excepted from what the table promises.      *)
LEMMA RowTyped ==
  ASSUME PostingsIInv, NEW p \in Postings, NEW c \in Contents,
         listed' = [listed EXCEPT ![p] = c], typed' = typed \cup {p},
         UNCHANGED <<year, stored, stale, loads>>, NoneAccepted' => NoneAccepted
  PROVE  /\ listed' \in PostingsTables /\ typed' \subseteq Postings
         /\ LastLoadIsCurrent' /\ ListedIsCurrent'
<1>1. listed' \in PostingsTables /\ typed' \subseteq Postings
  BY DEF PostingsIInv, PostingsTyped, PostingsTables
<1>2. LastLoadIsCurrent'
  BY DEF PostingsIInv, LastLoadIsCurrent
<1>3. \A q \in Postings \ typed' : q \in Postings \ typed /\ listed'[q] = listed[q]
  BY DEF PostingsIInv, PostingsTyped, PostingsTables
<1>4. ListedIsCurrent'
  BY <1>3 DEF PostingsIInv, ListedIsCurrent, PostingsFresh
<1> QED BY <1>1, <1>2, <1>4

(* A write that is sent has not been carried out.                          *)
LEMMA SentWriteIsTyped ==
  ASSUME PostingsIInv, NEW op \in {"save", "duplicate", "delete"}, NEW p \in Postings,
         NEW c, c \in Contents \cup {NoContent}, SendWrite(op, p, c),
         c = listed[p] \/ c \in Contents,
         op = "duplicate" => CopyOf(p) \in Postings
  PROVE  /\ writes' \subseteq Write
         /\ \A w \in writes' : w.op = "duplicate" => CopyOf(w.posting) \in Postings
         /\ NoneAccepted' => NoneAccepted
<1>1. c \in Contents
  BY DEF SendWrite, EditableRow
<1> DEFINE w == [op |-> op, posting |-> p, content |-> c, year |-> year, answer |-> "none"]
<1>2. w \in Write /\ w.op = op /\ w.posting = p
  BY <1>1 DEF Write, PostingsIInv, PostingsTyped
<1>3. writes' = writes \cup {w}
  BY DEF SendWrite
<1> HIDE DEF w
<1>4. NoneAccepted' => NoneAccepted
  BY <1>3 DEF NoneAccepted
<1> QED BY <1>2, <1>3, <1>4 DEF PostingsIInv, PostingsTyped

LEMMA CashierPreserves ==
  ASSUME PostingsIInv, NEW p \in Postings,
         \/ \E c \in Contents : TypePosting(p, c) \/ SelectAndSave(p, c)
         \/ SavePostingRow(p) \/ DuplicateRow(p) \/ DeletePostingRow(p)
  PROVE  PostingsIInv'
<1>1. ASSUME NEW c \in Contents, TypePosting(p, c)
      PROVE  PostingsIInv'
  <2>1. UNCHANGED <<year, stored, stale, loads, writes>> /\ (NoneAccepted' => NoneAccepted)
    BY <1>1 DEF TypePosting, yearVars, writeVars, NoneAccepted
  <2>2. /\ listed' \in PostingsTables /\ typed' \subseteq Postings
        /\ LastLoadIsCurrent' /\ ListedIsCurrent'
    BY <1>1, <2>1, RowTyped DEF TypePosting
  <2> QED BY <2>1, <2>2 DEF PostingsIInv, PostingsTyped
<1>2. ASSUME NEW c \in Contents, SelectAndSave(p, c)
      PROVE  PostingsIInv'
  <2>1. UNCHANGED <<year, stored, stale, loads>>
    BY <1>2 DEF SelectAndSave, yearVars
  <2>2. /\ writes' \subseteq Write
        /\ \A w \in writes' : w.op = "duplicate" => CopyOf(w.posting) \in Postings
        /\ NoneAccepted' => NoneAccepted
    BY <1>2, SentWriteIsTyped DEF SelectAndSave
  <2>3. /\ listed' \in PostingsTables /\ typed' \subseteq Postings
        /\ LastLoadIsCurrent' /\ ListedIsCurrent'
    BY <1>2, <2>1, <2>2, RowTyped DEF SelectAndSave
  <2> QED BY <2>1, <2>2, <2>3 DEF PostingsIInv, PostingsTyped
<1>3. ASSUME SavePostingRow(p) \/ DuplicateRow(p) \/ DeletePostingRow(p)
      PROVE  PostingsIInv'
  <2>1. UNCHANGED <<year, stored, listed, typed, stale, loads>>
    BY <1>3 DEF SavePostingRow, DuplicateRow, DeletePostingRow, yearVars, shownVars
  <2>2. listed[p] \in Contents \cup {NoContent}
    BY DEF PostingsIInv, PostingsTyped, PostingsTables
  <2>3. /\ writes' \subseteq Write
        /\ \A w \in writes' : w.op = "duplicate" => CopyOf(w.posting) \in Postings
        /\ NoneAccepted' => NoneAccepted
    BY <1>3, <2>2, SentWriteIsTyped DEF SavePostingRow, DuplicateRow, DeletePostingRow
  <2> QED BY <2>1, <2>3 DEF PostingsIInv, PostingsTyped, LastLoadIsCurrent, ListedIsCurrent,
                            PostingsFresh
<1> QED BY <1>1, <1>2, <1>3

LEMMA ServerWritesPostingPreserves ==
  ASSUME PostingsIInv, NEW w \in writes, ServerWritesPosting(w)
  PROVE  PostingsIInv'
<1>1. UNCHANGED <<year, listed, typed, stale, loads>>
  BY DEF ServerWritesPosting, yearVars, shownVars
<1>2. w \in Write /\ stored \in PostingsTables /\ w.answer = "none"
  BY DEF PostingsIInv, PostingsTyped, ServerWritesPosting
<1> DEFINE done == [w EXCEPT !.answer = IF ServerAccepts(w) THEN "ok" ELSE "failed"]
<1>3. /\ done \in Write /\ done.op = w.op /\ done.posting = w.posting
      /\ done.answer = IF ServerAccepts(w) THEN "ok" ELSE "failed"
  BY <1>2 DEF Write
<1>4. writes' = (writes \ {w}) \cup {done}
  BY DEF ServerWritesPosting
<1> HIDE DEF done
<1>5. /\ writes' \subseteq Write
      /\ \A v \in writes' : v.op = "duplicate" => CopyOf(v.posting) \in Postings
  BY <1>3, <1>4 DEF PostingsIInv, PostingsTyped
<1>6. CASE ServerAccepts(w)
  <2>1. ~NoneAccepted'
    BY <1>3, <1>4, <1>6 DEF NoneAccepted
  <2>2. w.op = "duplicate" => CopyOf(w.posting) \in Postings
    BY DEF PostingsIInv, PostingsTyped
  <2>3. PostingWritten(w) \in PostingsTables
    BY <1>2, <2>2 DEF PostingWritten, PostingsTables, Write
  <2>4. stored' \in PostingsTables
    BY <1>6, <2>3 DEF ServerWritesPosting
  <2> QED BY <1>1, <1>5, <2>1, <2>4 DEF PostingsIInv, PostingsTyped, LastLoadIsCurrent,
                                        ListedIsCurrent
<1>7. CASE ~ServerAccepts(w)
  <2>1. stored' = stored
    BY <1>7 DEF ServerWritesPosting
  <2>2. NoneAccepted' => NoneAccepted
    BY <1>2, <1>4 DEF NoneAccepted
  <2> QED BY <1>1, <1>5, <2>1, <2>2 DEF PostingsIInv, PostingsTyped, LastLoadIsCurrent,
                                        ListedIsCurrent, PostingsFresh
<1> QED BY <1>6, <1>7

(* A write that was carried out is followed by a load: the promise is      *)
(* suspended until it has answered.                                        *)
LEMMA WriteAnsweredPreserves ==
  ASSUME PostingsIInv, NEW w \in writes, WriteAnswered(w)
  PROVE  PostingsIInv'
<1>1. w.year \in SomeYear
  BY DEF PostingsIInv, PostingsTyped, Write
<1>2. loads' \in Seq(LoadRecord) /\ LastLoadIsCurrent' /\ ListedIsCurrent'
  BY <1>1, SentLoadClaimsNothing DEF PostingsIInv, PostingsTyped, WriteAnswered
<1>3. PostingsTyped'
  BY <1>2 DEF PostingsIInv, PostingsTyped, WriteAnswered, yearVars, shownVars
<1> QED BY <1>2, <1>3 DEF PostingsIInv

LEMMA WriteFailedPreserves ==
  ASSUME PostingsIInv, NEW w \in writes, WriteFailed(w)
  PROVE  PostingsIInv'
<1>1. loads \in Seq(LoadRecord) /\ Len(loads) \in Nat
  BY DEF PostingsIInv, PostingsTyped
<1>2. \A i \in 1 .. Len(loads) : /\ [loads[i] EXCEPT !.overtaken = TRUE] \in LoadRecord
                                 /\ [loads[i] EXCEPT !.overtaken = TRUE].overtaken
  BY <1>1, OvertakenIsTyped
<1>3. loads' = [i \in 1 .. Len(loads) |-> [loads[i] EXCEPT !.overtaken = TRUE]]
  BY DEF WriteFailed
<1>4. loads' \in Seq(LoadRecord) /\ Len(loads') = Len(loads)
  BY <1>1, <1>2, <1>3
<1>5. PostingsTyped'
  BY <1>4 DEF WriteFailed, PostingsIInv, PostingsTyped, yearVars
<1>6. ListedIsCurrent'
  BY DEF WriteFailed, ListedIsCurrent, PostingsFresh
<1>7. loads' # <<>> => loads'[Len(loads')].overtaken
  BY <1>1, <1>2, <1>3, <1>4
<1>8. LastLoadIsCurrent'
  BY <1>7 DEF LastLoadIsCurrent
<1> QED BY <1>5, <1>6, <1>8 DEF PostingsIInv

LEMMA PostingsNextPreserves ==
  ASSUME PostingsIInv, [PostingsNext]_postingsVars
  PROVE  PostingsIInv'
<1>1. ASSUME UNCHANGED postingsVars PROVE PostingsIInv'
  BY <1>1 DEF postingsVars, PostingsIInv, PostingsTyped, LastLoadIsCurrent, ListedIsCurrent,
              PostingsFresh, NoneAccepted
<1>2. ASSUME Export \/ Exported \/ ExportFailed PROVE PostingsIInv'
  BY <1>2 DEF Export, Exported, ExportFailed, yearVars, shownVars, writeVars, PostingsIInv,
              PostingsTyped, LastLoadIsCurrent, ListedIsCurrent, PostingsFresh, NoneAccepted
<1>3. ASSUME NEW y \in Years \cup {AllYears}, SetYear(y) PROVE PostingsIInv'
  BY <1>3, SetYearPreserves DEF SomeYear
<1>4. ASSUME NEW i \in 1 .. Len(loads),
             ServerReadsPostings(i) \/ LoadAnswered(i) \/ LoadFailed(i)
      PROVE  PostingsIInv'
  BY <1>4, ServerReadsPostingsPreserves, LoadAnsweredPreserves, LoadFailedPreserves
<1>5. ASSUME NEW w \in writes,
             ServerWritesPosting(w) \/ WriteAnswered(w) \/ WriteFailed(w)
      PROVE  PostingsIInv'
  BY <1>5, ServerWritesPostingPreserves, WriteAnsweredPreserves, WriteFailedPreserves
<1> QED BY <1>1, <1>2, <1>3, <1>4, <1>5, YearsKnownPreserves, CashierPreserves DEF PostingsNext

(* What PostingsTyped leaves out: the years offered, the row being saved,  *)
(* the export and the bound on the loads under way.                        *)
LEMMA PostingsTypesAreKept ==
  ASSUME PostingsIInv, PostingsTypeOK, [PostingsNext]_postingsVars
  PROVE  PostingsTypeOK'
<1> DEFINE Exports == [state : {"none", "making", "made"}, year : SomeYear, rows : PostingsTables]
           Rest == /\ years \subseteq Years /\ savingPosting \in Postings \cup {NoPosting}
                   /\ export \in Exports
           Few == Len(loads) <= MaxPostingsLoads
<1>1. PostingsTyped'
  BY PostingsNextPreserves DEF PostingsIInv
<1>2. PostingsTyped' /\ Rest' /\ Few' => PostingsTypeOK'
  <2> SUFFICES ASSUME PostingsTyped', Rest', Few' PROVE PostingsTypeOK'
    OBVIOUS
  <2>1. \A i \in 1 .. Len(loads') : loads'[i] \in LoadRecord
    BY DEF PostingsTyped
  <2>2. \A i \in 1 .. Len(loads') : loads'[i].got \in PostingsTables
    BY <2>1 DEF LoadRecord
  <2>3. \A w \in writes' : w.content \in Contents
    BY DEF PostingsTyped, Write
  <2> QED BY <2>2, <2>3 DEF PostingsTyped, PostingsTypeOK, SomeYear
<1>3. /\ loads \in Seq(LoadRecord) /\ Len(loads) \in Nat /\ Rest /\ Few
      /\ year \in SomeYear /\ stored \in PostingsTables /\ listed \in PostingsTables
  BY DEF PostingsIInv, PostingsTyped, PostingsTypeOK, SomeYear
<1>4. ASSUME NEW y, NEW by, Len(loads) < MaxPostingsLoads
      PROVE  Len(Append(loads, Load(y, by))) <= MaxPostingsLoads
  BY <1>3, <1>4, PostingsAssumption
<1>5. ASSUME NEW i \in 1 .. Len(loads), LoadAnswered(i) \/ LoadFailed(i) PROVE Rest' /\ Few'
  <2>1. Len(LoadsWithout(i)) = Len(loads) - 1
    BY <1>3, LoadsLeft
  <2>2. MaxPostingsLoads \in Nat /\ loads' = LoadsWithout(i)
    BY <1>5, PostingsAssumption DEF LoadAnswered, LoadFailed
  <2>3. Few'
    BY <1>3, <2>1, <2>2
  <2> QED BY <1>3, <1>5, <2>3 DEF LoadAnswered, LoadFailed, yearVars
<1>6. ASSUME NEW y \in Years \cup {AllYears}, SetYear(y) PROVE Rest' /\ Few'
  BY <1>3, <1>4, <1>6 DEF SetYear, writeVars
<1>7. ASSUME YearsKnown PROVE Rest' /\ Few'
  <2>1. YearsOf(stored) \subseteq Years
    BY <1>3 DEF YearsOf, PostingsTables, Contents
  <2>2. /\ years' \subseteq Years /\ UNCHANGED <<savingPosting, export>>
        /\ Len(loads) < MaxPostingsLoads
        /\ loads' = loads \/ loads' = Append(loads, Load(year', "effect"))
    BY <1>7, <2>1 DEF YearsKnown, writeVars
  <2> QED BY <1>3, <1>4, <2>2
<1>8. ASSUME NEW i \in 1 .. Len(loads), ServerReadsPostings(i) PROVE Rest' /\ Few'
  BY <1>3, <1>8 DEF ServerReadsPostings, yearVars, writeVars
<1>9. ASSUME NEW w \in writes, WriteAnswered(w) PROVE Rest' /\ Few'
  BY <1>3, <1>4, <1>9 DEF WriteAnswered, yearVars
<1>10. ASSUME NEW w \in writes, WriteFailed(w) PROVE Rest' /\ Few'
  <2>1. Len(loads') = Len(loads)
    BY <1>3, <1>10 DEF WriteFailed
  <2> QED BY <1>3, <1>10, <2>1 DEF WriteFailed, yearVars
<1>11. ASSUME UNCHANGED postingsVars \/ \E w \in writes : ServerWritesPosting(w)
       PROVE  Rest' /\ Few'
  <2>1. UNCHANGED <<years, savingPosting, export, loads>>
    BY <1>11 DEF postingsVars, ServerWritesPosting, yearVars
  <2> QED BY <1>3, <2>1
<1>12. ASSUME NEW p \in Postings,
              \/ \E c \in Contents : TypePosting(p, c) \/ SelectAndSave(p, c)
              \/ SavePostingRow(p) \/ DuplicateRow(p) \/ DeletePostingRow(p)
       PROVE  Rest' /\ Few'
  BY <1>3, <1>12 DEF TypePosting, SelectAndSave, SavePostingRow, DuplicateRow, DeletePostingRow,
                     yearVars, writeVars
<1>13. ASSUME Export \/ Exported \/ ExportFailed PROVE Rest' /\ Few'
  <2>1. UNCHANGED <<years, savingPosting, loads>>
    BY <1>13 DEF Export, Exported, ExportFailed, yearVars, writeVars
  <2>2. NoExport \in Exports
    BY UnreadIsATable DEF NoExport, SomeYear
  <2>3. export' \in Exports
    <3>1. CASE Export
      BY <1>3, <3>1 DEF Export
    <3>2. CASE Exported
      <4>1. export' = [export EXCEPT !.state = "made"] /\ export \in Exports
        BY <1>3, <3>2 DEF Exported
      <4> QED BY <4>1
    <3>3. CASE ExportFailed
      BY <2>2, <3>3 DEF ExportFailed
    <3> QED BY <1>13, <3>1, <3>2, <3>3
  <2> QED BY <1>3, <2>1, <2>3
<1> HIDE DEF Rest, Few
<1> QED BY <1>1, <1>2, <1>5, <1>6, <1>7, <1>8, <1>9, <1>10, <1>11, <1>12, <1>13 DEF PostingsNext

(* Every variable of the tables of postings keeps its type, and the loads  *)
(* their bound.                                                            *)
THEOREM PostingsTyping == PostingsSpec => []PostingsTypeOK
<1>1. ASSUME PostingsInit PROVE PostingsTypeOK
  <2>1. Load(year, "effect") \in LoadRecord
    BY <1>1, LoadIsTyped DEF PostingsInit, SomeYear
  <2>2. Len(loads) = 1 /\ loads[1].got \in PostingsTables
    BY <1>1, <2>1 DEF PostingsInit, LoadRecord
  <2>3. NoExport \in [state : {"none", "making", "made"}, year : Years \cup {AllYears},
                      rows : PostingsTables]
    BY UnreadIsATable DEF NoExport
  <2> QED BY <1>1, <2>2, <2>3, UnreadIsATable, PostingsAssumption DEF PostingsInit, PostingsTypeOK
<1>2. PostingsIInv /\ PostingsTypeOK /\ [PostingsNext]_postingsVars => PostingsTypeOK'
  BY PostingsTypesAreKept
<1> QED BY <1>1, <1>2, PostingsInitEstablishes, PostingsNextPreserves, PTL DEF PostingsSpec

(* When nothing is under way the table shows the stored postings of the    *)
(* year selected, whatever order the requests were answered in.            *)
THEOREM TableShowsWhatIsStored == PostingsSpec => []TableShowsTheYear
<1>1. PostingsIInv => TableShowsTheYear
  BY DEF PostingsIInv, ListedIsCurrent, NoneAccepted, TableShowsTheYear
<1> QED BY <1>1, PostingsInitEstablishes, PostingsNextPreserves, PTL DEF PostingsSpec

-----------------------------------------------------------------------------
(* The forms with one record                                               *)

ReadRecord == [of : Urls, by : {"effect", "refresh"}, got : Values \cup {NoValue}, read : BOOLEAN,
               overtaken : BOOLEAN]

(* What is typed; the list has no form, no loads and no handlers that load.*)
FormTyped ==
  /\ url \in Urls \cup {List}
  /\ store \in [RecordIds -> Values \cup {NoValue}]
  /\ form \in Form \cup {NoForm}
  /\ reads \in Seq(ReadRecord)
  /\ \A i \in 1 .. Len(reads) : reads[i].of = New => reads[i].read
  /\ formCalls \subseteq FormCall
  /\ url = List => form = NoForm /\ reads = <<>> /\ \A c \in formCalls : ~c.here

(* Load i is the last one an effect has sent.                              *)
LastEffect(i) == reads[i].by = "effect" /\ \A j \in i + 1 .. Len(reads) : reads[j].by # "effect"

(* Every change of the URL sends a load, so the last one is of the URL,    *)
(* unless a later one has ended before it.                                 *)
ReadIsOfTheUrl ==
  \A i \in 1 .. Len(reads) : (LastEffect(i) /\ ~reads[i].overtaken) => reads[i].of = url

(* When no effect's load is under way and none has failed, the form was    *)
(* loaded from the URL; a load that renews the heading does not touch it.  *)
FormIsOfTheUrl ==
  (~formStale /\ \A i \in 1 .. Len(reads) : reads[i].by # "effect") => form.of = url

(* The invariant that is inductive.                                        *)
FormIInv == FormTyped /\ ReadIsOfTheUrl /\ FormIsOfTheUrl /\ WritesItsOwnRecord

LEMMA ListIsNoUrl == List \notin Urls
BY FormAssumption DEF Urls

LEMMA FormIsNotNoForm ==
  ASSUME NEW f \in Form
  PROVE  f # NoForm
BY ListIsNoUrl DEF Form, NoForm

LEMMA ReadIsTyped ==
  ASSUME NEW u \in Urls, NEW by \in {"effect", "refresh"}
  PROVE  /\ Read(u, by) \in ReadRecord
         /\ Read(u, by).of = u /\ Read(u, by).by = by
         /\ u = New => Read(u, by).read
<1>1. Blank \in Values
  BY FormAssumption DEF Blank
<1> QED BY <1>1 DEF Read, ReadRecord

LEMMA FormInitEstablishes ==
  ASSUME FormInit
  PROVE  FormIInv
<1>1. Blank \in Values
  BY FormAssumption DEF Blank
<1>2. FormTyped
  BY <1>1 DEF FormInit, FormTyped
<1> QED BY <1>2 DEF FormInit, FormIInv, ReadIsOfTheUrl, FormIsOfTheUrl, WritesItsOwnRecord

(* A page that is left forgets its loads.                                  *)
LEMMA UnmountedPreserves ==
  ASSUME FormIInv, Unmounted, store' = store, NEW left \in SUBSET formCalls,
         formCalls' = {[c EXCEPT !.here = FALSE] : c \in left}
  PROVE  FormIInv'
<1>1. \A c \in FormCall : LET d == [c EXCEPT !.here = FALSE] IN
        d \in FormCall /\ ~d.here /\ d.fresh = c.fresh /\ d.of = c.of /\ d.target = c.target
  BY DEF FormCall
<1>2. ASSUME NEW d \in formCalls'
      PROVE  d \in FormCall /\ ~d.here /\ (d.fresh => d.of = d.target)
  <2>1. PICK c \in left : d = [c EXCEPT !.here = FALSE]
    OBVIOUS
  <2>2. c \in FormCall /\ (c.fresh => c.of = c.target)
    BY DEF FormIInv, FormTyped, WritesItsOwnRecord
  <2> QED BY <1>1, <2>1, <2>2
<1>3. WritesItsOwnRecord'
  BY <1>2 DEF WritesItsOwnRecord
<1>4. FormTyped'
  BY <1>2 DEF Unmounted, FormIInv, FormTyped
<1>5. ReadIsOfTheUrl' /\ FormIsOfTheUrl'
  BY DEF Unmounted, ReadIsOfTheUrl, FormIsOfTheUrl
<1> QED BY <1>3, <1>4, <1>5 DEF FormIInv

(* Opening a record sends the load that will fill the form.                *)
LEMMA OpenPreserves ==
  ASSUME FormIInv, NEW u \in Urls, Open(u)
  PROVE  FormIInv'
<1>1. reads \in Seq(ReadRecord) /\ Len(reads) \in Nat
  BY DEF FormIInv, FormTyped
<1>2. /\ Read(u, "effect") \in ReadRecord /\ Read(u, "effect").of = u
      /\ Read(u, "effect").by = "effect" /\ (u = New => Read(u, "effect").read)
  BY ReadIsTyped
<1>3. /\ reads' \in Seq(ReadRecord) /\ Len(reads') = Len(reads) + 1
      /\ reads'[Len(reads) + 1] = Read(u, "effect")
      /\ \A i \in 1 .. Len(reads) : reads'[i] = reads[i]
  BY <1>1, <1>2 DEF Open
<1>4. FormTyped'
  <2>1. \A i \in 1 .. Len(reads') : reads'[i].of = New => reads'[i].read
    BY <1>1, <1>2, <1>3 DEF FormIInv, FormTyped
  <2> QED BY <1>3, <2>1, ListIsNoUrl DEF Open, FormIInv, FormTyped
<1>5. ReadIsOfTheUrl'
  <2>1. ASSUME NEW i \in 1 .. Len(reads'), LastEffect(i)' PROVE reads'[i].of = url'
    <3>1. i = Len(reads) + 1
      BY <1>1, <1>2, <1>3, <2>1 DEF LastEffect
    <3> QED BY <1>2, <1>3, <3>1 DEF Open
  <2> QED BY <2>1 DEF ReadIsOfTheUrl
<1>6. FormIsOfTheUrl'
  BY <1>1, <1>2, <1>3 DEF FormIsOfTheUrl
<1>7. WritesItsOwnRecord'
  BY DEF Open, FormIInv, WritesItsOwnRecord
<1> QED BY <1>4, <1>5, <1>6, <1>7 DEF FormIInv

(* What the server answers does not change whose load it is.               *)
LEMMA ServerReadsRecordPreserves ==
  ASSUME FormIInv, NEW i \in 1 .. Len(reads), ServerReadsRecord(i)
  PROVE  FormIInv'
<1>1. reads \in Seq(ReadRecord) /\ Len(reads) \in Nat /\ reads[i] \in ReadRecord
  BY DEF FormIInv, FormTyped
<1>2. reads[i].of \in RecordIds
  BY <1>1 DEF FormIInv, FormTyped, ServerReadsRecord, ReadRecord, Urls
<1>3. store[reads[i].of] \in Values \cup {NoValue}
  BY <1>2 DEF FormIInv, FormTyped
<1> DEFINE answered == [reads[i] EXCEPT !.read = TRUE, !.got = store[reads[i].of]]
<1>4. /\ answered \in ReadRecord /\ answered.of = reads[i].of /\ answered.by = reads[i].by
      /\ answered.overtaken = reads[i].overtaken /\ answered.read
  BY <1>1, <1>3 DEF ReadRecord
<1>5. reads' = [reads EXCEPT ![i] = answered]
  BY DEF ServerReadsRecord
<1> HIDE DEF answered
<1>6. reads' \in Seq(ReadRecord) /\ Len(reads') = Len(reads)
  BY <1>1, <1>4, <1>5
<1>7. \A j \in 1 .. Len(reads) :
        /\ reads'[j].of = reads[j].of /\ reads'[j].by = reads[j].by
        /\ reads'[j].overtaken = reads[j].overtaken
        /\ reads[j].read => reads'[j].read
  BY <1>1, <1>4, <1>5
<1>8. UNCHANGED <<url, store, form, formCalls, formStale>>
  BY DEF ServerReadsRecord
<1>9. FormTyped'
  <2>1. url # List
    BY <1>1 DEF FormIInv, FormTyped
  <2> QED BY <1>6, <1>7, <1>8, <2>1 DEF FormIInv, FormTyped
<1>10. \A j \in 1 .. Len(reads) : LastEffect(j)' => LastEffect(j)
  BY <1>1, <1>6, <1>7 DEF LastEffect
<1>11. ReadIsOfTheUrl'
  BY <1>6, <1>7, <1>8, <1>10 DEF FormIInv, ReadIsOfTheUrl
<1>12. FormIsOfTheUrl' /\ WritesItsOwnRecord'
  BY <1>6, <1>7, <1>8 DEF FormIInv, FormIsOfTheUrl, WritesItsOwnRecord
<1> QED BY <1>9, <1>11, <1>12 DEF FormIInv

(* When load i ends, each that is left was one before: those sent before it*)
(* are overtaken and those sent after it move up.                          *)
LEMMA ReadsLeft ==
  ASSUME reads \in Seq(ReadRecord), NEW i \in 1 .. Len(reads)
  PROVE  /\ ReadsWithout(i) \in Seq(ReadRecord)
         /\ Len(ReadsWithout(i)) = Len(reads) - 1
         /\ \A j \in 1 .. Len(reads) - 1 : j >= i => ReadsWithout(i)[j] = reads[j + 1]
         /\ \A j \in 1 .. Len(reads) - 1 : j < i =>
              /\ ReadsWithout(i)[j].overtaken /\ ReadsWithout(i)[j].by = reads[j].by
              /\ ReadsWithout(i)[j].of = reads[j].of /\ ReadsWithout(i)[j].read = reads[j].read
<1> DEFINE n == Len(reads) - 1
           at(j) == IF j < i THEN [reads[j] EXCEPT !.overtaken = TRUE] ELSE reads[j + 1]
<1>1. n \in Nat /\ Len(reads) \in Nat
  OBVIOUS
<1>2. \A r \in ReadRecord : LET o == [r EXCEPT !.overtaken = TRUE] IN
        o \in ReadRecord /\ o.overtaken /\ o.by = r.by /\ o.of = r.of /\ o.read = r.read
  BY DEF ReadRecord
<1>3. \A j \in 1 .. n : reads[j] \in ReadRecord /\ reads[j + 1] \in ReadRecord
  BY <1>1
<1>4. \A j \in 1 .. n : at(j) \in ReadRecord
  BY <1>2, <1>3
<1>5. ReadsWithout(i) = [j \in 1 .. n |-> at(j)]
  BY DEF ReadsWithout
<1> HIDE DEF n
<1>6. ReadsWithout(i) \in [1 .. n -> ReadRecord]
  BY <1>4, <1>5
<1>7. ReadsWithout(i) \in Seq(ReadRecord) /\ Len(ReadsWithout(i)) = n
  BY <1>1, <1>6
<1>8. \A j \in 1 .. n : j >= i => ReadsWithout(i)[j] = reads[j + 1]
  BY <1>1, <1>5
<1>9. \A j \in 1 .. n : j < i => ReadsWithout(i)[j] = [reads[j] EXCEPT !.overtaken = TRUE]
  BY <1>1, <1>5
<1> QED BY <1>2, <1>3, <1>7, <1>8, <1>9 DEF n

(* So the last load of an effect that is left and not overtaken was the    *)
(* last one before.                                                        *)
LEMMA ReadEndedKeepsTheLast ==
  ASSUME FormIInv, NEW i \in 1 .. Len(reads), reads' = ReadsWithout(i),
         UNCHANGED <<url, store, formCalls>>, form' \in Form \cup {NoForm}
  PROVE  /\ FormTyped' /\ ReadIsOfTheUrl'
         /\ \A j \in i + 1 .. Len(reads) : j - 1 \in 1 .. Len(reads') /\ reads'[j - 1] = reads[j]
<1>1. reads \in Seq(ReadRecord) /\ Len(reads) \in Nat
  BY DEF FormIInv, FormTyped
<1>2. /\ reads' \in Seq(ReadRecord) /\ Len(reads') = Len(reads) - 1
      /\ \A j \in 1 .. Len(reads) - 1 : j >= i => reads'[j] = reads[j + 1]
      /\ \A j \in 1 .. Len(reads) - 1 : j < i =>
           /\ reads'[j].overtaken /\ reads'[j].by = reads[j].by
           /\ reads'[j].of = reads[j].of /\ reads'[j].read = reads[j].read
  BY <1>1, ReadsLeft
<1>3. url # List
  BY <1>1 DEF FormIInv, FormTyped
<1>4. \A j \in 1 .. Len(reads') : reads'[j].of = New => reads'[j].read
  BY <1>1, <1>2 DEF FormIInv, FormTyped
<1>5. FormTyped'
  BY <1>2, <1>3, <1>4 DEF FormIInv, FormTyped
<1>6. \A j \in i + 1 .. Len(reads) : j - 1 \in 1 .. Len(reads') /\ reads'[j - 1] = reads[j]
  BY <1>1, <1>2
<1>7. ASSUME NEW j \in 1 .. Len(reads'), LastEffect(j)', ~reads'[j].overtaken
      PROVE  reads'[j].of = url'
  <2>1. j >= i /\ reads'[j] = reads[j + 1] /\ j + 1 \in 1 .. Len(reads) /\ j \in Nat
    BY <1>1, <1>2, <1>7
  <2>2. ASSUME NEW k \in j + 2 .. Len(reads) PROVE reads[k].by # "effect"
    <3>1. k - 1 \in j + 1 .. Len(reads') /\ reads'[k - 1] = reads[k]
      BY <1>1, <1>2, <1>6, <2>1
    <3> QED BY <1>7, <3>1 DEF LastEffect
  <2>3. LastEffect(j + 1)
    BY <1>1, <1>7, <2>1, <2>2 DEF LastEffect
  <2> QED BY <1>7, <2>1, <2>3 DEF FormIInv, ReadIsOfTheUrl
<1>8. ReadIsOfTheUrl'
  BY <1>7 DEF ReadIsOfTheUrl
<1> QED BY <1>5, <1>6, <1>8

LEMMA ReadAnsweredPreserves ==
  ASSUME FormIInv, NEW i \in 1 .. Len(reads), ReadAnswered(i)
  PROVE  FormIInv'
<1>1. reads \in Seq(ReadRecord) /\ Len(reads) \in Nat /\ reads[i] \in ReadRecord
  BY DEF FormIInv, FormTyped
<1> DEFINE record == [of |-> reads[i].of, id |-> reads[i].of, value |-> reads[i].got]
<1>2. record \in Form /\ record.of = reads[i].of
  BY <1>1 DEF ReadAnswered, ReadRecord, Form
<1>3. IF reads[i].by = "effect" THEN form' = record /\ formStale' = reads[i].overtaken
                                ELSE UNCHANGED <<form, formStale>>
  BY DEF ReadAnswered
<1> HIDE DEF record
<1>4. form' \in Form \cup {NoForm}
  BY <1>2, <1>3 DEF FormIInv, FormTyped
<1>5. /\ FormTyped' /\ ReadIsOfTheUrl'
      /\ \A j \in i + 1 .. Len(reads) : j - 1 \in 1 .. Len(reads') /\ reads'[j - 1] = reads[j]
  BY <1>4, ReadEndedKeepsTheLast DEF ReadAnswered
<1>6. ASSUME ~formStale', \A j \in 1 .. Len(reads') : reads'[j].by # "effect"
      PROVE  form'.of = url'
  <2>1. \A j \in i + 1 .. Len(reads) : reads[j].by # "effect"
    BY <1>5, <1>6
  <2>2. CASE reads[i].by = "effect"
    <3>1. LastEffect(i) /\ ~reads[i].overtaken
      BY <1>3, <1>6, <2>1, <2>2 DEF LastEffect
    <3>2. reads[i].of = url
      BY <3>1 DEF FormIInv, ReadIsOfTheUrl
    <3> QED BY <1>2, <1>3, <2>2, <3>2 DEF ReadAnswered
  <2>3. CASE reads[i].by # "effect"
    <3>1. ASSUME NEW j \in 1 .. i - 1
          PROVE  j \in 1 .. Len(reads') /\ reads'[j].by = reads[j].by
      <4>1. reads' = ReadsWithout(i) /\ j \in 1 .. Len(reads) - 1 /\ j < i
        BY <1>1 DEF ReadAnswered
      <4> QED BY <1>1, <4>1, ReadsLeft
    <3>2. \A j \in 1 .. Len(reads) : reads[j].by # "effect"
      BY <1>1, <1>6, <2>1, <2>3, <3>1
    <3> QED BY <1>3, <1>6, <2>3, <3>2 DEF ReadAnswered, FormIInv, FormIsOfTheUrl
  <2> QED BY <2>2, <2>3
<1>7. FormIsOfTheUrl'
  BY <1>6 DEF FormIsOfTheUrl
<1>8. WritesItsOwnRecord'
  BY DEF ReadAnswered, FormIInv, WritesItsOwnRecord
<1> QED BY <1>5, <1>7, <1>8 DEF FormIInv

LEMMA ReadFailedPreserves ==
  ASSUME FormIInv, NEW i \in 1 .. Len(reads), ReadFailed(i)
  PROVE  FormIInv'
<1>1. FormTyped' /\ ReadIsOfTheUrl'
  BY ReadEndedKeepsTheLast DEF ReadFailed, FormIInv, FormTyped
<1>2. FormIsOfTheUrl' /\ WritesItsOwnRecord'
  BY DEF ReadFailed, FormIInv, FormIsOfTheUrl, WritesItsOwnRecord
<1> QED BY <1>1, <1>2 DEF FormIInv

LEMMA TypeFieldPreserves ==
  ASSUME FormIInv, NEW id \in Urls, NEW value \in Values, TypeField(id, value)
  PROVE  FormIInv'
<1>1. form \in Form
  BY DEF FormIInv, FormTyped, TypeField, BudgetForm, GroupForm, PostingForm
<1>2. form' \in Form /\ form'.of = form.of
  BY <1>1 DEF TypeField, Form
<1>3. url # List
  BY <1>1, FormIsNotNoForm DEF FormIInv, FormTyped
<1>4. UNCHANGED <<url, store, reads, formCalls, formStale>>
  BY DEF TypeField
<1> QED BY <1>2, <1>3, <1>4 DEF FormIInv, FormTyped, ReadIsOfTheUrl, LastEffect, FormIsOfTheUrl,
                                WritesItsOwnRecord

(* A write that is sent with a form that is fresh names the form's record. *)
LEMMA SendPreserves ==
  ASSUME FormIInv, SaveRecord \/ SavePosting \/ RemoveRecord
  PROVE  FormIInv'
<1>1. PICK op \in {"create", "update", "delete"} : SendForm(op)
  BY DEF SaveRecord, SavePosting, RemoveRecord
<1>2. UNCHANGED <<url, store, form, reads, formStale>>
  BY DEF SaveRecord, SavePosting, RemoveRecord
<1>3. form \in Form /\ url # List
  BY FormIsNotNoForm DEF FormIInv, FormTyped, SaveRecord, SavePosting, RemoveRecord, BudgetForm,
                         GroupForm, PostingForm
<1> DEFINE c == [op |-> op, of |-> form.of, target |-> url, id |-> form.id, value |-> form.value,
                 fresh |-> FormFresh, here |-> TRUE, answer |-> "none"]
<1>4. FormFresh \in BOOLEAN
  BY DEF FormFresh
<1>5. c \in FormCall
  BY <1>3, <1>4 DEF FormCall, Form, FormIInv, FormTyped
<1>6. c.fresh => c.of = c.target
  <2>1. reads = <<>> => \A i \in 1 .. Len(reads) : reads[i].by # "effect"
    OBVIOUS
  <2>2. FormFresh => form.of = url
    BY <2>1 DEF FormFresh, FormIInv, FormIsOfTheUrl
  <2> QED BY <2>2
<1>7. formCalls' = formCalls \cup {c}
  BY <1>1 DEF SendForm
<1> HIDE DEF c
<1>8. FormTyped' /\ WritesItsOwnRecord'
  BY <1>2, <1>3, <1>5, <1>6, <1>7 DEF FormIInv, FormTyped, WritesItsOwnRecord
<1>9. ReadIsOfTheUrl' /\ FormIsOfTheUrl'
  BY <1>2 DEF FormIInv, ReadIsOfTheUrl, LastEffect, FormIsOfTheUrl
<1> QED BY <1>8, <1>9 DEF FormIInv

LEMMA ServerWritesRecordPreserves ==
  ASSUME FormIInv, NEW c \in formCalls, ServerWritesRecord(c)
  PROVE  FormIInv'
<1>1. c \in FormCall /\ store \in [RecordIds -> Values \cup {NoValue}]
  BY DEF FormIInv, FormTyped
<1>2. store' \in [RecordIds -> Values \cup {NoValue}]
  BY <1>1 DEF ServerWritesRecord, RecordWritten, FormCall
<1> DEFINE d == [c EXCEPT !.answer = IF Accepted(c) THEN "ok" ELSE "failed"]
<1>3. /\ d \in FormCall /\ d.fresh = c.fresh /\ d.of = c.of /\ d.target = c.target
      /\ d.here = c.here
  BY <1>1 DEF FormCall
<1>4. formCalls' = (formCalls \ {c}) \cup {d}
  BY DEF ServerWritesRecord
<1> HIDE DEF d
<1>5. UNCHANGED <<url, form, reads, formStale>>
  BY DEF ServerWritesRecord
<1>6. FormTyped' /\ WritesItsOwnRecord'
  BY <1>2, <1>3, <1>4, <1>5 DEF FormIInv, FormTyped, WritesItsOwnRecord
<1>7. ReadIsOfTheUrl' /\ FormIsOfTheUrl'
  BY <1>5 DEF FormIInv, ReadIsOfTheUrl, LastEffect, FormIsOfTheUrl
<1> QED BY <1>6, <1>7 DEF FormIInv

(* A load that renews the heading is no effect's.                          *)
LEMMA PostingSavedPreserves ==
  ASSUME FormIInv, NEW c \in formCalls, PostingSaved(c)
  PROVE  FormIInv'
<1>1. reads \in Seq(ReadRecord) /\ Len(reads) \in Nat /\ c.target \in Urls
  BY DEF FormIInv, FormTyped, FormCall
<1>2. UNCHANGED <<url, store, form, formStale>> /\ formCalls' \subseteq formCalls
  BY DEF PostingSaved
<1>3. CASE reads' = reads
  BY <1>2, <1>3 DEF FormIInv, FormTyped, ReadIsOfTheUrl, LastEffect, FormIsOfTheUrl,
                    WritesItsOwnRecord
<1>4. CASE c.here /\ reads' = Append(reads, Read(c.target, "refresh"))
  <2> DEFINE r == Read(c.target, "refresh")
  <2>1. r \in ReadRecord /\ r.by # "effect" /\ (r.of = New => r.read)
    BY <1>1, ReadIsTyped
  <2> HIDE DEF r
  <2>2. reads' = Append(reads, r)
    BY <1>4 DEF r
  <2>3. /\ reads' \in Seq(ReadRecord) /\ Len(reads') = Len(reads) + 1
        /\ reads'[Len(reads) + 1] = r /\ \A i \in 1 .. Len(reads) : reads'[i] = reads[i]
    BY <1>1, <2>1, <2>2
  <2>4. url # List
    BY <1>4 DEF FormIInv, FormTyped
  <2>5. \A i \in 1 .. Len(reads') : reads'[i].of = New => reads'[i].read
    BY <1>1, <2>1, <2>3 DEF FormIInv, FormTyped
  <2>6. FormTyped' /\ WritesItsOwnRecord'
    BY <1>2, <2>3, <2>4, <2>5 DEF FormIInv, FormTyped, WritesItsOwnRecord
  <2>7. ASSUME NEW i \in 1 .. Len(reads'), LastEffect(i)', ~reads'[i].overtaken
        PROVE  reads'[i].of = url'
    <3>1. i \in 1 .. Len(reads) /\ reads'[i] = reads[i]
      BY <1>1, <2>1, <2>3, <2>7 DEF LastEffect
    <3>2. LastEffect(i)
      BY <1>1, <2>3, <2>7, <3>1 DEF LastEffect
    <3> QED BY <1>2, <2>7, <3>1, <3>2 DEF FormIInv, ReadIsOfTheUrl
  <2>8. ReadIsOfTheUrl'
    BY <2>7 DEF ReadIsOfTheUrl
  <2>9. FormIsOfTheUrl'
    BY <1>1, <1>2, <2>3 DEF FormIInv, FormIsOfTheUrl
  <2> QED BY <2>6, <2>8, <2>9 DEF FormIInv
<1> QED BY <1>3, <1>4 DEF PostingSaved

LEMMA FailedPreserves ==
  ASSUME FormIInv, NEW c \in formCalls, Failed(c)
  PROVE  FormIInv'
BY DEF Failed, FormIInv, FormTyped, ReadIsOfTheUrl, LastEffect, FormIsOfTheUrl, WritesItsOwnRecord

LEMMA FormNextPreserves ==
  ASSUME FormIInv, [FormNext]_formVars
  PROVE  FormIInv'
<1>1. ASSUME UNCHANGED formVars PROVE FormIInv'
  BY <1>1 DEF formVars, FormIInv, FormTyped, ReadIsOfTheUrl, LastEffect, FormIsOfTheUrl,
              WritesItsOwnRecord
<1>2. ASSUME Leave PROVE FormIInv'
  BY <1>2, UnmountedPreserves DEF Leave
<1>3. ASSUME NEW c \in formCalls, Answered(c) PROVE FormIInv'
  <2>1. formCalls \ {c} \in SUBSET formCalls
    OBVIOUS
  <2> QED BY <1>3, <2>1, UnmountedPreserves DEF Answered
<1>4. ASSUME NEW i \in 1 .. Len(reads), ServerReadsRecord(i) \/ ReadAnswered(i) \/ ReadFailed(i)
      PROVE  FormIInv'
  BY <1>4, ServerReadsRecordPreserves, ReadAnsweredPreserves, ReadFailedPreserves
<1>5. ASSUME NEW c \in formCalls, ServerWritesRecord(c) \/ PostingSaved(c) \/ Failed(c)
      PROVE  FormIInv'
  BY <1>5, ServerWritesRecordPreserves, PostingSavedPreserves, FailedPreserves
<1> QED BY <1>1, <1>2, <1>3, <1>4, <1>5, OpenPreserves, TypeFieldPreserves, SendPreserves
        DEF FormNext

(* What FormTyped leaves out: the heading, the button and the bound on the *)
(* loads under way.                                                        *)
LEMMA FormTypesAreKept ==
  ASSUME FormIInv, FormTypeOK, [FormNext]_formVars
  PROVE  FormTypeOK'
<1> DEFINE Rest == /\ heading \in Form \cup {NoForm} /\ savingForm \in BOOLEAN
                   /\ Len(reads) <= MaxFormLoads
<1>1. FormTyped' /\ (FormTyped' /\ Rest' => FormTypeOK')
  BY FormNextPreserves DEF FormIInv, FormTyped, FormTypeOK
<1>2. reads \in Seq(ReadRecord) /\ Len(reads) \in Nat /\ Rest
  BY DEF FormIInv, FormTyped, FormTypeOK
<1>3. ASSUME NEW u, NEW by, Len(reads) < MaxFormLoads
      PROVE  Len(Append(reads, Read(u, by))) <= MaxFormLoads
  BY <1>2, <1>3, FormAssumption
<1>4. ASSUME NEW u \in Urls, Open(u) PROVE Rest'
  BY <1>2, <1>3, <1>4 DEF Open
<1>5. ASSUME NEW i \in 1 .. Len(reads), ServerReadsRecord(i) PROVE Rest'
  BY <1>2, <1>5 DEF ServerReadsRecord
<1>6. ASSUME NEW i \in 1 .. Len(reads), ReadAnswered(i) \/ ReadFailed(i) PROVE Rest'
  <2>1. Len(ReadsWithout(i)) = Len(reads) - 1
    BY <1>2, ReadsLeft
  <2>2. Len(reads') <= MaxFormLoads
    BY <1>2, <1>6, <2>1, FormAssumption DEF ReadAnswered, ReadFailed
  <2>3. reads[i] \in ReadRecord
    BY <1>2
  <2>4. heading' \in Form \cup {NoForm} /\ savingForm' \in BOOLEAN
    BY <1>2, <1>6, <2>3 DEF ReadAnswered, ReadFailed, ReadRecord, Form
  <2> QED BY <2>2, <2>4
<1>7. ASSUME Leave \/ \E c \in formCalls : Answered(c) PROVE Rest'
  <2>1. heading' = NoForm /\ reads' = <<>> /\ savingForm' = FALSE
    BY <1>7 DEF Leave, Answered, Unmounted
  <2>2. savingForm' \in BOOLEAN
    BY <2>1, Zenon
  <2>3. MaxFormLoads \in Nat /\ Len(reads') = 0
    BY <2>1, FormAssumption
  <2>4. Len(reads') <= MaxFormLoads
    BY <2>3
  <2> QED BY <2>1, <2>2, <2>4, Zenon
<1>8. ASSUME NEW c \in formCalls, PostingSaved(c) PROVE Rest'
  BY <1>2, <1>3, <1>8 DEF PostingSaved
<1>9. ASSUME UNCHANGED <<heading, reads>>, savingForm' \in {TRUE, FALSE, savingForm} PROVE Rest'
  BY <1>2, <1>9
<1>10. ASSUME \/ UNCHANGED formVars \/ SaveRecord \/ SavePosting \/ RemoveRecord
              \/ \E u \in Urls, v \in Values : TypeField(u, v)
              \/ \E c \in formCalls : ServerWritesRecord(c) \/ Failed(c)
       PROVE  Rest'
  <2>1. UNCHANGED <<heading, reads>>
    BY <1>10 DEF formVars, TypeField, SaveRecord, SavePosting, RemoveRecord, ServerWritesRecord,
                 Failed
  <2>2. savingForm' \in {TRUE, FALSE, savingForm}
    BY <1>10 DEF formVars, TypeField, SaveRecord, SavePosting, RemoveRecord, ServerWritesRecord,
                 Failed
  <2> QED BY <1>9, <2>1, <2>2
<1> HIDE DEF Rest
<1> QED BY <1>1, <1>4, <1>5, <1>6, <1>7, <1>8, <1>10 DEF FormNext

(* Every variable of a form's page keeps its type, and its loads their     *)
(* bound.                                                                  *)
THEOREM FormTyping == FormSpec => []FormTypeOK
<1>1. ASSUME FormInit PROVE FormTypeOK
  <2>1. FormTyped
    BY <1>1, FormInitEstablishes DEF FormIInv
  <2>2. heading = NoForm /\ savingForm = FALSE /\ Len(reads) = 0
    BY <1>1 DEF FormInit
  <2>3. Len(reads) <= MaxFormLoads
    BY <2>2, FormAssumption
  <2>4. savingForm \in BOOLEAN
    BY <2>2, Zenon
  <2> QED BY <2>1, <2>2, <2>3, <2>4, Zenon DEF FormTyped, FormTypeOK
<1>2. FormIInv /\ FormTypeOK /\ [FormNext]_formVars => FormTypeOK'
  BY FormTypesAreKept
<1> QED BY <1>1, <1>2, FormInitEstablishes, FormNextPreserves, PTL DEF FormSpec

(* A write names the record its form was loaded from, however the user has *)
(* jumped between records and in whatever order the loads were answered.   *)
THEOREM FormsWriteTheirOwnRecord == FormSpec => []WritesItsOwnRecord
<1>1. FormIInv => WritesItsOwnRecord
  BY DEF FormIInv
<1> QED BY <1>1, FormInitEstablishes, FormNextPreserves, PTL DEF FormSpec

-----------------------------------------------------------------------------
(* Finite sets, one element after the other                                *)

(* Every number is good if 0 is and the next of a good one.                *)
LEMMA AllNumbers ==
  ASSUME NEW Good \in SUBSET Nat, 0 \in Good, \A n \in Good : n + 1 \in Good
  PROVE  Good = Nat
<1> SUFFICES ASSUME Nat \ Good # {} PROVE FALSE
  OBVIOUS
<1>1. PICK n \in Nat \ Good : \A m \in Nat \ Good : n <= m
  BY LeastNumber
<1>2. n # 0 /\ n - 1 \in Nat /\ n - 1 \in Good
  BY <1>1
<1> QED BY <1>1, <1>2

(* The subsets of a finite set are good if the empty one is, and one is    *)
(* good as soon as every set with one element less is.                     *)
LEMMA AllSubsets ==
  ASSUME NEW S, IsFiniteSet(S), NEW Good \in SUBSET SUBSET S, {} \in Good,
         \A T \in (SUBSET S) \ {{}} : (\A x \in T : T \ {x} \in Good) => T \in Good
  PROVE  Good = SUBSET S
<1> DEFINE Small(n) == \A T \in SUBSET S : Cardinality(T) <= n => T \in Good
           Numbers == {n \in Nat : Small(n)}
<1>1. \A T \in SUBSET S : IsFiniteSet(T) /\ Cardinality(T) \in Nat
  BY FS_Subset, FS_CardinalityType
<1>2. 0 \in Numbers
  <2>1. ASSUME NEW T \in SUBSET S, Cardinality(T) <= 0
        PROVE  T = {}
    <3>1. Cardinality(T) = 0
      BY <1>1, <2>1
    <3> QED BY <1>1, <3>1, FS_EmptySet
  <2> QED BY <2>1
<1>3. ASSUME NEW n \in Numbers PROVE n + 1 \in Numbers
  <2> SUFFICES ASSUME NEW T \in SUBSET S, Cardinality(T) <= n + 1, T # {} PROVE T \in Good
    <3>1. n + 1 \in Nat
      OBVIOUS
    <3> QED BY <3>1
  <2>1. ASSUME NEW x \in T PROVE T \ {x} \in Good
    <3>1. Cardinality(T \ {x}) = Cardinality(T) - 1
      BY <1>1, FS_RemoveElement
    <3>2. T \ {x} \in SUBSET S /\ Cardinality(T \ {x}) <= n
      BY <1>1, <3>1
    <3> QED BY <3>2
  <2> QED BY <2>1
<1>4. Numbers = Nat
  <2> HIDE DEF Numbers
  <2>1. Numbers \in SUBSET Nat
    BY DEF Numbers
  <2> QED BY <1>2, <1>3, <2>1, AllNumbers
<1> QED BY <1>1, <1>4

-----------------------------------------------------------------------------
(* Sums                                                                    *)

Chosen(s) == CHOOSE x \in s : TRUE
(* One step of the recursion that defines the sum of g, over sets of Dom.  *)
SumStep(g, Dom, h) ==
  [s \in Dom |-> IF s = {} THEN 0 ELSE g[Chosen(s)] + h[s \ {Chosen(s)}]]
SumsOf(g, S) == CHOOSE h : h = SumStep(g, SUBSET S, h)

LEMMA ChosenIsIn ==
  ASSUME NEW s, s # {}
  PROVE  Chosen(s) \in s
BY DEF Chosen

LEMMA SumIsOfSums ==
  ASSUME NEW g, NEW S
  PROVE  SumFunctionOnSet(g, S) = SumsOf(g, S)[S]
BY DEF SumFunctionOnSet, FoldFunctionOnSet, MapThenFoldSet, SumsOf, SumStep, Chosen

LEMMA SumsExist ==
  ASSUME NEW g, NEW S, IsFiniteSet(S)
  PROVE  SumsOf(g, S) = SumStep(g, SUBSET S, SumsOf(g, S))
<1> DEFINE Upto(n) == {s \in SUBSET S : Cardinality(s) <= n}
           Solved == {n \in Nat : \E h : h = SumStep(g, Upto(n), h)}
<1>1. \A T \in SUBSET S : IsFiniteSet(T) /\ Cardinality(T) \in Nat
  BY FS_Subset, FS_CardinalityType
<1>2. 0 \in Solved
  <2> DEFINE h == [s \in Upto(0) |-> 0]
  <2>1. \A s \in Upto(0) : s = {}
    BY <1>1, FS_EmptySet
  <2>2. h = SumStep(g, Upto(0), h)
    BY <2>1 DEF SumStep
  <2> QED BY <2>2
<1>3. ASSUME NEW n \in Solved PROVE n + 1 \in Solved
  <2>1. PICK h : h = SumStep(g, Upto(n), h)
    OBVIOUS
  <2> DEFINE k == SumStep(g, Upto(n + 1), h)
  <2>2. ASSUME NEW s \in Upto(n)
        PROVE  k[s] = h[s]
    <3>1. s \in Upto(n + 1)
      BY <1>1
    <3> DEFINE t == IF s = {} THEN 0 ELSE g[Chosen(s)] + h[s \ {Chosen(s)}]
    <3>2. h[s] = t
      <4> HIDE DEF Upto
      <4> QED BY <2>1 DEF SumStep
    <3>3. k[s] = t
      <4> HIDE DEF Upto
      <4> QED BY <3>1 DEF SumStep
    <3> QED BY <3>2, <3>3
  <2>3. ASSUME NEW s \in Upto(n + 1), s # {}
        PROVE  s \ {Chosen(s)} \in Upto(n)
    <3>1. Chosen(s) \in s
      BY <2>3, ChosenIsIn
    <3>2. Cardinality(s \ {Chosen(s)}) = Cardinality(s) - 1
      BY <1>1, <3>1, FS_RemoveElement
    <3> QED BY <1>1, <3>2
  <2>4. k = SumStep(g, Upto(n + 1), k)
    <3> HIDE DEF Upto
    <3>1. \A s \in Upto(n + 1) :
            s # {} => k[s \ {Chosen(s)}] = h[s \ {Chosen(s)}]
      <4> HIDE DEF k
      <4> QED BY <2>2, <2>3
    <3> DEFINE j == SumStep(g, Upto(n + 1), k)
    <3>2. \A s \in Upto(n + 1) : k[s] = j[s]
      <4> SUFFICES ASSUME NEW s \in Upto(n + 1) PROVE k[s] = j[s]
        OBVIOUS
      <4>1. k[s] = IF s = {} THEN 0 ELSE g[Chosen(s)] + h[s \ {Chosen(s)}]
        BY DEF SumStep
      <4>2. j[s] = IF s = {} THEN 0 ELSE g[Chosen(s)] + k[s \ {Chosen(s)}]
        <5> HIDE DEF k
        <5> QED BY DEF SumStep
      <4> HIDE DEF k, j
      <4> QED BY <3>1, <4>1, <4>2
    <3>3. /\ k = [s \in Upto(n + 1) |-> k[s]]
          /\ j = [s \in Upto(n + 1) |-> j[s]]
      BY DEF SumStep
    <3> HIDE DEF k, j
    <3>4. k = j
      BY <3>2, <3>3
    <3> QED BY <3>4 DEF j
  <2> HIDE DEF k, Upto
  <2> QED BY <2>4
<1>4. Cardinality(S) \in Solved
  <2>1. Solved \in SUBSET Nat
    OBVIOUS
  <2> HIDE DEF Solved
  <2>2. Solved = Nat
    BY <1>2, <1>3, <2>1, AllNumbers
  <2> QED BY <1>1, <2>2
<1>5. Upto(Cardinality(S)) = SUBSET S
  <2>1. \A T \in SUBSET S : Cardinality(T) <= Cardinality(S)
    BY FS_Subset
  <2> QED BY <2>1
<1>6. \E h : h = SumStep(g, SUBSET S, h)
  BY <1>4, <1>5
<1> QED BY <1>6, Zenon DEF SumsOf

(* The sum over a set does not depend on the set it is taken within.       *)
LEMMA SumsAgree ==
  ASSUME NEW g, NEW S, IsFiniteSet(S), NEW T \in SUBSET S
  PROVE  SumsOf(g, S)[T] = SumFunctionOnSet(g, T)
<1>1. IsFiniteSet(T)
  BY FS_Subset
<1> DEFINE h == SumsOf(g, S)
           k == SumsOf(g, T)
           Good == {s \in SUBSET T : h[s] = k[s]}
<1>2. h = SumStep(g, SUBSET S, h) /\ k = SumStep(g, SUBSET T, k)
  BY <1>1, SumsExist
<1> HIDE DEF h, k
<1>3. \A s \in SUBSET T :
        /\ h[s] = IF s = {} THEN 0 ELSE g[Chosen(s)] + h[s \ {Chosen(s)}]
        /\ k[s] = IF s = {} THEN 0 ELSE g[Chosen(s)] + k[s \ {Chosen(s)}]
  BY <1>2 DEF SumStep
<1>4. {} \in Good /\ Good \in SUBSET SUBSET T
  BY <1>3
<1>5. ASSUME NEW s \in (SUBSET T) \ {{}}, \A x \in s : s \ {x} \in Good PROVE s \in Good
  <2>1. s \ {Chosen(s)} \in Good
    BY <1>5, ChosenIsIn
  <2> QED BY <1>3, <2>1
<1>6. Good = SUBSET T
  <2> HIDE DEF Good
  <2> QED BY <1>1, <1>4, <1>5, AllSubsets
<1>7. h[T] = k[T]
  BY <1>6
<1> QED BY <1>7, SumIsOfSums DEF h, k

LEMMA SumUnfolds ==
  ASSUME NEW g, NEW S, IsFiniteSet(S), S # {}
  PROVE  SumFunctionOnSet(g, S)
           = g[Chosen(S)] + SumFunctionOnSet(g, S \ {Chosen(S)})
<1>1. SumsOf(g, S)[S] = g[Chosen(S)] + SumsOf(g, S)[S \ {Chosen(S)}]
  <2> DEFINE h == SumsOf(g, S)
  <2>1. h = SumStep(g, SUBSET S, h)
    BY SumsExist
  <2> HIDE DEF h
  <2>2. h[S] = g[Chosen(S)] + h[S \ {Chosen(S)}]
    BY <2>1 DEF SumStep
  <2> QED BY <2>2 DEF h
<1> QED BY <1>1, SumIsOfSums, SumsAgree

LEMMA EmptySum ==
  ASSUME NEW g
  PROVE  SumFunctionOnSet(g, {}) = 0
<1> DEFINE h == SumsOf(g, {})
<1>1. h = SumStep(g, SUBSET {}, h)
  BY SumsExist, FS_EmptySet
<1> HIDE DEF h
<1>2. h[{}] = 0
  BY <1>1 DEF SumStep
<1> QED BY <1>2, SumIsOfSums DEF h

(* Sums of functions that agree on the set are equal.                      *)
LEMMA SumsOfEqual ==
  ASSUME NEW S, IsFiniteSet(S), NEW f, NEW g, \A x \in S : f[x] = g[x]
  PROVE  SumFunctionOnSet(f, S) = SumFunctionOnSet(g, S)
<1> DEFINE Good == {T \in SUBSET S : SumFunctionOnSet(f, T) = SumFunctionOnSet(g, T)}
<1>1. {} \in Good /\ Good \in SUBSET SUBSET S
  BY EmptySum
<1>2. ASSUME NEW T \in (SUBSET S) \ {{}}, \A x \in T : T \ {x} \in Good PROVE T \in Good
  <2> DEFINE x == Chosen(T)
  <2>1. x \in T /\ T \ {x} \in Good /\ IsFiniteSet(T)
    BY <1>2, ChosenIsIn, FS_Subset
  <2>2. /\ SumFunctionOnSet(f, T) = f[x] + SumFunctionOnSet(f, T \ {x})
        /\ SumFunctionOnSet(g, T) = g[x] + SumFunctionOnSet(g, T \ {x})
    BY <2>1, SumUnfolds
  <2> HIDE DEF x
  <2> QED BY <2>1, <2>2
<1>3. Good = SUBSET S
  <2> HIDE DEF Good
  <2> QED BY <1>1, <1>2, AllSubsets
<1> QED BY <1>3

LEMMA SumIsAnInteger ==
  ASSUME NEW S, IsFiniteSet(S), NEW g, \A x \in S : g[x] \in Int
  PROVE  SumFunctionOnSet(g, S) \in Int
<1> DEFINE Good == {T \in SUBSET S : SumFunctionOnSet(g, T) \in Int}
<1>1. {} \in Good /\ Good \in SUBSET SUBSET S
  BY EmptySum
<1>2. ASSUME NEW T \in (SUBSET S) \ {{}}, \A x \in T : T \ {x} \in Good PROVE T \in Good
  <2> DEFINE x == Chosen(T)
  <2>1. x \in T /\ T \ {x} \in Good /\ IsFiniteSet(T)
    BY <1>2, ChosenIsIn, FS_Subset
  <2>2. SumFunctionOnSet(g, T) = g[x] + SumFunctionOnSet(g, T \ {x})
    BY <2>1, SumUnfolds
  <2> HIDE DEF x
  <2> QED BY <2>1, <2>2
<1>3. Good = SUBSET S
  <2> HIDE DEF Good
  <2> QED BY <1>1, <1>2, AllSubsets
<1> QED BY <1>3

(* The order does not matter: any element may be taken out first.          *)
LEMMA SumWithout ==
  ASSUME NEW S, IsFiniteSet(S), NEW g, \A x \in S : g[x] \in Int, NEW a \in S
  PROVE  SumFunctionOnSet(g, S) = g[a] + SumFunctionOnSet(g, S \ {a})
<1> DEFINE Sum(T) == SumFunctionOnSet(g, T)
           Good == {T \in SUBSET S : \A x \in T : Sum(T) = g[x] + Sum(T \ {x})}
<1>1. {} \in Good /\ Good \in SUBSET SUBSET S
  OBVIOUS
<1>2. ASSUME NEW T \in (SUBSET S) \ {{}}, \A x \in T : T \ {x} \in Good PROVE T \in Good
  <2> SUFFICES ASSUME NEW x \in T PROVE Sum(T) = g[x] + Sum(T \ {x})
    BY <1>2
  <2> DEFINE c == Chosen(T)
  <2>1. c \in T /\ IsFiniteSet(T)
    BY ChosenIsIn, FS_Subset
  <2>2. Sum(T) = g[c] + Sum(T \ {c})
    BY <2>1, SumUnfolds
  <2> HIDE DEF c
  <2>3. CASE x = c
    BY <2>2, <2>3
  <2>4. CASE x # c
    <3>1. Sum(T \ {c}) = g[x] + Sum((T \ {c}) \ {x})
      BY <1>2, <2>1, <2>4
    <3>2. Sum(T \ {x}) = g[c] + Sum((T \ {x}) \ {c})
      BY <1>2, <2>1, <2>4
    <3>3. (T \ {c}) \ {x} = (T \ {x}) \ {c}
      OBVIOUS
    <3> DEFINE rest == Sum((T \ {x}) \ {c})
    <3>4. rest \in Int /\ g[x] \in Int /\ g[c] \in Int
      <4>1. IsFiniteSet((T \ {x}) \ {c})
        BY <2>1, FS_Subset
      <4> QED BY <2>1, <4>1, SumIsAnInteger
    <3>5. Sum(T) = g[c] + (g[x] + rest) /\ Sum(T \ {x}) = g[c] + rest
      BY <2>2, <3>1, <3>2, <3>3
    <3> HIDE DEF rest, Sum
    <3> QED BY <3>4, <3>5
  <2> QED BY <2>3, <2>4
<1>3. Good = SUBSET S
  <2> HIDE DEF Good
  <2> QED BY <1>1, <1>2, AllSubsets
<1> QED BY <1>3

(* The sum over two sets that have nothing in common.                      *)
LEMMA SumOfUnion ==
  ASSUME NEW S, IsFiniteSet(S), NEW g, \A x \in S : g[x] \in Int,
         NEW R \in SUBSET S
  PROVE  SumFunctionOnSet(g, S) = SumFunctionOnSet(g, S \ R) + SumFunctionOnSet(g, R)
<1> DEFINE Sum(T) == SumFunctionOnSet(g, T)
           Good == {T \in SUBSET R : Sum((S \ R) \cup T) = Sum(S \ R) + Sum(T)}
<1>1. \A T \in SUBSET S : IsFiniteSet(T) /\ Sum(T) \in Int
  <2>1. ASSUME NEW T \in SUBSET S PROVE IsFiniteSet(T)
    BY FS_Subset
  <2> QED BY <2>1, SumIsAnInteger
<1>2. {} \in Good /\ Good \in SUBSET SUBSET R
  BY <1>1, EmptySum
<1>3. ASSUME NEW T \in (SUBSET R) \ {{}}, \A x \in T : T \ {x} \in Good PROVE T \in Good
  <2>1. PICK x \in T : TRUE
    OBVIOUS
  <2> DEFINE all == (S \ R) \cup T
  <2>2. /\ all \in SUBSET S /\ x \in all /\ all \ {x} = (S \ R) \cup (T \ {x})
        /\ T \in SUBSET S /\ T \ {x} \in SUBSET S
    OBVIOUS
  <2>3. Sum(all) = g[x] + Sum(all \ {x})
    <3> HIDE DEF all
    <3> QED BY <1>1, <2>2, SumWithout
  <2>4. Sum(T) = g[x] + Sum(T \ {x})
    BY <1>1, <2>2, SumWithout
  <2>5. Sum(all \ {x}) = Sum(S \ R) + Sum(T \ {x})
    BY <1>3, <2>2
  <2>6. g[x] \in Int /\ Sum(S \ R) \in Int /\ Sum(T \ {x}) \in Int
    BY <1>1, <2>2
  <2>7. Sum(all) = Sum(S \ R) + Sum(T)
    <3> HIDE DEF Sum, all
    <3> QED BY <2>3, <2>4, <2>5, <2>6
  <2> QED BY <2>7
<1>4. Good = SUBSET R
  <2>1. IsFiniteSet(R)
    BY FS_Subset
  <2>2. \A T \in (SUBSET R) \ {{}} : (\A x \in T : T \ {x} \in Good) => T \in Good
    BY <1>3
  <2> HIDE DEF Good
  <2>3. {} \in Good
    BY <1>2
  <2>4. Good \in SUBSET SUBSET R
    BY <1>2
  <2> QED BY ONLY <2>1, <2>2, <2>3, <2>4, AllSubsets
<1>5. (S \ R) \cup R = S
  OBVIOUS
<1> QED BY <1>4, <1>5

LEMMA SumOfZeros ==
  ASSUME NEW S, IsFiniteSet(S), NEW g, \A x \in S : g[x] = 0
  PROVE  SumFunctionOnSet(g, S) = 0
<1> DEFINE Good == {T \in SUBSET S : SumFunctionOnSet(g, T) = 0}
<1>1. {} \in Good /\ Good \in SUBSET SUBSET S
  BY EmptySum
<1>2. ASSUME NEW T \in (SUBSET S) \ {{}}, \A x \in T : T \ {x} \in Good PROVE T \in Good
  <2> DEFINE x == Chosen(T)
  <2>1. x \in T /\ T \ {x} \in Good /\ IsFiniteSet(T)
    BY <1>2, ChosenIsIn, FS_Subset
  <2>2. SumFunctionOnSet(g, T) = g[x] + SumFunctionOnSet(g, T \ {x})
    BY <2>1, SumUnfolds
  <2> HIDE DEF x
  <2> QED BY <2>1, <2>2
<1>3. Good = SUBSET S
  <2> HIDE DEF Good
  <2> QED BY <1>1, <1>2, AllSubsets
<1> QED BY <1>3

(* The sums of the parts that a key makes of a set add up to its sum.      *)
LEMMA SumOfParts ==
  ASSUME NEW S, IsFiniteSet(S), NEW g, \A x \in S : g[x] \in Int, NEW key,
         NEW sums,
         sums = [k \in {key[x] : x \in S} |-> SumFunctionOnSet(g, {x \in S : key[x] = k})]
  PROVE  SumFunction(sums) = SumFunctionOnSet(g, S)
<1> DEFINE Keys == {key[x] : x \in S}
           Part(K) == {x \in S : key[x] \in K}
           Sum(T) == SumFunctionOnSet(g, T)
           Good == {K \in SUBSET Keys : SumFunctionOnSet(sums, K) = Sum(Part(K))}
<1>1. IsFiniteSet(Keys)
  <2> DEFINE f == [x \in S |-> key[x]]
  <2>1. f \in Surjection(S, Keys)
    BY DEF Surjection
  <2> HIDE DEF f, Keys
  <2> QED BY <2>1, FS_Surjection
<1>2. \A T \in SUBSET S : IsFiniteSet(T) /\ Sum(T) \in Int
  <2>1. ASSUME NEW T \in SUBSET S PROVE IsFiniteSet(T)
    BY FS_Subset
  <2> QED BY <2>1, SumIsAnInteger
<1>3. {} \in Good /\ Good \in SUBSET SUBSET Keys
  <2>1. Part({}) = {}
    OBVIOUS
  <2> QED BY <2>1, EmptySum
<1>4. ASSUME NEW K \in (SUBSET Keys) \ {{}}, \A k \in K : K \ {k} \in Good PROVE K \in Good
  <2>1. PICK k \in K : TRUE
    OBVIOUS
  <2>2. sums[k] = Sum(Part({k}))
    <3>1. Part({k}) = {x \in S : key[x] = k}
      OBVIOUS
    <3> QED BY <3>1
  <2>3. \A j \in K : sums[j] \in Int
    <3>1. ASSUME NEW j \in K PROVE {x \in S : key[x] = j} \in SUBSET S
      OBVIOUS
    <3> QED BY <1>2, <3>1
  <2>4. SumFunctionOnSet(sums, K) = sums[k] + SumFunctionOnSet(sums, K \ {k})
    <3>1. IsFiniteSet(K)
      BY <1>1, FS_Subset
    <3> QED BY <2>3, <3>1, SumWithout
  <2>5. SumFunctionOnSet(sums, K \ {k}) = Sum(Part(K \ {k}))
    BY <1>4, <2>1
  <2>6. Sum(Part(K)) = Sum(Part(K \ {k})) + Sum(Part({k}))
    <3>1. /\ Part({k}) \in SUBSET Part(K) /\ Part(K) \in SUBSET S
          /\ Part(K) \ Part({k}) = Part(K \ {k})
      OBVIOUS
    <3> HIDE DEF Part
    <3>2. IsFiniteSet(Part(K)) /\ \A x \in Part(K) : g[x] \in Int
      BY <1>2, <3>1
    <3>3. SumFunctionOnSet(g, Part(K))
            = SumFunctionOnSet(g, Part(K) \ Part({k})) + SumFunctionOnSet(g, Part({k}))
      <4>1. Part({k}) \in SUBSET Part(K)
        BY <3>1
      <4>2. IsFiniteSet(Part(K))
        BY <3>2
      <4>3. \A x \in Part(K) : g[x] \in Int
        BY <3>2
      <4> QED BY ONLY <4>1, <4>2, <4>3, SumOfUnion
    <3> QED BY <3>1, <3>3
  <2>7. Sum(Part({k})) \in Int /\ Sum(Part(K \ {k})) \in Int
    BY <1>2
  <2>8. SumFunctionOnSet(sums, K) = Sum(Part(K))
    <3> HIDE DEF Part, Sum
    <3> QED BY <2>2, <2>4, <2>5, <2>6, <2>7
  <2> QED BY <2>8
<1>5. Good = SUBSET Keys
  <2> HIDE DEF Good, Keys
  <2> QED BY <1>1, <1>3, <1>4, AllSubsets
<1>6. Part(Keys) = S /\ DOMAIN sums = Keys
  OBVIOUS
<1>7. SumFunctionOnSet(sums, Keys) = Sum(S)
  BY <1>5, <1>6
<1> QED BY <1>6, <1>7 DEF SumFunction

-----------------------------------------------------------------------------
(* The page adds up to the book                                            *)

LEMMA TotalOfPart ==
  ASSUME NEW lines, NEW key, NEW I \in SUBSET DOMAIN lines, IsFiniteSet(I)
  PROVE  Total(Restrict(lines, I), key)
           = SumFunctionOnSet([i \in DOMAIN lines |-> lines[i][key]], I)
<1> DEFINE part == [i \in DOMAIN Restrict(lines, I) |-> Restrict(lines, I)[i][key]]
           all == [i \in DOMAIN lines |-> lines[i][key]]
<1>1. DOMAIN part = I /\ \A i \in I : part[i] = all[i]
  BY DEF Restrict
<1> HIDE DEF all
<1>2. Total(Restrict(lines, I), key) = SumFunctionOnSet(part, I)
  BY <1>1 DEF Total, SumFunction
<1> HIDE DEF part
<1> QED BY <1>1, <1>2, SumsOfEqual DEF all

LEMMA AccountsAreFinite ==
  ASSUME NEW accounts \in Seq(Account)
  PROVE  /\ DOMAIN accounts = 1 .. Len(accounts) /\ IsFiniteSet(DOMAIN accounts)
         /\ IsFiniteSet(Listed(accounts))
         /\ \A s : IsFiniteSet(AccountsOf(accounts, s))
         /\ \A i \in DOMAIN accounts : accounts[i] \in Account
<1>1. DOMAIN accounts = 1 .. Len(accounts) /\ IsFiniteSet(DOMAIN accounts)
  BY FS_Interval
<1>2. Listed(accounts) \in SUBSET DOMAIN accounts
  BY DEF Listed
<1>3. IsFiniteSet(Listed(accounts))
  BY <1>1, <1>2, FS_Subset
<1>4. ASSUME NEW s PROVE IsFiniteSet(AccountsOf(accounts, s))
  <2>1. AccountsOf(accounts, s) \in SUBSET Listed(accounts)
    BY DEF AccountsOf
  <2> QED BY <1>3, <2>1, FS_Subset
<1> QED BY <1>1, <1>3, <1>4

(* A figure of all accounts, by their place in the answer.                 *)
Figure(accounts, figure) == [i \in DOMAIN accounts |-> accounts[i][figure]]

LEMMA FiguresAreIntegers ==
  ASSUME NEW accounts \in Seq(Account), NEW figure \in Figures, NEW i \in DOMAIN accounts
  PROVE  Figure(accounts, figure)[i] \in Int
BY AccountsAreFinite DEF Figure, Figures, Account

LEMMA RowOfAContext ==
  ASSUME NEW accounts \in Seq(Account), NEW figure \in Figures, NEW s,
         NEW c \in DOMAIN AccountGroups(accounts, s)
  PROVE  AccountGroups(accounts, s)[c][figure]
           = SumFunctionOnSet(Figure(accounts, figure),
                              {i \in AccountsOf(accounts, s) : accounts[i].context = c})
<1> DEFINE same == {i \in AccountsOf(accounts, s) : accounts[i].context = c}
           lines == Restrict(accounts, same)
           first == accounts[Min(same)]
<1>1. same # {} /\ same \in SUBSET DOMAIN accounts /\ IsFiniteSet(same)
  <2>1. same # {}
    BY DEF AccountGroups
  <2>2. same \in SUBSET AccountsOf(accounts, s) /\ same \in SUBSET DOMAIN accounts
    BY DEF AccountsOf, Listed
  <2>3. IsFiniteSet(same)
    <3> HIDE DEF same
    <3> QED BY <2>2, AccountsAreFinite, FS_Subset
  <2> QED BY <2>1, <2>2, <2>3
<1>2. first \in Account
  <2>1. same \in SUBSET Nat
    BY <1>1, AccountsAreFinite
  <2> HIDE DEF same
  <2>2. PICK m \in same : \A n \in same : m <= n
    BY <1>1, <2>1, LeastNumber
  <2>3. Min(same) \in same
    BY <2>2 DEF Min
  <2> QED BY <1>1, <2>3, AccountsAreFinite
<1>3. AccountGroups(accounts, s)[c]
        = [first EXCEPT !.realized = Total(lines, "realized"), !.budget = Total(lines, "budget"),
                        !.previous = Total(lines, "previous")]
  BY DEF AccountGroups
<1>4. Total(lines, figure) = SumFunctionOnSet(Figure(accounts, figure), same)
  <2> HIDE DEF same
  <2> QED BY <1>1, TotalOfPart DEF Figure
<1>5. AccountGroups(accounts, s)[c][figure] = Total(lines, figure)
  <2> HIDE DEF first, lines
  <2> QED BY <1>2, <1>3 DEF Account, Figures
<1> QED BY <1>4, <1>5

(* The rows of a sub-account add up to its accounts ...                    *)
LEMMA GroupsAddUp ==
  ASSUME NEW accounts \in Seq(Account), NEW figure \in Figures, NEW s
  PROVE  Total(AccountGroups(accounts, s), figure)
           = SumFunctionOnSet(Figure(accounts, figure), AccountsOf(accounts, s))
<1> DEFINE g == Figure(accounts, figure)
           S == AccountsOf(accounts, s)
           key == [i \in S |-> accounts[i].context]
           groups == AccountGroups(accounts, s)
           sums == [c \in {key[i] : i \in S} |-> SumFunctionOnSet(g, {i \in S : key[i] = c})]
<1>1. IsFiniteSet(S) /\ \A i \in S : g[i] \in Int
  BY AccountsAreFinite, FiguresAreIntegers DEF AccountsOf, Listed
<1>2. DOMAIN groups = {key[i] : i \in S}
  BY DEF AccountGroups
<1>3. [c \in DOMAIN groups |-> groups[c][figure]] = sums
  <2> SUFFICES ASSUME NEW c \in DOMAIN groups
               PROVE  groups[c][figure] = SumFunctionOnSet(g, {i \in S : key[i] = c})
    BY <1>2
  <2>1. {i \in S : key[i] = c} = {i \in S : accounts[i].context = c}
    OBVIOUS
  <2>2. groups[c][figure] = SumFunctionOnSet(g, {i \in S : accounts[i].context = c})
    BY RowOfAContext
  <2> HIDE DEF g, S, groups
  <2> QED BY <2>1, <2>2
<1>4. Total(groups, figure) = SumFunction(sums)
  BY <1>3 DEF Total
<1>5. SumFunction(sums) = SumFunctionOnSet(g, S)
  <2>1. sums = [c \in {key[i] : i \in S} |-> SumFunctionOnSet(g, {i \in S : key[i] = c})]
    OBVIOUS
  <2> HIDE DEF sums, key, S, g
  <2> QED BY ONLY <1>1, <2>1, SumOfParts
<1> QED BY <1>4, <1>5

(* ... and the sub-accounts to all accounts: those left out are zeros.     *)
LEMMA AccountTableAddsUp ==
  ASSUME NEW accounts \in Seq(Account), NEW figure \in Figures
  PROVE  Total(AccountTable(accounts), figure) = Total(accounts, figure)
<1> DEFINE g == Figure(accounts, figure)
           S == Listed(accounts)
           key == [i \in S |-> SubAccount(accounts[i])]
           table == AccountTable(accounts)
           sums == [k \in {key[i] : i \in S} |-> SumFunctionOnSet(g, {i \in S : key[i] = k})]
<1>1. /\ IsFiniteSet(S) /\ S \in SUBSET DOMAIN accounts /\ IsFiniteSet(DOMAIN accounts)
      /\ \A i \in DOMAIN accounts : g[i] \in Int
  BY AccountsAreFinite, FiguresAreIntegers DEF Listed
<1>2. DOMAIN table = {key[i] : i \in S}
  BY DEF AccountTable, Subs
<1>3. [s \in DOMAIN table |-> table[s][figure]] = sums
  <2> SUFFICES ASSUME NEW s \in DOMAIN table
               PROVE  table[s][figure] = SumFunctionOnSet(g, {i \in S : key[i] = s})
    BY <1>2
  <2>1. {i \in S : key[i] = s} = AccountsOf(accounts, s)
    BY DEF AccountsOf
  <2>2. table[s][figure] = Total(AccountGroups(accounts, s), figure)
    BY DEF AccountTable, Figures
  <2>3. Total(AccountGroups(accounts, s), figure)
          = SumFunctionOnSet(g, AccountsOf(accounts, s))
    BY GroupsAddUp
  <2> HIDE DEF g, table
  <2> QED BY <2>1, <2>2, <2>3
<1>4. Total(table, figure) = SumFunction(sums)
  BY <1>3 DEF Total
<1>5. SumFunction(sums) = SumFunctionOnSet(g, S)
  <2>1. sums = [k \in {key[i] : i \in S} |-> SumFunctionOnSet(g, {i \in S : key[i] = k})]
    OBVIOUS
  <2>2. \A i \in S : g[i] \in Int
    BY <1>1
  <2> HIDE DEF sums, key, S, g
  <2> QED BY ONLY <1>1, <2>1, <2>2, SumOfParts
<1>6. SumFunctionOnSet(g, S) = SumFunctionOnSet(g, DOMAIN accounts)
  <2> DEFINE rest == (DOMAIN accounts) \ S
  <2>1. \A i \in rest : g[i] = 0
    BY DEF Listed, HasFinanceValue, Figure
  <2>2. IsFiniteSet(rest)
    BY <1>1, FS_Subset
  <2>3. SumFunctionOnSet(g, rest) = 0
    <3> HIDE DEF rest, g
    <3> QED BY <2>1, <2>2, SumOfZeros
  <2>4. SumFunctionOnSet(g, S) \in Int
    BY <1>1, SumIsAnInteger
  <2>5. SumFunctionOnSet(g, DOMAIN accounts)
          = SumFunctionOnSet(g, rest) + SumFunctionOnSet(g, S)
    <3> HIDE DEF g, S
    <3> QED BY <1>1, SumOfUnion
  <2> QED BY <2>3, <2>4, <2>5
<1>7. SumFunctionOnSet(g, DOMAIN accounts) = Total(accounts, figure)
  BY DEF Total, SumFunction, Figure
<1> QED BY <1>4, <1>5, <1>6, <1>7

LEMMA GroupTableAddsUp ==
  ASSUME NEW groups \in Seq(Group), NEW figure \in {"amount", "previous"}
  PROVE  Total(GroupTable(groups), figure) = Total(groups, figure)
<1> DEFINE S == DOMAIN groups
           g == [i \in S |-> groups[i][figure]]
           key == [i \in S |-> groups[i].name]
           table == GroupTable(groups)
           sums == [k \in {key[i] : i \in S} |-> SumFunctionOnSet(g, {i \in S : key[i] = k})]
<1>1. IsFiniteSet(S) /\ \A i \in S : g[i] \in Int
  <2>1. S = 1 .. Len(groups) /\ \A i \in S : groups[i] \in Group
    OBVIOUS
  <2>2. IsFiniteSet(S)
    BY <2>1, FS_Interval
  <2> QED BY <2>1, <2>2 DEF Group
<1>2. DOMAIN table = {key[i] : i \in S}
  BY DEF GroupTable
<1>3. [n \in DOMAIN table |-> table[n][figure]] = sums
  <2> SUFFICES ASSUME NEW n \in DOMAIN table
               PROVE  table[n][figure] = SumFunctionOnSet(g, {i \in S : key[i] = n})
    BY <1>2
  <2> DEFINE I == {i \in S : groups[i].name = n}
  <2>1. {i \in S : key[i] = n} = I
    OBVIOUS
  <2>2. table[n][figure] = Total(Restrict(groups, I), figure)
    BY DEF GroupTable
  <2>3. I \in SUBSET S /\ IsFiniteSet(I)
    BY <1>1, FS_Subset
  <2> HIDE DEF I
  <2>4. Total(Restrict(groups, I), figure) = SumFunctionOnSet(g, I)
    BY <2>3, TotalOfPart
  <2> QED BY <2>1, <2>2, <2>4
<1>4. Total(table, figure) = SumFunction(sums)
  BY <1>3 DEF Total
<1>5. SumFunction(sums) = SumFunctionOnSet(g, S)
  <2>1. sums = [k \in {key[i] : i \in S} |-> SumFunctionOnSet(g, {i \in S : key[i] = k})]
    OBVIOUS
  <2> HIDE DEF sums, key, S, g
  <2> QED BY ONLY <1>1, <2>1, SumOfParts
<1>6. SumFunctionOnSet(g, S) = Total(groups, figure)
  BY DEF Total, SumFunction
<1> QED BY <1>4, <1>5, <1>6

-----------------------------------------------------------------------------
(* The sheets                                                              *)

(* A sheet whose formulas compute the values beside them.                  *)
ComputesItsValues(sheet) ==
  \A i \in DOMAIN sheet : \A c \in DOMAIN sheet[i] :
    LET cell == sheet[i][c] IN
    /\ cell.is = "sum" => cell.last = i /\ Column[cell.column] = c
    /\ Computed(sheet, cell) = cell.value

(* Rows before the total: a difference is of two cells of its own row.     *)
RowIsRight(lines, i) ==
  \A c \in DOMAIN lines[i] :
    LET cell == lines[i][c] IN
    \/ cell.is \in {"text", "number"}
    \/ /\ cell.is = "difference" /\ cell.row = i + 1
       /\ cell.value = lines[i][Column[cell.minuend]].value
                        - lines[i][Column[cell.subtrahend]].value

(* A row of totals: where there is a sum, letter and index are of the same *)
(* column, the one it stands in.                                           *)
TotalIsRight(lines, total) ==
  \A c \in DOMAIN total :
    \/ total[c] = Text
    \/ \E letter \in DOMAIN Column :
         Column[letter] = c /\ total[c] = SumOf(lines, letter, c - 1)

LEMMA AppendedRow ==
  ASSUME NEW n \in Nat, NEW lines, lines = [i \in 1 .. n |-> lines[i]], NEW total
  PROVE  /\ Len(lines) = n
         /\ lines = <<>> <=> n = 0
         /\ DOMAIN Append(lines, total) = 1 .. n + 1 /\ Len(Append(lines, total)) = n + 1
         /\ \A i \in 1 .. n : Append(lines, total)[i] = lines[i]
         /\ Append(lines, total)[n + 1] = total
<1> DEFINE S == {lines[i] : i \in 1 .. n} \cup {total}
<1>1. lines \in [1 .. n -> S]
  OBVIOUS
<1> HIDE DEF S
<1>2. lines \in Seq(S) /\ Len(lines) = n
  BY <1>1
<1>3. lines = <<>> <=> n = 0
  BY <1>2
<1>4. total \in S
  BY DEF S
<1> QED BY <1>2, <1>3, <1>4

LEMMA SheetComputes ==
  ASSUME NEW n \in Nat, NEW lines, lines = [i \in 1 .. n |-> lines[i]], NEW total,
         \A i \in 1 .. n : RowIsRight(lines, i), TotalIsRight(lines, total)
  PROVE  ComputesItsValues(WithTotal(lines, total))
<1>1. CASE n = 0
  <2>1. WithTotal(lines, total) = <<>>
    BY <1>1, AppendedRow DEF WithTotal
  <2> QED BY <2>1 DEF ComputesItsValues
<1>2. CASE n # 0
  <2> DEFINE sheet == Append(lines, total)
  <2>1. WithTotal(lines, total) = sheet
    BY <1>2, AppendedRow DEF WithTotal
  <2>2. /\ Len(lines) = n /\ DOMAIN lines = 1 .. n /\ DOMAIN sheet = 1 .. n + 1
        /\ \A i \in 1 .. n : sheet[i] = lines[i]
        /\ sheet[n + 1] = total
    BY AppendedRow
  <2> HIDE DEF sheet
  <2>3. ASSUME NEW i \in 1 .. n, NEW c \in DOMAIN sheet[i]
        PROVE  /\ sheet[i][c].is # "sum"
               /\ Computed(sheet, sheet[i][c]) = sheet[i][c].value
    <3> DEFINE cell == sheet[i][c]
    <3>1. cell = lines[i][c] /\ c \in DOMAIN lines[i]
      BY <2>2
    <3>2. CASE cell.is \in {"text", "number"}
      BY <3>2 DEF Computed
    <3>3. CASE /\ cell.is = "difference" /\ cell.row = i + 1
               /\ cell.value = lines[i][Column[cell.minuend]].value
                                - lines[i][Column[cell.subtrahend]].value
      <4>1. sheet[cell.row - 1] = lines[i]
        BY <2>2, <3>3
      <4> HIDE DEF cell
      <4>2. Computed(sheet, cell) = cell.value
        BY <3>3, <4>1 DEF Computed
      <4> QED BY <3>3, <4>2 DEF cell
    <3> QED BY <3>1, <3>2, <3>3 DEF RowIsRight
  <2>4. ASSUME NEW c \in DOMAIN total
        PROVE  /\ total[c].is = "sum" => total[c].last = n + 1 /\ Column[total[c].column] = c
               /\ Computed(sheet, total[c]) = total[c].value
    <3>1. CASE total[c] = Text
      BY <3>1 DEF Computed, Text
    <3>2. ASSUME NEW letter \in DOMAIN Column,
                 Column[letter] = c /\ total[c] = SumOf(lines, letter, c - 1)
          PROVE  /\ total[c].is = "sum" /\ total[c].last = n + 1
                 /\ Column[total[c].column] = c
                 /\ Computed(sheet, total[c]) = total[c].value
      <4> DEFINE cell == total[c]
      <4>0. c \in 1 .. 13
        BY <3>2 DEF Column
      <4>1. /\ cell.is = "sum" /\ cell.last = n + 1 /\ cell.column = letter
            /\ cell.value = Total([r \in 1 .. n |-> lines[r][c]], "value")
        <5>1. (c - 1) + 1 = c
          BY <4>0
        <5>2. [r \in DOMAIN lines |-> lines[r][(c - 1) + 1]] = [r \in 1 .. n |-> lines[r][c]]
          BY <2>2, <5>1
        <5> DEFINE v == Total([r \in DOMAIN lines |-> lines[r][(c - 1) + 1]], "value")
        <5>3. v = Total([r \in 1 .. n |-> lines[r][c]], "value")
          BY <5>2, Zenon
        <5>4. cell = [is |-> "sum", column |-> letter, last |-> Len(lines) + 1, value |-> v]
          BY <3>2 DEF SumOf
        <5> HIDE DEF v, cell
        <5> QED BY <2>2, <5>3, <5>4
      <4>2. [r \in 1 .. cell.last - 1 |-> sheet[r][Column[cell.column]]]
              = [r \in 1 .. n |-> lines[r][c]]
        <5> HIDE DEF cell
        <5> QED BY <2>2, <3>2, <4>1
      <4> HIDE DEF cell
      <4>3. Computed(sheet, cell) = Total([r \in 1 .. n |-> lines[r][c]], "value")
        BY <4>1, <4>2 DEF Computed
      <4> QED BY <3>2, <4>1, <4>3 DEF cell
    <3> QED BY <3>1, <3>2 DEF TotalIsRight
  <2>5. ASSUME NEW i \in DOMAIN sheet, NEW c \in DOMAIN sheet[i]
        PROVE  /\ sheet[i][c].is = "sum" =>
                    sheet[i][c].last = i /\ Column[sheet[i][c].column] = c
               /\ Computed(sheet, sheet[i][c]) = sheet[i][c].value
    <3>1. i \in 1 .. n \/ i = n + 1
      BY <2>2
    <3> QED BY <2>2, <2>3, <2>4, <3>1
  <2> QED BY <2>1, <2>5 DEF ComputesItsValues
<1> QED BY <1>1, <1>2

(* Where a row has texts, figures and differences only.                    *)
LEMMA Cells ==
  /\ Text.is = "text"
  /\ \A v : Num(v).is = "number" /\ Num(v).value = v
  /\ \A a, b, i, v : LET d == Diff(a, b, i, v) IN
       d.is = "difference" /\ d.minuend = a /\ d.subtrahend = b /\ d.row = i + 1 /\ d.value = v
BY DEF Text, Num, Diff

LEMMA Letters ==
  /\ {"D", "E", "F", "G", "H", "I", "J", "K", "L", "M"} \subseteq DOMAIN Column
  /\ Column["D"] = 4 /\ Column["E"] = 5 /\ Column["F"] = 6 /\ Column["G"] = 7
  /\ Column["H"] = 8 /\ Column["I"] = 9 /\ Column["J"] = 10 /\ Column["K"] = 11
  /\ Column["L"] = 12 /\ Column["M"] = 13
BY DEF Column

LEMMA AccountSheetComputes ==
  ASSUME NEW accounts \in Seq(Account)
  PROVE  ComputesItsValues(AccountSheet(accounts))
<1> DEFINE n == Len(accounts)
           row(i) == <<Text, Text, Text, Text, Num(accounts[i].realized), Num(accounts[i].budget),
                       Num(accounts[i].previous)>>
           lines == [i \in DOMAIN accounts |-> row(i)]
           total == <<Text, Text, Text, Text, SumOf(lines, "E", 4), SumOf(lines, "F", 5),
                      SumOf(lines, "G", 6)>>
<1>1. n \in Nat /\ lines = [i \in 1 .. n |-> lines[i]]
  OBVIOUS
<1>2. \A i \in 1 .. n : RowIsRight(lines, i)
  <2> SUFFICES ASSUME NEW i \in 1 .. n PROVE RowIsRight(lines, i)
    OBVIOUS
  <2>1. lines[i] = row(i)
    OBVIOUS
  <2> HIDE DEF lines
  <2> QED BY <2>1, Cells DEF RowIsRight
<1>3. TotalIsRight(lines, total)
  <2> HIDE DEF lines
  <2> QED BY Letters DEF TotalIsRight
<1>4. AccountSheet(accounts) = WithTotal(lines, total)
  BY DEF AccountSheet
<1> HIDE DEF n, lines, total
<1> QED BY <1>1, <1>2, <1>3, <1>4, SheetComputes

LEMMA GroupSheetComputes ==
  ASSUME NEW groups \in Seq(Group)
  PROVE  ComputesItsValues(GroupSheet(groups))
<1> DEFINE n == Len(groups)
           row(i) == <<Text, Text, Text, Num(groups[i].amount), Num(groups[i].previous)>>
           lines == [i \in DOMAIN groups |-> row(i)]
           total == <<Text, Text, Text, SumOf(lines, "D", 3), SumOf(lines, "E", 4)>>
<1>1. n \in Nat /\ lines = [i \in 1 .. n |-> lines[i]]
  OBVIOUS
<1>2. \A i \in 1 .. n : RowIsRight(lines, i)
  <2> SUFFICES ASSUME NEW i \in 1 .. n PROVE RowIsRight(lines, i)
    OBVIOUS
  <2>1. lines[i] = row(i)
    OBVIOUS
  <2> HIDE DEF lines
  <2> QED BY <2>1, Cells DEF RowIsRight
<1>3. TotalIsRight(lines, total)
  <2> HIDE DEF lines
  <2> QED BY Letters DEF TotalIsRight
<1>4. GroupSheet(groups) = WithTotal(lines, total)
  BY DEF GroupSheet
<1> HIDE DEF n, lines, total
<1> QED BY <1>1, <1>2, <1>3, <1>4, SheetComputes

LEMMA SourceSheetComputes ==
  ASSUME NEW S, NEW transfers \in Seq(S)
  PROVE  ComputesItsValues(SourceSheet(transfers))
<1> DEFINE n == Len(transfers)
           row(i) == <<Text, Text, Text, Num(transfers[i].amount), Num(transfers[i].balance),
                       Num(transfers[i].posted),
                       Diff("D", "F", i, transfers[i].amount - transfers[i].posted)>>
           lines == [i \in DOMAIN transfers |-> row(i)]
           total == <<Text, Text, Text, SumOf(lines, "D", 3), Text, SumOf(lines, "F", 5),
                      SumOf(lines, "G", 6)>>
<1>1. n \in Nat /\ lines = [i \in 1 .. n |-> lines[i]]
  OBVIOUS
<1>2. \A i \in 1 .. n : RowIsRight(lines, i)
  <2> SUFFICES ASSUME NEW i \in 1 .. n PROVE RowIsRight(lines, i)
    OBVIOUS
  <2>1. lines[i] = row(i)
    OBVIOUS
  <2> HIDE DEF lines
  <2>2. DOMAIN lines[i] = 1 .. 7 /\ \A c \in 1 .. 6 : lines[i][c].is \in {"text", "number"}
    BY <2>1, Cells
  <2>3. /\ lines[i][7].is = "difference" /\ lines[i][7].row = i + 1
        /\ lines[i][7].minuend = "D" /\ lines[i][7].subtrahend = "F"
        /\ lines[i][7].value = transfers[i].amount - transfers[i].posted
    BY <2>1, Cells
  <2>4. lines[i][Column["D"]].value = transfers[i].amount
    BY <2>1, Cells, Letters
  <2>5. lines[i][Column["F"]].value = transfers[i].posted
    BY <2>1, Cells, Letters
  <2> QED BY <2>2, <2>3, <2>4, <2>5 DEF RowIsRight
<1>3. TotalIsRight(lines, total)
  <2> HIDE DEF lines
  <2> QED BY Letters DEF TotalIsRight
<1>4. SourceSheet(transfers) = WithTotal(lines, total)
  BY DEF SourceSheet
<1> HIDE DEF n, lines, total
<1> QED BY <1>1, <1>2, <1>3, <1>4, SheetComputes

LEMMA MobilePaySheetComputes ==
  ASSUME NEW S, NEW transfers \in Seq(S)
  PROVE  ComputesItsValues(MobilePaySheet(transfers))
<1> DEFINE n == Len(transfers)
           row(i) == <<Text, Text, Text, Text, Text, Text, Text, Num(transfers[i].amount),
                       Num(transfers[i].posted),
                       Diff("H", "I", i, transfers[i].amount - transfers[i].posted)>>
           lines == [i \in DOMAIN transfers |-> row(i)]
           total == <<Text, Text, Text, Text, Text, Text, Text, SumOf(lines, "H", 7),
                      SumOf(lines, "I", 8), SumOf(lines, "J", 9)>>
<1>1. n \in Nat /\ lines = [i \in 1 .. n |-> lines[i]]
  OBVIOUS
<1>2. \A i \in 1 .. n : RowIsRight(lines, i)
  <2> SUFFICES ASSUME NEW i \in 1 .. n PROVE RowIsRight(lines, i)
    OBVIOUS
  <2>1. lines[i] = row(i)
    OBVIOUS
  <2> HIDE DEF lines
  <2>2. DOMAIN lines[i] = 1 .. 10 /\ \A c \in 1 .. 9 : lines[i][c].is \in {"text", "number"}
    BY <2>1, Cells
  <2>3. /\ lines[i][10].is = "difference" /\ lines[i][10].row = i + 1
        /\ lines[i][10].minuend = "H" /\ lines[i][10].subtrahend = "I"
        /\ lines[i][10].value = transfers[i].amount - transfers[i].posted
    BY <2>1, Cells
  <2>4. lines[i][Column["H"]].value = transfers[i].amount
    BY <2>1, Cells, Letters
  <2>5. lines[i][Column["I"]].value = transfers[i].posted
    BY <2>1, Cells, Letters
  <2> QED BY <2>2, <2>3, <2>4, <2>5 DEF RowIsRight
<1>3. TotalIsRight(lines, total)
  <2> HIDE DEF lines
  <2> QED BY Letters DEF TotalIsRight
<1>4. MobilePaySheet(transfers) = WithTotal(lines, total)
  BY DEF MobilePaySheet
<1> HIDE DEF n, lines, total
<1> QED BY <1>1, <1>2, <1>3, <1>4, SheetComputes

LEMMA StripeSheetComputes ==
  ASSUME NEW S, NEW payments \in Seq(S)
  PROVE  ComputesItsValues(StripeSheet(payments))
<1> DEFINE n == Len(payments)
           row(i) == <<Text, Text, Text, Text, Text, Text, Text, Text, Num(payments[i].amount),
                       Num(payments[i].fee), Num(payments[i].net), Num(payments[i].posted),
                       Diff("K", "L", i, payments[i].net - payments[i].posted)>>
           lines == [i \in DOMAIN payments |-> row(i)]
           total == <<Text, Text, Text, Text, Text, Text, Text, Text, SumOf(lines, "I", 8),
                      SumOf(lines, "J", 9), SumOf(lines, "K", 10), SumOf(lines, "L", 11),
                      SumOf(lines, "M", 12)>>
<1>1. n \in Nat /\ lines = [i \in 1 .. n |-> lines[i]]
  OBVIOUS
<1>2. \A i \in 1 .. n : RowIsRight(lines, i)
  <2> SUFFICES ASSUME NEW i \in 1 .. n PROVE RowIsRight(lines, i)
    OBVIOUS
  <2>1. lines[i] = row(i)
    OBVIOUS
  <2> HIDE DEF lines
  <2>2. DOMAIN lines[i] = 1 .. 13 /\ \A c \in 1 .. 12 : lines[i][c].is \in {"text", "number"}
    BY <2>1, Cells
  <2>3. /\ lines[i][13].is = "difference" /\ lines[i][13].row = i + 1
        /\ lines[i][13].minuend = "K" /\ lines[i][13].subtrahend = "L"
        /\ lines[i][13].value = payments[i].net - payments[i].posted
    BY <2>1, Cells
  <2>4. lines[i][Column["K"]].value = payments[i].net
    BY <2>1, Cells, Letters
  <2>5. lines[i][Column["L"]].value = payments[i].posted
    BY <2>1, Cells, Letters
  <2> QED BY <2>2, <2>3, <2>4, <2>5 DEF RowIsRight
<1>3. TotalIsRight(lines, total)
  <2> HIDE DEF lines
  <2> QED BY Letters DEF TotalIsRight
<1>4. StripeSheet(payments) = WithTotal(lines, total)
  BY DEF StripeSheet
<1> HIDE DEF n, lines, total
<1> QED BY <1>1, <1>2, <1>3, <1>4, SheetComputes

(* What the last row of a sheet says.                                      *)
HasRows(lines, n) == n \in Nat /\ lines = [i \in 1 .. n |-> lines[i]]
ColumnValues(lines, n, c) == [i \in 1 .. n |-> lines[i][c].value]

LEMMA BottomIsTheSum ==
  ASSUME NEW n, NEW lines, HasRows(lines, n), NEW total,
         NEW letter \in DOMAIN Column, NEW c, c = Column[letter],
         total[c] = SumOf(lines, letter, c - 1)
  PROVE  Bottom(WithTotal(lines, total), letter)
           = SumFunctionOnSet(ColumnValues(lines, n, c), 1 .. n)
<1> DEFINE sheet == WithTotal(lines, total)
           values == ColumnValues(lines, n, c)
<1> USE DEF HasRows, ColumnValues
<1>1. CASE n = 0
  <2>1. sheet = <<>>
    BY <1>1, AppendedRow DEF WithTotal
  <2>2. 1 .. n = {}
    BY <1>1
  <2> HIDE DEF sheet, values
  <2> QED BY <2>1, <2>2, EmptySum DEF Bottom, sheet, values
<1>2. CASE n # 0
  <2>1. sheet # <<>> /\ sheet[Len(sheet)] = total
    BY <1>2, AppendedRow DEF WithTotal
  <2>2. Bottom(sheet, letter) = SumOf(lines, letter, c - 1).value
    <3> HIDE DEF sheet
    <3> QED BY <2>1 DEF Bottom
  <2> DEFINE column == [i \in DOMAIN lines |-> lines[i][(c - 1) + 1]]
  <2>3. SumOf(lines, letter, c - 1).value = Total(column, "value")
    BY DEF SumOf
  <2>4. [i \in DOMAIN column |-> column[i]["value"]] = values
    <3>1. (c - 1) + 1 = c
      BY DEF Column
    <3>2. DOMAIN lines = 1 .. n
      OBVIOUS
    <3> QED BY <3>1, <3>2
  <2>5. Total(column, "value") = SumFunctionOnSet(values, 1 .. n)
    <3>1. DOMAIN values = 1 .. n
      OBVIOUS
    <3> HIDE DEF column, values
    <3> QED BY <2>4, <3>1 DEF Total, SumFunction
  <2> QED BY <2>2, <2>3, <2>5
<1> QED BY <1>1, <1>2

LEMMA TotalOfASequence ==
  ASSUME NEW S, NEW lines \in Seq(S), NEW key
  PROVE  Total(lines, key)
           = SumFunctionOnSet([i \in 1 .. Len(lines) |-> lines[i][key]], 1 .. Len(lines))
<1>1. DOMAIN lines = 1 .. Len(lines)
  OBVIOUS
<1> QED BY <1>1 DEF Total, SumFunction

LEMMA BottomOfAccounts ==
  ASSUME NEW accounts \in Seq(Account)
  PROVE  /\ Bottom(AccountSheet(accounts), "E") = Total(accounts, "realized")
         /\ Bottom(AccountSheet(accounts), "F") = Total(accounts, "budget")
         /\ Bottom(AccountSheet(accounts), "G") = Total(accounts, "previous")
<1> DEFINE n == Len(accounts)
           row(i) == <<Text, Text, Text, Text, Num(accounts[i].realized), Num(accounts[i].budget),
                       Num(accounts[i].previous)>>
           lines == [i \in DOMAIN accounts |-> row(i)]
           total == <<Text, Text, Text, Text, SumOf(lines, "E", 4), SumOf(lines, "F", 5),
                      SumOf(lines, "G", 6)>>
           InColumn(c) == ColumnValues(lines, n, c)
<1>1. HasRows(lines, n)
  BY DEF HasRows
<1>2. AccountSheet(accounts) = WithTotal(lines, total)
  BY DEF AccountSheet
<1>3. /\ InColumn(5) = [i \in 1 .. n |-> accounts[i]["realized"]]
      /\ InColumn(6) = [i \in 1 .. n |-> accounts[i]["budget"]]
      /\ InColumn(7) = [i \in 1 .. n |-> accounts[i]["previous"]]
  <2> SUFFICES ASSUME NEW i \in 1 .. n
               PROVE  /\ lines[i][5].value = accounts[i]["realized"]
                      /\ lines[i][6].value = accounts[i]["budget"]
                      /\ lines[i][7].value = accounts[i]["previous"]
    BY DEF ColumnValues
  <2>1. lines[i] = row(i)
    OBVIOUS
  <2> HIDE DEF lines
  <2> QED BY <2>1, Cells
<1>4. /\ total[5] = SumOf(lines, "E", 5 - 1) /\ total[6] = SumOf(lines, "F", 6 - 1)
      /\ total[7] = SumOf(lines, "G", 7 - 1)
  <2> HIDE DEF lines
  <2> QED OBVIOUS
<1> HIDE DEF lines, total
<1>5. /\ Bottom(WithTotal(lines, total), "E") = SumFunctionOnSet(InColumn(5), 1 .. n)
      /\ Bottom(WithTotal(lines, total), "F") = SumFunctionOnSet(InColumn(6), 1 .. n)
      /\ Bottom(WithTotal(lines, total), "G") = SumFunctionOnSet(InColumn(7), 1 .. n)
  <2> HIDE DEF n
  <2>1. Bottom(WithTotal(lines, total), "E") = SumFunctionOnSet(InColumn(5), 1 .. n)
    <3>1. "E" \in DOMAIN Column /\ 5 = Column["E"] /\ total[5] = SumOf(lines, "E", 5 - 1)
      BY <1>4, Letters
    <3> QED BY <1>1, <3>1, BottomIsTheSum
  <2>2. Bottom(WithTotal(lines, total), "F") = SumFunctionOnSet(InColumn(6), 1 .. n)
    <3>1. "F" \in DOMAIN Column /\ 6 = Column["F"] /\ total[6] = SumOf(lines, "F", 6 - 1)
      BY <1>4, Letters
    <3> QED BY <1>1, <3>1, BottomIsTheSum
  <2>3. Bottom(WithTotal(lines, total), "G") = SumFunctionOnSet(InColumn(7), 1 .. n)
    <3>1. "G" \in DOMAIN Column /\ 7 = Column["G"] /\ total[7] = SumOf(lines, "G", 7 - 1)
      BY <1>4, Letters
    <3> QED BY <1>1, <3>1, BottomIsTheSum
  <2> QED BY <2>1, <2>2, <2>3
<1> HIDE DEF InColumn
<1> QED BY <1>2, <1>3, <1>5, TotalOfASequence

LEMMA BottomOfGroups ==
  ASSUME NEW groups \in Seq(Group)
  PROVE  /\ Bottom(GroupSheet(groups), "D") = Total(groups, "amount")
         /\ Bottom(GroupSheet(groups), "E") = Total(groups, "previous")
<1> DEFINE n == Len(groups)
           row(i) == <<Text, Text, Text, Num(groups[i].amount), Num(groups[i].previous)>>
           lines == [i \in DOMAIN groups |-> row(i)]
           total == <<Text, Text, Text, SumOf(lines, "D", 3), SumOf(lines, "E", 4)>>
           InColumn(c) == ColumnValues(lines, n, c)
<1>1. HasRows(lines, n)
  BY DEF HasRows
<1>2. GroupSheet(groups) = WithTotal(lines, total)
  BY DEF GroupSheet
<1>3. /\ InColumn(4) = [i \in 1 .. n |-> groups[i]["amount"]]
      /\ InColumn(5) = [i \in 1 .. n |-> groups[i]["previous"]]
  <2> SUFFICES ASSUME NEW i \in 1 .. n
               PROVE  /\ lines[i][4].value = groups[i]["amount"]
                      /\ lines[i][5].value = groups[i]["previous"]
    BY DEF ColumnValues
  <2>1. lines[i] = row(i)
    OBVIOUS
  <2> HIDE DEF lines
  <2> QED BY <2>1, Cells
<1>4. total[4] = SumOf(lines, "D", 4 - 1) /\ total[5] = SumOf(lines, "E", 5 - 1)
  <2> HIDE DEF lines
  <2> QED OBVIOUS
<1> HIDE DEF lines, total
<1>5. /\ Bottom(WithTotal(lines, total), "D") = SumFunctionOnSet(InColumn(4), 1 .. n)
      /\ Bottom(WithTotal(lines, total), "E") = SumFunctionOnSet(InColumn(5), 1 .. n)
  <2> HIDE DEF n
  <2>1. Bottom(WithTotal(lines, total), "D") = SumFunctionOnSet(InColumn(4), 1 .. n)
    <3>1. "D" \in DOMAIN Column /\ 4 = Column["D"] /\ total[4] = SumOf(lines, "D", 4 - 1)
      BY <1>4, Letters
    <3> QED BY <1>1, <3>1, BottomIsTheSum
  <2>2. Bottom(WithTotal(lines, total), "E") = SumFunctionOnSet(InColumn(5), 1 .. n)
    <3>1. "E" \in DOMAIN Column /\ 5 = Column["E"] /\ total[5] = SumOf(lines, "E", 5 - 1)
      BY <1>4, Letters
    <3> QED BY <1>1, <3>1, BottomIsTheSum
  <2> QED BY <2>1, <2>2
<1> HIDE DEF InColumn
<1> QED BY <1>2, <1>3, <1>5, TotalOfASequence

-----------------------------------------------------------------------------
(* The overview                                                            *)

(* The workbook was made of an overview.                                   *)
BookIsOfAnOverview == book = NoBook \/ \E d \in Overview : book = BuildFinanceWorkbook(d)

(* The invariant that is inductive.                                        *)
OverviewInv == OverviewTypeOK /\ BookIsOfAnOverview

LEMMA DataIsTyped ==
  ASSUME NEW d \in Overview \cup {NoData}
  PROVE  /\ d.accounts \in Seq(Account) /\ d.groups \in Seq(Group)
         /\ d.bank \in Seq([amount : Int, balance : Int, posted : Int])
         /\ d.mobilePay \in Seq([amount : Int, posted : Int])
         /\ d.stripe \in Seq([amount : Int, fee : Int, net : Int, posted : Int])
<1>1. CASE d \in Overview
  BY <1>1 DEF Overview
<1>2. CASE d = NoData
  BY <1>2 DEF NoData
<1> QED BY <1>1, <1>2

LEMMA OverviewInitEstablishes ==
  ASSUME OverviewInit
  PROVE  OverviewInv
BY OverviewAssumption DEF OverviewInit, OverviewInv, OverviewTypeOK, BookIsOfAnOverview

LEMMA LoadEnds ==
  ASSUME OverviewTypeOK, NEW i \in DOMAIN overviews
  PROVE  overviews[i] \in OverviewYears /\ RemoveAt(overviews, i) \in Seq(OverviewYears)
BY DEF OverviewTypeOK, RemoveAt

LEMMA OverviewNextPreserves ==
  ASSUME OverviewInv, [OverviewNext]_overviewVars
  PROVE  OverviewInv'
<1> USE OverviewAssumption DEF OverviewInv, OverviewTypeOK
<1>1. ASSUME NEW y \in OverviewYears, ChooseYear(y) PROVE OverviewInv'
  BY <1>1 DEF ChooseYear, BookIsOfAnOverview
<1>2. ASSUME NEW i \in DOMAIN overviews, OverviewAnswered(i) PROVE OverviewInv'
  <2>1. PICK d \in Overviews : data' = [d EXCEPT !.year = overviews[i]]
    BY <1>2 DEF OverviewAnswered
  <2>2. data' \in Overview
    BY <2>1, LoadEnds DEF Overview
  <2> QED BY <1>2, <2>2, LoadEnds DEF OverviewAnswered, BookIsOfAnOverview
<1>3. ASSUME NEW i \in DOMAIN overviews, OverviewFailed(i) PROVE OverviewInv'
  BY <1>3, LoadEnds DEF OverviewFailed, BookIsOfAnOverview
<1>4. ASSUME NEW s \in Subs(data.accounts), ToggleSubAccount(s) PROVE OverviewInv'
  <2>1. data.accounts \in Seq(Account)
    BY DataIsTyped
  <2>2. PICK i \in DOMAIN data.accounts : s = SubAccount(data.accounts[i])
    BY DEF Subs, Listed
  <2>3. s \in Names \X Names
    BY <2>1, <2>2, AccountsAreFinite DEF SubAccount, Account
  <2> QED BY <1>4, <2>3 DEF ToggleSubAccount, BookIsOfAnOverview
<1>5. CASE ExportWorkbook
  BY <1>5 DEF ExportWorkbook, BookIsOfAnOverview
<1>6. CASE SetTab
  BY <1>6 DEF SetTab, BookIsOfAnOverview
<1>7. CASE UNCHANGED overviewVars
  BY <1>7 DEF overviewVars, BookIsOfAnOverview
<1> QED BY <1>1, <1>2, <1>3, <1>4, <1>5, <1>6, <1>7 DEF OverviewNext

LEMMA OverviewInvariant == OverviewSpec => []OverviewInv
<1>1. OverviewInit => OverviewInv
  BY OverviewInitEstablishes
<1>2. OverviewInv /\ [OverviewNext]_overviewVars => OverviewInv'
  BY OverviewNextPreserves
<1> QED BY <1>1, <1>2, PTL DEF OverviewSpec

(* The figures, the loads and the open sub-accounts keep their types.      *)
THEOREM OverviewTyped == OverviewSpec => []OverviewTypeOK
<1>1. OverviewInv => OverviewTypeOK
  BY DEF OverviewInv
<1> QED BY <1>1, OverviewInvariant, PTL

LEMMA BookComputes ==
  ASSUME OverviewInv
  PROVE  FormulasMatchValues
<1> SUFFICES ASSUME NEW n \in DOMAIN book PROVE ComputesItsValues(book[n])
  BY DEF FormulasMatchValues, ComputesItsValues
<1>1. CASE book = NoBook
  BY <1>1 DEF NoBook
<1>2. ASSUME NEW d \in Overview, book = BuildFinanceWorkbook(d) PROVE ComputesItsValues(book[n])
  <2> USE DataIsTyped
  <2>1. n \in 1 .. 5
    BY <1>2 DEF BuildFinanceWorkbook
  <2>2. ComputesItsValues(AccountSheet(d.accounts))
    BY AccountSheetComputes
  <2>3. ComputesItsValues(GroupSheet(d.groups))
    BY GroupSheetComputes
  <2>4. ComputesItsValues(SourceSheet(d.bank))
    BY SourceSheetComputes
  <2>5. ComputesItsValues(MobilePaySheet(d.mobilePay))
    BY MobilePaySheetComputes
  <2>6. ComputesItsValues(StripeSheet(d.stripe))
    BY StripeSheetComputes
  <2> QED BY <1>2, <2>1, <2>2, <2>3, <2>4, <2>5, <2>6 DEF BuildFinanceWorkbook
<1> QED BY <1>1, <1>2 DEF OverviewInv, BookIsOfAnOverview

(* For overviews of any length the formulas of the workbook compute the    *)
(* values written beside them (buildFinanceWorkbookXlsx).                  *)
THEOREM FormulasAreRight == OverviewSpec => []FormulasMatchValues
<1>1. OverviewInv => FormulasMatchValues
  BY BookComputes
<1> QED BY <1>1, OverviewInvariant, PTL

LEMMA PageAddsUp ==
  ASSUME OverviewInv
  PROVE  PageAddsUpToTheBook
<1>1. data.accounts \in Seq(Account) /\ data.groups \in Seq(Group)
  BY DataIsTyped DEF OverviewInv, OverviewTypeOK
<1>2. \A figure \in Figures :
        Total(AccountTable(data.accounts), figure) = Total(data.accounts, figure)
  BY <1>1, AccountTableAddsUp
<1>3. \A figure \in {"amount", "previous"} :
        Total(GroupTable(data.groups), figure) = Total(data.groups, figure)
  BY <1>1, GroupTableAddsUp
<1> QED BY <1>1, <1>2, <1>3, BottomOfAccounts, BottomOfGroups DEF PageAddsUpToTheBook, Figures

(* For any accounts, sub-accounts, contexts and posting groups, what the   *)
(* page shows adds up to the totals of the workbook (accountGroups).       *)
THEOREM PageIsTheBook == OverviewSpec => []PageAddsUpToTheBook
<1>1. OverviewInv => PageAddsUpToTheBook
  BY PageAddsUp
<1> QED BY <1>1, OverviewInvariant, PTL

=============================================================================
