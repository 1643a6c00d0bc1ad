----------------------------- MODULE FinanceDetail -----------------------------
(***************************************************************************)
(* The pages with one record in a form: a budget line, a posting group, a  *)
(* posting (FinanceAdminBudgetDetailPage, ...PostingGroupDetailPage,       *)
(* ...PostingDetailPage).  The URL names the record.  A jump in the        *)
(* browser's history from one record to another keeps the page and what it *)
(* holds and starts a new load; leaving for the list drops the page, but   *)
(* not the handlers that still wait for an answer: they navigate when it   *)
(* comes.                                                                  *)
(***************************************************************************)
EXTENDS Naturals, Sequences, FiniteSets

CONSTANTS
  RecordIds,      \* ids of records, New among them only in a URL
  New,            \* the URL of a record to be made
  List,           \* the URL of the list
  LoadedRecords,  \* the records there are at first
  Values, NoValue,
  MaxOpens,      \* bound: pages opened
  MaxFormCalls,  \* bound: writes sent
  MaxFormLoads   \* bound: loads under way

ASSUME FormAssumption ==
  /\ {New, List} \cap RecordIds = {} /\ New # List
  /\ LoadedRecords \subseteq RecordIds
  /\ Values # {} /\ NoValue \notin Values
  /\ MaxFormLoads \in Nat

VARIABLES
  kind,            \* which of the three pages
  url,             \* the record in the URL, or List
  store,           \* server: the table
  form,            \* the form, or NoForm while nothing is loaded
  heading,         \* the posting page: the record shown beside the form
  reads,           \* loads of the page that is open, in the order they were sent
  formCalls,       \* writes under way
  savingForm,      \* budgets and groups: a save of this page is under way
  formStale,       \* history: the form was overtaken, or a load failed since
  opens, formSent  \* bounds: pages opened, writes sent so far

formVars == <<kind, url, store, form, heading, reads, formCalls, savingForm, formStale, opens,
              formSent>>
formBounds == <<opens, formSent>>

Urls == RecordIds \cup {New}
Blank == CHOOSE v \in Values : TRUE
NoForm == [of |-> List]
Form == [of : Urls, id : Urls, value : Values]
FormCall == [op : {"create", "update", "delete"}, of : Urls, target : Urls, id : Urls,
         value : Values, fresh : BOOLEAN, here : BOOLEAN, answer : {"none", "ok", "failed"}]

RecordExists(i) == i \in RecordIds /\ store[i] # NoValue
Read(u, by) == [of |-> u, by |-> by, got |-> IF u = New THEN Blank ELSE NoValue,
                read |-> u = New, overtaken |-> FALSE]

FormInit ==
  /\ kind \in {"budget", "group", "posting"}
  /\ url = List
  /\ store = [i \in RecordIds |-> IF i \in LoadedRecords THEN Blank ELSE NoValue]
  /\ form = NoForm /\ heading = NoForm
  /\ reads = <<>> /\ formCalls = {}
  /\ savingForm = FALSE /\ formStale = TRUE
  /\ opens = 0 /\ formSent = 0

-----------------------------------------------------------------------------
(* Mutant: the effect does not depend on the id.                           *)
Open_LoadsOnce(u) ==
  /\ u # url /\ opens < MaxOpens /\ Len(reads) < MaxFormLoads
  /\ url' = u /\ opens' = opens + 1
  /\ reads' = IF url = List THEN <<Read(u, "effect")>> ELSE reads
  /\ formStale' = IF url = List THEN TRUE ELSE formStale
  /\ UNCHANGED <<kind, store, form, heading, formCalls, savingForm, formSent>>

(* A record is opened, from the list or from another record's page.        *)
Open(u) ==
  /\ u # url /\ opens < MaxOpens /\ Len(reads) < MaxFormLoads
  /\ url' = u /\ opens' = opens + 1
  /\ reads' = Append(reads, Read(u, "effect"))
  /\ formStale' = IF url = List THEN TRUE ELSE formStale
  /\ UNCHANGED <<kind, store, form, heading, formCalls, savingForm, formSent>>

Unmounted ==
  /\ url' = List
  /\ form' = NoForm /\ heading' = NoForm
  /\ reads' = <<>>
  /\ savingForm' = FALSE /\ formStale' = TRUE

(* The link to the list: the page goes, its writes stay under way.         *)
Leave ==
  /\ url # List
  /\ Unmounted
  /\ formCalls' = {[c EXCEPT !.here = FALSE] : c \in formCalls}
  /\ UNCHANGED <<kind, store, formBounds>>

ServerReadsRecord(i) ==
  /\ ~reads[i].read
  /\ reads' = [reads EXCEPT ![i].read = TRUE, ![i].got = store[reads[i].of]]
  /\ UNCHANGED <<kind, url, store, form, heading, formCalls, savingForm, formStale, formBounds>>

(* Load i ends: those sent before it are overtaken.                        *)
ReadsWithout(i) ==
  [j \in 1 .. Len(reads) - 1 |->
     IF j < i THEN [reads[j] EXCEPT !.overtaken = TRUE] ELSE reads[j + 1]]

(* The effect's answer fills the form, whatever the URL is by now; the     *)
(* answer after a save renews what is beside the form only.                *)
ReadAnswered(i) ==
  LET record == [of |-> reads[i].of, id |-> reads[i].of, value |-> reads[i].got] IN
  /\ reads[i].read /\ reads[i].got # NoValue
  /\ reads' = ReadsWithout(i)
  /\ heading' = IF kind = "posting" THEN record ELSE heading
  /\ IF reads[i].by = "effect"
       THEN form' = record /\ formStale' = reads[i].overtaken
       ELSE UNCHANGED <<form, formStale>>
  /\ UNCHANGED <<kind, url, store, formCalls, savingForm, formBounds>>

(* No such record, or no answer: an error is shown.                        *)
ReadFailed(i) ==
  /\ reads[i].of # New /\ (reads[i].read => reads[i].got = NoValue)
  /\ reads' = ReadsWithout(i)
  /\ formStale' = TRUE
  /\ UNCHANGED <<kind, url, store, form, heading, formCalls, savingForm, formBounds>>

-----------------------------------------------------------------------------
(* The three forms, each with the fields and buttons of its page; the id   *)
(* can be typed, except that of a posting that exists.                     *)
BudgetForm == kind = "budget" /\ form # NoForm
GroupForm == kind = "group" /\ form # NoForm
PostingForm == kind = "posting" /\ form # NoForm
IdIsTyped == BudgetForm \/ GroupForm \/ (PostingForm /\ url = New)

(* update: one field changes.                                              *)
TypeField(id, value) ==
  /\ BudgetForm \/ GroupForm \/ PostingForm
  /\ (id = form.id) # (value = form.value)
  /\ id # form.id => id \in RecordIds /\ IdIsTyped
  /\ form' = [form EXCEPT !.id = id, !.value = value]
  /\ UNCHANGED <<kind, url, store, heading, reads, formCalls, savingForm, formStale, formBounds>>

FormFresh == reads = <<>> /\ ~formStale

SendForm(op) ==
  /\ formSent < MaxFormCalls
  /\ formSent' = formSent + 1
  /\ formCalls' = formCalls \cup
       {[op |-> op, of |-> form.of, target |-> url, id |-> form.id, value |-> form.value,
         fresh |-> FormFresh, here |-> TRUE, answer |-> "none"]}

(* save of the budget and of the posting group.                            *)
SaveRecord ==
  /\ BudgetForm \/ GroupForm
  /\ ~savingForm
  /\ form.id # New
  /\ SendForm(IF url = New THEN "create" ELSE "update")
  /\ savingForm' = TRUE
  /\ UNCHANGED <<kind, url, store, form, heading, reads, formStale, opens>>

(* save of the posting: its button stays enabled.                          *)
SavePosting ==
  /\ PostingForm
  /\ url = New => form.id # New
  /\ SendForm(IF url = New THEN "create" ELSE "update")
  /\ UNCHANGED <<kind, url, store, form, heading, reads, savingForm, formStale, opens>>

(* remove, confirmed: also while a save is under way.                      *)
RemoveRecord ==
  /\ BudgetForm \/ GroupForm
  /\ url # New
  /\ SendForm("delete")
  /\ UNCHANGED <<kind, url, store, form, heading, reads, savingForm, formStale, opens>>

-----------------------------------------------------------------------------
(* The table under its primary key; a posting keeps its id.                *)
NewId(c) == IF kind = "posting" /\ c.op = "update" THEN c.target ELSE c.id

Accepted(c) ==
  CASE c.op = "create" -> ~RecordExists(c.id)
    [] c.op = "update" -> RecordExists(c.target) /\ (NewId(c) = c.target \/ ~RecordExists(NewId(c)))
    [] c.op = "delete" -> RecordExists(c.target)

RecordWritten(c) ==
  CASE c.op = "create" -> [store EXCEPT ![c.id] = c.value]
    [] c.op = "update" -> [store EXCEPT ![c.target] = NoValue, ![NewId(c)] = c.value]
    [] c.op = "delete" -> [store EXCEPT ![c.target] = NoValue]

ServerWritesRecord(c) ==
  /\ c.answer = "none"
  /\ store' = IF Accepted(c) THEN RecordWritten(c) ELSE store
  /\ formCalls' = (formCalls \ {c}) \cup
       {[c EXCEPT !.answer = IF Accepted(c) THEN "ok" ELSE "failed"]}
  /\ UNCHANGED <<kind, url, form, heading, reads, savingForm, formStale, formBounds>>

GoesToList(c) == kind # "posting" \/ c.op = "create"

(* The handlers after their await: navigate to the list, from wherever the *)
(* user is by now.                                                         *)
Answered(c) ==
  /\ c.answer = "ok" /\ GoesToList(c)
  /\ Unmounted
  /\ formCalls' = {[d EXCEPT !.here = FALSE] : d \in formCalls \ {c}}
  /\ UNCHANGED <<kind, store, formBounds>>

(* A posting was saved: it is read again, for what is beside the form.     *)
PostingSaved(c) ==
  /\ c.answer = "ok" /\ ~GoesToList(c)
  /\ formCalls' = formCalls \ {c}
  /\ c.here => Len(reads) < MaxFormLoads
  /\ reads' = IF c.here THEN Append(reads, Read(c.target, "refresh")) ELSE reads
  /\ UNCHANGED <<kind, url, store, form, heading, savingForm, formStale, formBounds>>

(* Refused, or no answer: an error, and the form stays.                    *)
Failed(c) ==
  /\ formCalls' = formCalls \ {c}
  /\ savingForm' = IF c.here /\ c.op # "delete" THEN FALSE ELSE savingForm
  /\ UNCHANGED <<kind, url, store, form, heading, reads, formStale, formBounds>>

FormNext ==
  \/ \E u \in Urls : Open(u)
  \/ Leave
  \/ \E i \in 1 .. Len(reads) : ServerReadsRecord(i) \/ ReadAnswered(i) \/ ReadFailed(i)
  \/ \E i \in Urls, v \in Values : TypeField(i, v)
  \/ SaveRecord \/ SavePosting \/ RemoveRecord
  \/ \E c \in formCalls : ServerWritesRecord(c) \/ Answered(c) \/ PostingSaved(c) \/ Failed(c)

FormSpec == FormInit /\ [][FormNext]_formVars

-----------------------------------------------------------------------------
FormTypeOK ==
  /\ url \in Urls \cup {List}
  /\ store \in [RecordIds -> Values \cup {NoValue}]
  /\ form \in Form \cup {NoForm} /\ heading \in Form \cup {NoForm}
  /\ formCalls \subseteq FormCall /\ savingForm \in BOOLEAN
  /\ Len(reads) <= MaxFormLoads

(* A write names the record its form was loaded from, and not another one  *)
(* whose URL the user has jumped to since: whenever no load was under way, *)
(* overtaken or failed when it was sent (the effect on [id] of each page). *)
WritesItsOwnRecord == \A c \in formCalls : c.fresh => c.of = c.target

=============================================================================
