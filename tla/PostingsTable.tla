----------------------------- MODULE PostingsTable -----------------------------
(***************************************************************************)
(* The tables of postings: the cashier's, where a field is saved when it is*)
(* left and the table is loaded again after every write, and the read-only *)
(* one with its export (FinanceAdminCashierPostingsPage,                   *)
(* FinanceAdminPostingsPage).  The other filters of the pages choose among *)
(* the rows loaded; the year chooses what is loaded, so it stands for the  *)
(* filters of the request.  No request is cancelled, and each answer is    *)
(* shown when it comes.  Every posting has a date (one with neither of its *)
(* dates is refused by the page and not sent), and one cashier is at work: *)
(* a table is not told of what others write, nor is it claimed to know it. *)
(***************************************************************************)
EXTENDS Naturals, Sequences, FiniteSets

CONSTANTS
  Originals,  \* ids of postings that are no copies
  MaxCopies,  \* bound: copies of copies
  Years,
  Texts,             \* what a posting says besides its date
  NoContent,         \* no posting, or not in the table
  MaxPostingsLoads,  \* bound: loads under way
  MaxWrites,         \* bound: writes
  MaxTurns           \* bound: changes of the year

ASSUME PostingsAssumption ==
  /\ NoContent \notin [year : Years, text : Texts] \cup (Originals \X (0 .. MaxCopies))
  /\ Years \subseteq 1 .. 9999 /\ MaxCopies \in Nat
  /\ MaxPostingsLoads \in Nat \ {0}

AllYears == 0
NoPosting == NoContent

(* A posting is known by its id; the id of a copy is that of the posting   *)
(* copied with -COPY behind it.                                            *)
Postings == Originals \X (0 .. MaxCopies)
CopyOf(p) == <<p[1], p[2] + 1>>

(* Of what a posting says the year of its date is told apart.              *)
Contents == [year : Years, text : Texts]

VARIABLES
  mode,           \* "cashier" or "view"
  year,           \* the year selected, or AllYears
  turns,          \* bound: changes of the year so far
  years,          \* postingYears: the years offered, {} until they are known
  stored,         \* server: the postings
  listed,         \* what the table shows
  typed,          \* rows with keystrokes no load has replaced
  loads,          \* loads under way, in the order they were sent
  writes,         \* writes under way
  made,           \* bound: writes sent so far
  savingPosting,  \* setSaving: the row being saved; one for the table
  stale,          \* history: the answer shown was overtaken or is of another year, or a
                  \* request has failed since
  export          \* the export being made, or the last one made

postingsVars == <<mode, year, turns, years, stored, listed, typed, loads, writes, made,
                  savingPosting, stale, export>>
shownVars == <<listed, typed, stale>>
writeVars == <<writes, made, savingPosting>>
yearVars == <<year, turns, years>>

PostingsTables == [Postings -> Contents \cup {NoContent}]
Unread == [p \in Postings |-> NoContent]

(* What GET admin/postings answers for a year.                             *)
RowsOf(t, y) ==
  [p \in Postings |-> IF t[p] # NoContent /\ (y = AllYears \/ t[p].year = y)
                        THEN t[p] ELSE NoContent]
YearsOf(t) == {t[p].year : p \in {q \in Postings : t[q] # NoContent}}

(* `by`: the effect, saveRow, whose row is saved until the load ends, or    *)
(* another write.                                                          *)
Load(y, by) == [year |-> y, by |-> by, read |-> FALSE, got |-> Unread, overtaken |-> FALSE]
NoExport == [state |-> "none", year |-> AllYears, rows |-> Unread]

PostingsInit ==
  /\ mode \in {"cashier", "view"}
  /\ year \in Years
  /\ turns = 0 /\ made = 0
  /\ years = {}
  /\ stored \in PostingsTables
  /\ listed = Unread /\ typed = {} /\ stale = TRUE
  /\ loads = <<Load(year, "effect")>>
  /\ writes = {}
  /\ savingPosting = NoPosting
  /\ export = NoExport

-----------------------------------------------------------------------------
(* setYear, and the effect that loads the year chosen.                     *)
SetYear(y) ==
  /\ y # year /\ turns < MaxTurns /\ Len(loads) < MaxPostingsLoads
  /\ year' = y
  /\ turns' = turns + 1
  /\ loads' = Append(loads, Load(y, "effect"))
  /\ UNCHANGED <<mode, years, stored, shownVars, writeVars, export>>

(* usePostingYears answered; a year without postings is given up at once.  *)
YearsKnown ==
  /\ years = {} /\ YearsOf(stored) # {} /\ Len(loads) < MaxPostingsLoads
  /\ years' = YearsOf(stored)
  /\ IF year \in years' \cup {AllYears} THEN UNCHANGED <<year, loads>>
     ELSE /\ year' = CHOOSE y \in years' : \A z \in years' : z <= y
          /\ loads' = Append(loads, Load(year', "effect"))
  /\ UNCHANGED <<mode, turns, stored, shownVars, writeVars, export>>

(* The server reads the postings of a load.                                *)
ServerReadsPostings(i) ==
  /\ ~loads[i].read
  /\ loads' = [loads EXCEPT ![i].read = TRUE, ![i].got = RowsOf(stored, loads[i].year)]
  /\ UNCHANGED <<mode, yearVars, stored, shownVars, writeVars, export>>

(* Load i ends: those sent before it are overtaken.                        *)
LoadsWithout(i) ==
  [j \in 1 .. Len(loads) - 1 |->
     IF j < i THEN [loads[j] EXCEPT !.overtaken = TRUE] ELSE loads[j + 1]]

(* load().then: the answer takes the place of all rows, typed or not.      *)
LoadAnswered(i) ==
  /\ loads[i].read
  /\ listed' = loads[i].got
  /\ typed' = {}
  /\ stale' = (loads[i].overtaken \/ loads[i].year # year)
  /\ loads' = LoadsWithout(i)
  /\ savingPosting' = IF loads[i].by = "save" THEN NoPosting ELSE savingPosting
  /\ UNCHANGED <<mode, yearVars, stored, writes, made, export>>

LoadFailed(i) ==
  /\ loads' = LoadsWithout(i)
  /\ stale' = TRUE
  /\ savingPosting' = IF loads[i].by = "save" THEN NoPosting ELSE savingPosting
  /\ UNCHANGED <<mode, yearVars, stored, listed, typed, writes, made, export>>

-----------------------------------------------------------------------------
(* The cashier's table: a row has fields and buttons, whatever is under way.*)
EditableRow(p) == mode = "cashier" /\ listed[p] # NoContent

(* updateRow: a keystroke.                                                 *)
TypePosting(p, c) ==
  /\ EditableRow(p) /\ listed[p] # c
  /\ listed' = [listed EXCEPT ![p] = c]
  /\ typed' = typed \cup {p}
  /\ UNCHANGED <<mode, yearVars, stored, stale, loads, writeVars, export>>

(* A write: it will load the year selected now, whatever is selected then. *)
SendWrite(op, p, c) ==
  /\ EditableRow(p) /\ made < MaxWrites
  /\ writes' = writes \cup {[op |-> op, posting |-> p, content |-> c, year |-> year,
                             answer |-> "none"]}
  /\ made' = made + 1

(* saveRow, when a field is left: the whole row is sent.                   *)
SavePostingRow(p) ==
  /\ SendWrite("save", p, listed[p])
  /\ savingPosting' = p
  /\ UNCHANGED <<mode, yearVars, stored, shownVars, loads, export>>

(* updateSelectAndSave: a choice is typed and sent in one step.            *)
SelectAndSave(p, c) ==
  /\ listed[p] # c
  /\ SendWrite("save", p, c)
  /\ listed' = [listed EXCEPT ![p] = c]
  /\ typed' = typed \cup {p}
  /\ savingPosting' = p
  /\ UNCHANGED <<mode, yearVars, stored, stale, loads, export>>

DuplicateRow(p) ==
  /\ savingPosting # p /\ CopyOf(p) \in Postings
  /\ SendWrite("duplicate", p, listed[p])
  /\ UNCHANGED <<mode, yearVars, stored, shownVars, loads, savingPosting, export>>

DeletePostingRow(p) ==
  /\ SendWrite("delete", p, listed[p])
  /\ UNCHANGED <<mode, yearVars, stored, shownVars, loads, savingPosting, export>>

(* UPDATE, INSERT ... SELECT, DELETE; the id of the copy may be taken.     *)
PostingWritten(w) ==
  LET p == w.posting IN
  CASE w.op = "save" -> [stored EXCEPT ![p] = w.content]
    [] w.op = "duplicate" -> [stored EXCEPT ![CopyOf(p)] = stored[p]]
    [] w.op = "delete" -> [stored EXCEPT ![p] = NoContent]

ServerAccepts(w) ==
  /\ stored[w.posting] # NoContent
  /\ w.op = "duplicate" => stored[CopyOf(w.posting)] = NoContent

ServerWritesPosting(w) ==
  /\ w.answer = "none"
  /\ stored' = IF ServerAccepts(w) THEN PostingWritten(w) ELSE stored
  /\ writes' = (writes \ {w}) \cup
       {[w EXCEPT !.answer = IF ServerAccepts(w) THEN "ok" ELSE "failed"]}
  /\ UNCHANGED <<mode, yearVars, shownVars, loads, made, savingPosting, export>>

(* Mutant: the table is not loaded again after a copy.                     *)
WriteAnswered_NoLoad(w) ==
  /\ w.answer = "ok" /\ Len(loads) < MaxPostingsLoads
  /\ writes' = writes \ {w}
  /\ loads' = IF w.op = "duplicate" THEN loads ELSE Append(loads, Load(w.year, "save"))
  /\ UNCHANGED <<mode, yearVars, stored, shownVars, made, savingPosting, export>>

(* The handlers after their write: await load().                           *)
WriteAnswered(w) ==
  /\ w.answer = "ok" /\ Len(loads) < MaxPostingsLoads
  /\ writes' = writes \ {w}
  /\ loads' = Append(loads, Load(w.year, IF w.op = "save" THEN "save" ELSE "write"))
  /\ UNCHANGED <<mode, yearVars, stored, shownVars, made, savingPosting, export>>

(* Refused, or the answer was lost: shown, and nothing is loaded.          *)
WriteFailed(w) ==
  /\ writes' = writes \ {w}
  /\ stale' = TRUE
  /\ loads' = [i \in 1 .. Len(loads) |-> [loads[i] EXCEPT !.overtaken = TRUE]]
  /\ savingPosting' = IF w.op = "save" THEN NoPosting ELSE savingPosting
  /\ UNCHANGED <<mode, yearVars, stored, listed, typed, made, export>>

-----------------------------------------------------------------------------
PostingsFresh == loads = <<>> /\ ~stale

(* The read-only page offers the workbook, also before any rows are shown. *)
ExportButton == mode = "view" /\ export.state # "making"

(* exportRows up to its await: a year is needed; it and the rows are those *)
(* of the render that was clicked.                                         *)
Export ==
  /\ ExportButton /\ year # AllYears
  /\ export' = [state |-> "making", year |-> year, rows |-> listed]
  /\ UNCHANGED <<mode, yearVars, stored, shownVars, loads, writeVars>>

(* The overview of the year has come: the workbook is made.                *)
Exported ==
  /\ export.state = "making"
  /\ export' = [export EXCEPT !.state = "made"]
  /\ UNCHANGED <<mode, yearVars, stored, shownVars, loads, writeVars>>

ExportFailed ==
  /\ export.state = "making"
  /\ export' = NoExport
  /\ UNCHANGED <<mode, yearVars, stored, shownVars, loads, writeVars>>

PostingsNext ==
  \/ \E y \in Years \cup {AllYears} : SetYear(y)
  \/ YearsKnown
  \/ \E i \in 1 .. Len(loads) : ServerReadsPostings(i) \/ LoadAnswered(i) \/ LoadFailed(i)
  \/ \E p \in Postings : \/ \E c \in Contents : TypePosting(p, c) \/ SelectAndSave(p, c)
                         \/ SavePostingRow(p) \/ DuplicateRow(p) \/ DeletePostingRow(p)
  \/ \E w \in writes : ServerWritesPosting(w) \/ WriteAnswered(w) \/ WriteFailed(w)
  \/ Export \/ Exported \/ ExportFailed

PostingsSpec == PostingsInit /\ [][PostingsNext]_postingsVars

-----------------------------------------------------------------------------
PostingsTypeOK ==
  /\ year \in Years \cup {AllYears} /\ years \subseteq Years
  /\ stored \in PostingsTables /\ listed \in PostingsTables /\ typed \subseteq Postings
  /\ Len(loads) <= MaxPostingsLoads
  /\ \A i \in 1 .. Len(loads) : loads[i].got \in PostingsTables
  /\ \A w \in writes : w.content \in Contents
  /\ savingPosting \in Postings \cup {NoPosting}
  /\ export \in [state : {"none", "making", "made"}, year : Years \cup {AllYears},
                 rows : PostingsTables]

(* When nothing is under way, the table shows the stored postings of the   *)
(* year selected, except where the cashier is typing: after every write and*)
(* change of year, in any order of the requests, unless one failed since or*)
(* the last answer was overtaken (or is a write's, of the year before).    *)
TableShowsTheYear ==
  (PostingsFresh /\ writes = {}) =>
    \A p \in Postings \ typed : listed[p] = RowsOf(stored, year)[p]

=============================================================================
