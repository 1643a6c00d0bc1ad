--------------------------- MODULE FinanceImportPage ---------------------------
(***************************************************************************)
(* The cashier's import page: two CSV files that are judged by the server  *)
(* as soon as they are chosen, the import of the files and of Stripe's     *)
(* transactions, the making of postings from what is already imported, and *)
(* the list of earlier imports.  Requests are answered in any order, and an*)
(* answer may be lost after the server has done its work.                  *)
(***************************************************************************)
EXTENDS Naturals, FiniteSets

CONSTANTS
  Files,       \* files the cashier can choose
  ValidFiles,  \* those the server accepts
  NoFile,
  MaxChoices,  \* bound: files chosen, in both fields together
  MaxImports,  \* bound: imports the server stores
  MaxLoads     \* bound: list requests under way, without that of an import

ASSUME FilesAssumption == ValidFiles \subseteq Files /\ NoFile \notin Files
ASSUME BoundsAssumption == MaxChoices \in Nat /\ MaxImports \in Nat /\ MaxLoads \in Nat

Kinds == {"bank", "mobilePay"}

VARIABLES
  chosen,      \* bankFile, mobilePayFile
  validation,  \* fileValidation[kind].status
  request,     \* validationRequestRef: number of the last validation asked for
  asked,       \* validations under way
  job,         \* the import under way (isImporting), or Idle
  generating,  \* isGeneratingPostings
  stored,      \* server: number of imports stored
  history,     \* number of imports the list shows
  loads,       \* list requests under way: who asked, and how much was stored then
  error,       \* an error is shown above the forms
  stripeError, \* an error is shown on the Stripe card
  overtaken    \* history variable: an answer replaced the list by an older one

vars == <<chosen, validation, request, asked, job, generating, stored, history, loads,
          error, stripeError, overtaken>>
fileVars == <<chosen, validation, request, asked>>
listVars == <<stored, history, loads, overtaken>>

Idle == [what |-> "none", files |-> {}, phase |-> "none", number |-> 0]
Jobs == [what : {"none", "csv", "stripe"}, files : SUBSET Files,
         phase : {"none", "sent", "stored", "history"}, number : 0 .. MaxImports]
Sent(what, files) == [what |-> what, files |-> files, phase |-> "sent", number |-> 0]
Validations == [kind : Kinds, id : 1 .. MaxChoices, file : Files]
Loads == [own : BOOLEAN, from : 0 .. MaxImports]   \* own: asked by the import under way

Init ==
  /\ chosen = [k \in Kinds |-> NoFile]
  /\ validation = [k \in Kinds |-> "idle"]
  /\ request = [k \in Kinds |-> 0]
  /\ asked = {}
  /\ job = Idle
  /\ generating = FALSE
  /\ stored = 0 /\ history = 0
  /\ loads = {[own |-> FALSE, from |-> 0]}
  /\ error = FALSE /\ stripeError = FALSE /\ overtaken = FALSE

-----------------------------------------------------------------------------
(* onChange of a file field and validateSelectedFile up to its await.      *)
ChooseFile(k, f) ==
  /\ request["bank"] + request["mobilePay"] < MaxChoices
  /\ chosen' = [chosen EXCEPT ![k] = f]
  /\ request' = [request EXCEPT ![k] = @ + 1]
  /\ validation' = [validation EXCEPT ![k] = IF f = NoFile THEN "idle" ELSE "pending"]
  /\ asked' = IF f = NoFile THEN asked
              ELSE asked \cup {[kind |-> k, id |-> request[k] + 1, file |-> f]}
  /\ error' = FALSE
  /\ UNCHANGED <<job, generating, listVars, stripeError>>

(* The server's verdict of a file; a request that fails says "invalid".    *)
Verdicts(f) == {"invalid"} \cup (IF f \in ValidFiles THEN {"valid"} ELSE {})

(* Mutant: the answer is shown without comparing the request's number.     *)
FileValidated_AnyRequest(v) ==
  /\ asked' = asked \ {v}
  /\ \E s \in Verdicts(v.file) : validation' = [validation EXCEPT ![v.kind] = s]
  /\ UNCHANGED <<chosen, request, job, generating, listVars, error, stripeError>>

(* validateSelectedFile after its await.                                   *)
FileValidated(v) ==
  /\ asked' = asked \ {v}
  /\ IF request[v.kind] = v.id
       THEN \E s \in Verdicts(v.file) : validation' = [validation EXCEPT ![v.kind] = s]
       ELSE UNCHANGED validation
  /\ UNCHANGED <<chosen, request, job, generating, listVars, error, stripeError>>

-----------------------------------------------------------------------------
ChosenFiles == {chosen[k] : k \in Kinds} \ {NoFile}

(* Mutant: files whose verdict is still out are imported.                  *)
Submit_Pending ==
  /\ job = Idle
  /\ ChosenFiles # {} /\ \A k \in Kinds : validation[k] # "invalid"
  /\ job' = Sent("csv", ChosenFiles)
  /\ error' = FALSE
  /\ UNCHANGED <<fileVars, generating, listVars, stripeError>>

(* submit, up to its first await: the button is disabled while importing.  *)
Submit ==
  /\ job = Idle
  /\ ChosenFiles # {} /\ \A k \in Kinds : validation[k] \notin {"pending", "invalid"}
  /\ job' = Sent("csv", ChosenFiles)
  /\ error' = FALSE
  /\ UNCHANGED <<fileVars, generating, listVars, stripeError>>

(* submit's early returns: nothing chosen, a verdict still out, or a file  *)
(* refused (whose own message stays next to it).                           *)
SubmitRefused ==
  /\ job = Idle
  /\ \/ ChosenFiles = {}
     \/ \E k \in Kinds : validation[k] \in {"pending", "invalid"}
  /\ error' = (ChosenFiles = {} \/ \E k \in Kinds : validation[k] = "pending")
  /\ UNCHANGED <<fileVars, job, generating, listVars, stripeError>>

(* importStripeData: its dates are complete and in order.                  *)
ImportStripe ==
  /\ job = Idle
  /\ job' = Sent("stripe", {})
  /\ error' = FALSE /\ stripeError' = FALSE
  /\ UNCHANGED <<fileVars, generating, listVars>>

(* Its early returns: a date is missing, or the last is before the first.  *)
ImportStripeRefused ==
  /\ job = Idle
  /\ stripeError' = TRUE
  /\ UNCHANGED <<fileVars, job, generating, listVars, error>>

(* The server stores the import.                                           *)
Store ==
  /\ job.phase = "sent" /\ stored < MaxImports
  /\ stored' = stored + 1
  /\ job' = [job EXCEPT !.phase = "stored", !.number = stored + 1]
  /\ UNCHANGED <<fileVars, generating, history, loads, overtaken, error, stripeError>>

(* Imports from elsewhere: webhooks, other cashiers, and an import whose   *)
(* page gave up on it before the server was done.                          *)
OthersStore ==
  /\ stored < MaxImports
  /\ stored' = stored + 1
  /\ UNCHANGED <<fileVars, job, generating, history, loads, overtaken, error, stripeError>>

(* Mutant: the list is not reloaded after an import.                       *)
Imported_NoReload ==
  /\ job.phase = "stored"
  /\ job' = Idle
  /\ UNCHANGED <<fileVars, generating, listVars, error, stripeError>>

(* The import is answered: the page reloads the list before it is done.    *)
Imported ==
  /\ job.phase = "stored"
  /\ job' = [job EXCEPT !.phase = "history"]
  /\ loads' = loads \cup {[own |-> TRUE, from |-> stored]}
  /\ UNCHANGED <<fileVars, generating, stored, history, overtaken, error, stripeError>>

(* The server refuses, or its answer is lost: shown, and nothing reloaded. *)
ImportFailed ==
  /\ job.phase \in {"sent", "stored"}
  /\ job' = Idle
  /\ IF job.what = "stripe" THEN stripeError' = TRUE /\ UNCHANGED error
     ELSE error' = TRUE /\ UNCHANGED stripeError
  /\ UNCHANGED <<fileVars, generating, listVars>>

(* loadHistory answered: the list as it was at some time since it was asked*)
(* for, in whatever order the answers come: an older list replaces a newer *)
(* one.  The import that waits ends.                                       *)
HistoryLoaded(l) ==
  /\ loads' = loads \ {l}
  /\ history' \in l.from .. stored
  /\ overtaken' = (overtaken \/ history' < history)
  /\ job' = IF l.own THEN Idle ELSE job
  /\ UNCHANGED <<fileVars, generating, stored, error, stripeError>>

HistoryFailed(l) ==
  /\ loads' = loads \ {l}
  /\ error' = TRUE
  /\ job' = IF l.own THEN Idle ELSE job
  /\ UNCHANGED <<fileVars, generating, stored, history, overtaken, stripeError>>

(* The button that reloads the list.                                       *)
Refresh ==
  /\ Cardinality(loads) < MaxLoads
  /\ loads' = loads \cup {[own |-> FALSE, from |-> stored]}
  /\ UNCHANGED <<fileVars, job, generating, stored, history, overtaken, error, stripeError>>

-----------------------------------------------------------------------------
(* generatePostings: refused while an import runs, not the other way round.*)
Generate ==
  /\ ~generating /\ job = Idle
  /\ generating' = TRUE
  /\ error' = FALSE
  /\ UNCHANGED <<fileVars, job, listVars, stripeError>>

Generated ==
  /\ generating
  /\ generating' = FALSE
  /\ error' \in {error, TRUE}
  /\ UNCHANGED <<fileVars, job, listVars, stripeError>>

Next == \/ \E k \in Kinds, f \in Files \cup {NoFile} : ChooseFile(k, f)
        \/ \E v \in asked : FileValidated(v)
        \/ Submit \/ SubmitRefused \/ ImportStripe \/ ImportStripeRefused
        \/ Store \/ OthersStore \/ Imported \/ ImportFailed
        \/ \E l \in loads : HistoryLoaded(l) \/ HistoryFailed(l)
        \/ Refresh \/ Generate \/ Generated

Spec == Init /\ [][Next]_vars

(* An import is answered or fails, and so does a request for the list.     *)
Fairness ==
  /\ WF_vars(Store \/ Imported \/ ImportFailed)
  /\ \A l \in Loads : WF_vars(l \in loads /\ (HistoryLoaded(l) \/ HistoryFailed(l)))

FairSpec == Spec /\ Fairness

-----------------------------------------------------------------------------
TypeOK ==
  /\ chosen \in [Kinds -> Files \cup {NoFile}]
  /\ validation \in [Kinds -> {"idle", "pending", "valid", "invalid"}]
  /\ request \in [Kinds -> 0 .. MaxChoices]
  /\ asked \subseteq Validations
  /\ job \in Jobs
  /\ generating \in BOOLEAN /\ error \in BOOLEAN /\ stripeError \in BOOLEAN
  /\ overtaken \in BOOLEAN
  /\ stored \in 0 .. MaxImports /\ history \in 0 .. stored
  /\ loads \subseteq Loads

(* An import sends only files the server has accepted before, however often*)
(* the cashier changed his mind while verdicts were on their way (the      *)
(* checks of submit, which reads the files and the verdicts of one render).*)
OnlyValidFilesAreImported == job.files \subseteq ValidFiles

(* Each file field shows the verdict of the file chosen now: the numbers   *)
(* in validationRequestRef drop the answers to files given up.             *)
BankVerdict == INSTANCE FileVerdict WITH chosen <- chosen["bank"], verdict <- validation["bank"]
MobilePayVerdict == INSTANCE FileVerdict
  WITH chosen <- chosen["mobilePay"], verdict <- validation["mobilePay"]
VerdictOfChosenFile == BankVerdict!Spec /\ MobilePayVerdict!Spec

(* An import the server answered ends with an error, or is listed for good *)
(* (submit and importStripeData await loadHistory).  The list may lose it  *)
(* again only because the answers overtook each other: loadHistory shows   *)
(* the answer that arrives last, also when it was asked for before the     *)
(* import, and nothing reloads the list then.                              *)
ImportIsListed == \A n \in 1 .. MaxImports, w \in {"csv", "stripe"} :
  (job.phase = "stored" /\ job.number = n /\ job.what = w)
    ~> \/ job = Idle /\ (error \/ (w = "stripe" /\ stripeError))
       \/ [](history >= n \/ overtaken)

=============================================================================
