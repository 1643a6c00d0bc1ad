------------------------- MODULE AnsweringPages_proofs -------------------------
(***************************************************************************)
(* Proofs about the two pages that wait for answers.                       *)
(*                                                                         *)
(* The import page, for any files and any number of choices, imports and   *)
(* requests under way: only accepted files are imported, and each of the   *)
(* two file fields implements FileVerdict.                                 *)
(*                                                                         *)
(* The checkout, for every set of offers and any number of keys and        *)
(* questions: success is shown only for a purchase that was paid, and a    *)
(* cancelled payment is never offered again.                               *)
(***************************************************************************)
EXTENDS FinanceImportPage, CheckoutFlow, TLAPS

-----------------------------------------------------------------------------
(* The import page.                                                         *)

(* A validation under way that bears the number of its field's last request *)
(* is about the file chosen there now, whose verdict is still out.         *)
LastIsAwaited ==
  \A v \in asked :
    /\ v.id <= request[v.kind]
    /\ v.id = request[v.kind] => v.file = chosen[v.kind] /\ validation[v.kind] = "pending"

(* What the verdicts on the page say about the files chosen.               *)
VerdictsHold ==
  \A k \in Kinds :
    /\ validation[k] = "valid" => chosen[k] \in ValidFiles
    /\ validation[k] = "idle" => chosen[k] = NoFile

(* The invariant that is inductive.                                        *)
ImportInv == TypeOK /\ LastIsAwaited /\ VerdictsHold /\ OnlyValidFilesAreImported

LEMMA ImportInitEstablishes == Init => ImportInv
<1> SUFFICES ASSUME Init PROVE ImportInv
  OBVIOUS
<1> USE BoundsAssumption DEF Init, Idle
<1>1. TypeOK
  <2>1. job \in Jobs
    BY DEF Jobs
  <2>2. loads \subseteq Loads
    BY DEF Loads
  <2>3. /\ chosen \in [Kinds -> Files \cup {NoFile}]
        /\ validation \in [Kinds -> {"idle", "pending", "valid", "invalid"}]
        /\ request \in [Kinds -> 0 .. MaxChoices]
    OBVIOUS
  <2>4. asked \subseteq Validations /\ generating \in BOOLEAN /\ error \in BOOLEAN
    OBVIOUS
  <2>5. stored \in 0 .. MaxImports /\ history \in 0 .. stored
    OBVIOUS
  <2> QED BY <2>1, <2>2, <2>3, <2>4, <2>5 DEF TypeOK
<1>2. LastIsAwaited /\ OnlyValidFilesAreImported
  BY DEF LastIsAwaited, OnlyValidFilesAreImported
<1>3. VerdictsHold
  BY DEF VerdictsHold
<1> QED BY <1>1, <1>2, <1>3 DEF ImportInv

(* The verdict that arrives with the last number of its field is about the *)
(* file chosen, and no other validation with that number is under way.     *)
LEMMA VerdictOfTheLast ==
  ASSUME ImportInv, NEW v \in asked, v.id = request[v.kind], NEW w \in asked \ {v},
         w.kind = v.kind
  PROVE  w.id # request[v.kind]
<1> SUFFICES ASSUME w.id = request[v.kind] PROVE FALSE
  OBVIOUS
<1>1. v \in Validations /\ w \in Validations
  BY DEF ImportInv, TypeOK
<1>2. v.file = w.file /\ v.id = w.id
  BY DEF ImportInv, LastIsAwaited
<1> QED BY <1>1, <1>2 DEF Validations

LEMMA ChooseFilePreserves ==
  ASSUME ImportInv, NEW k \in Kinds, NEW f \in Files \cup {NoFile}, ChooseFile(k, f)
  PROVE  ImportInv'
<1> USE DEF ChooseFile, listVars
<1>0. TypeOK /\ request[k] \in Nat /\ request[k] + 1 \in 1 .. MaxChoices
  <2>1. TypeOK /\ request["bank"] \in Nat /\ request["mobilePay"] \in Nat
    BY BoundsAssumption DEF ImportInv, TypeOK, Kinds
  <2>2. request["bank"] + request["mobilePay"] < MaxChoices
    OBVIOUS
  <2>3. k = "bank" \/ k = "mobilePay"
    BY DEF Kinds
  <2> QED BY <2>1, <2>2, <2>3, BoundsAssumption
<1>1. TypeOK'
  <2>1. asked' \subseteq Validations
    <3>1. CASE f = NoFile
      BY <1>0, <3>1 DEF TypeOK
    <3>2. CASE f # NoFile
      BY <1>0, <3>2 DEF TypeOK, Validations
    <3> QED BY <3>1, <3>2
  <2>2. request' \in [Kinds -> 0 .. MaxChoices]
    BY <1>0, BoundsAssumption DEF TypeOK
  <2>3. chosen' \in [Kinds -> Files \cup {NoFile}]
    BY <1>0 DEF TypeOK
  <2>4. validation' \in [Kinds -> {"idle", "pending", "valid", "invalid"}]
    BY <1>0 DEF TypeOK
  <2> QED BY <1>0, <2>1, <2>2, <2>3, <2>4 DEF TypeOK
<1>2. LastIsAwaited'
  <2> SUFFICES ASSUME NEW v \in asked'
               PROVE  /\ v.id <= request'[v.kind]
                      /\ v.id = request'[v.kind] =>
                           v.file = chosen'[v.kind] /\ validation'[v.kind] = "pending"
    BY DEF LastIsAwaited
  <2>1. CASE v \in asked
    <3>1. v.kind \in Kinds /\ v.id \in Nat /\ v.id <= request[v.kind]
      BY <1>0, <2>1, BoundsAssumption DEF ImportInv, LastIsAwaited, TypeOK, Validations
    <3>2. CASE v.kind = k
      BY <1>0, <3>1, <3>2 DEF TypeOK
    <3>3. CASE v.kind # k
      BY <1>0, <2>1, <3>1, <3>3 DEF TypeOK, ImportInv, LastIsAwaited
    <3> QED BY <3>2, <3>3
  <2>2. CASE v \notin asked
    <3>1. f # NoFile /\ v = [kind |-> k, id |-> request[k] + 1, file |-> f]
      BY <2>2
    <3> QED BY <1>0, <3>1 DEF TypeOK
  <2> QED BY <2>1, <2>2
<1>3. VerdictsHold'
  BY <1>0 DEF ImportInv, VerdictsHold, TypeOK
<1>4. OnlyValidFilesAreImported'
  BY DEF ImportInv, OnlyValidFilesAreImported
<1> QED BY <1>1, <1>2, <1>3, <1>4 DEF ImportInv

LEMMA FileValidatedPreserves ==
  ASSUME ImportInv, NEW v \in asked, FileValidated(v)
  PROVE  ImportInv'
<1> USE DEF FileValidated, listVars
<1>0. TypeOK /\ v \in Validations /\ v.kind \in Kinds
  BY DEF ImportInv, TypeOK, Validations
<1>1. TypeOK'
  <2>1. validation' \in [Kinds -> {"idle", "pending", "valid", "invalid"}]
    BY <1>0 DEF TypeOK, Verdicts
  <2> QED BY <1>0, <2>1 DEF TypeOK
<1>2. LastIsAwaited'
  <2> SUFFICES ASSUME NEW w \in asked'
               PROVE  /\ w.id <= request'[w.kind]
                      /\ w.id = request'[w.kind] =>
                           w.file = chosen'[w.kind] /\ validation'[w.kind] = "pending"
    BY DEF LastIsAwaited
  <2>1. w \in asked \ {v} /\ w \in Validations /\ w.kind \in Kinds
    BY <1>0 DEF TypeOK, Validations
  <2>2. /\ w.id <= request[w.kind]
        /\ w.id = request[w.kind] => w.file = chosen[w.kind] /\ validation[w.kind] = "pending"
    BY <2>1 DEF ImportInv, LastIsAwaited
  <2>3. CASE request[v.kind] = v.id /\ w.kind = v.kind
    <3>1. w.id # request[v.kind]
      BY <2>1, <2>3, VerdictOfTheLast
    <3> QED BY <2>2, <2>3, <3>1
  <2>4. CASE ~(request[v.kind] = v.id /\ w.kind = v.kind)
    BY <1>0, <2>1, <2>2, <2>4 DEF TypeOK
  <2> QED BY <2>3, <2>4
<1>3. VerdictsHold'
  <2>1. CASE request[v.kind] = v.id
    <3>1. v.file = chosen[v.kind]
      BY <2>1 DEF ImportInv, LastIsAwaited
    <3> QED BY <1>0, <2>1, <3>1 DEF ImportInv, VerdictsHold, TypeOK, Verdicts
  <2>2. CASE request[v.kind] # v.id
    BY <2>2 DEF ImportInv, VerdictsHold
  <2> QED BY <2>1, <2>2
<1>4. OnlyValidFilesAreImported'
  BY DEF ImportInv, OnlyValidFilesAreImported
<1> QED BY <1>1, <1>2, <1>3, <1>4 DEF ImportInv

(* What is chosen when no verdict is missing or bad was accepted.          *)
LEMMA SubmitPreserves ==
  ASSUME ImportInv, Submit
  PROVE  ImportInv'
<1>1. ChosenFiles \subseteq ValidFiles
  <2> SUFFICES ASSUME NEW k \in Kinds, chosen[k] # NoFile PROVE chosen[k] \in ValidFiles
    BY DEF ChosenFiles
  <2>1. validation[k] \notin {"pending", "invalid", "idle"}
    BY DEF Submit, ImportInv, VerdictsHold
  <2>2. validation[k] = "valid"
    BY <2>1 DEF ImportInv, TypeOK
  <2> QED BY <2>2 DEF ImportInv, VerdictsHold
<1>2. job' = Sent("csv", ChosenFiles) /\ job' \in Jobs
  BY <1>1, FilesAssumption, BoundsAssumption DEF Submit, Sent, Jobs
<1>3. TypeOK'
  BY <1>2 DEF Submit, fileVars, listVars, ImportInv, TypeOK
<1>4. LastIsAwaited' /\ VerdictsHold'
  BY DEF Submit, fileVars, ImportInv, LastIsAwaited, VerdictsHold
<1>5. OnlyValidFilesAreImported'
  BY <1>1, <1>2 DEF Sent, OnlyValidFilesAreImported
<1> QED BY <1>3, <1>4, <1>5 DEF ImportInv

(* Steps that leave the file fields alone and import no other files.       *)
LEMMA OtherStepsPreserve ==
  ASSUME ImportInv, UNCHANGED fileVars, TypeOK', job'.files \in {job.files, {}}
  PROVE  ImportInv'
<1>1. LastIsAwaited' /\ VerdictsHold'
  BY DEF fileVars, ImportInv, LastIsAwaited, VerdictsHold
<1>2. OnlyValidFilesAreImported'
  BY DEF ImportInv, OnlyValidFilesAreImported
<1> QED BY <1>1, <1>2 DEF ImportInv

LEMMA ImportNextPreserves == ImportInv /\ [Next]_vars => ImportInv'
<1> SUFFICES ASSUME ImportInv, [Next]_vars PROVE ImportInv'
  OBVIOUS
<1> USE BoundsAssumption
<1>0. TypeOK /\ Idle \in Jobs /\ Idle.files = {} /\ stored \in Nat /\ history \in Nat
  BY DEF ImportInv, TypeOK, Idle, Jobs
<1>a. job \in Jobs /\ loads \subseteq Loads /\ stored \in 0 .. MaxImports
  BY <1>0 DEF TypeOK
<1>b. ASSUME NEW own \in BOOLEAN PROVE [own |-> own, from |-> stored] \in Loads
  BY <1>a DEF Loads
<1>1. ASSUME NEW k \in Kinds, NEW f \in Files \cup {NoFile}, ChooseFile(k, f) PROVE ImportInv'
  BY <1>1, ChooseFilePreserves
<1>2. ASSUME NEW v \in asked, FileValidated(v) PROVE ImportInv'
  BY <1>2, FileValidatedPreserves
<1>3. CASE Submit
  BY <1>3, SubmitPreserves
<1>4. CASE SubmitRefused
  <2>1. TypeOK'
    BY <1>0, <1>4 DEF SubmitRefused, fileVars, listVars, TypeOK
  <2> QED BY <1>4, <2>1, OtherStepsPreserve DEF SubmitRefused
<1>5. CASE ImportStripe
  <2>1. job' = Sent("stripe", {}) /\ job' \in Jobs /\ job'.files = {}
    BY <1>5 DEF ImportStripe, Sent, Jobs
  <2>2. TypeOK'
    BY <1>0, <1>5, <2>1 DEF ImportStripe, fileVars, listVars, TypeOK
  <2> QED BY <1>5, <2>1, <2>2, OtherStepsPreserve DEF ImportStripe
<1>16. CASE ImportStripeRefused
  <2>1. TypeOK'
    BY <1>0, <1>16 DEF ImportStripeRefused, fileVars, listVars, TypeOK
  <2> QED BY <1>16, <2>1, OtherStepsPreserve DEF ImportStripeRefused
<1>6. CASE Store
  <2>1. job' \in Jobs /\ job'.files = job.files
    <3>1. stored + 1 \in 0 .. MaxImports
      BY <1>a, <1>6 DEF Store
    <3>2. job' = [job EXCEPT !.phase = "stored", !.number = stored + 1]
      BY <1>6 DEF Store
    <3> QED BY <1>a, <3>1, <3>2 DEF Jobs
  <2>2. stored' \in 0 .. MaxImports /\ history' \in 0 .. stored'
    BY <1>0, <1>6 DEF Store, TypeOK
  <2>3. TypeOK'
    BY <1>0, <1>6, <2>1, <2>2 DEF Store, fileVars, listVars, TypeOK
  <2> QED BY <1>6, <2>1, <2>3, OtherStepsPreserve DEF Store
<1>7. CASE OthersStore
  <2>1. stored' \in 0 .. MaxImports /\ history' \in 0 .. stored'
    BY <1>0, <1>7 DEF OthersStore, TypeOK
  <2>2. TypeOK'
    BY <1>0, <1>7, <2>1 DEF OthersStore, fileVars, listVars, TypeOK
  <2> QED BY <1>7, <2>2, OtherStepsPreserve DEF OthersStore
<1>8. CASE Imported
  <2>1. job' \in Jobs /\ job'.files = job.files
    BY <1>0, <1>8 DEF Imported, TypeOK, Jobs
  <2>2. loads' \subseteq Loads
    BY <1>a, <1>b, <1>8 DEF Imported
  <2>3. TypeOK'
    BY <1>0, <1>8, <2>1, <2>2 DEF Imported, fileVars, listVars, TypeOK
  <2> QED BY <1>8, <2>1, <2>3, OtherStepsPreserve DEF Imported
<1>9. CASE ImportFailed
  <2>1. TypeOK'
    BY <1>0, <1>9 DEF ImportFailed, fileVars, listVars, TypeOK
  <2> QED BY <1>0, <1>9, <2>1, OtherStepsPreserve DEF ImportFailed
<1>10. ASSUME NEW l \in loads, HistoryLoaded(l) PROVE ImportInv'
  <2>1. history' \in 0 .. stored' /\ stored' = stored
    BY <1>0, <1>10 DEF HistoryLoaded, TypeOK, Loads
  <2>2. job' \in {job, Idle}
    BY <1>10 DEF HistoryLoaded
  <2>3. TypeOK'
    BY <1>0, <1>10, <2>1, <2>2 DEF HistoryLoaded, fileVars, listVars, TypeOK
  <2> QED BY <1>0, <1>10, <2>2, <2>3, OtherStepsPreserve DEF HistoryLoaded
<1>11. ASSUME NEW l \in loads, HistoryFailed(l) PROVE ImportInv'
  <2>1. job' \in {job, Idle}
    BY <1>11 DEF HistoryFailed
  <2>2. TypeOK'
    BY <1>0, <1>11, <2>1 DEF HistoryFailed, fileVars, listVars, TypeOK
  <2> QED BY <1>0, <1>11, <2>1, <2>2, OtherStepsPreserve DEF HistoryFailed
<1>12. CASE Refresh
  <2>1. loads' \subseteq Loads
    BY <1>a, <1>b, <1>12 DEF Refresh
  <2>2. TypeOK'
    BY <1>0, <1>12, <2>1 DEF Refresh, fileVars, listVars, TypeOK
  <2> QED BY <1>12, <2>2, OtherStepsPreserve DEF Refresh
<1>13. CASE Generate
  <2>1. TypeOK'
    BY <1>0, <1>13 DEF Generate, fileVars, listVars, TypeOK
  <2> QED BY <1>13, <2>1, OtherStepsPreserve DEF Generate
<1>14. CASE Generated
  <2>1. TypeOK'
    BY <1>0, <1>14 DEF Generated, fileVars, listVars, TypeOK
  <2> QED BY <1>14, <2>1, OtherStepsPreserve DEF Generated
<1>15. CASE UNCHANGED vars
  BY <1>15 DEF vars, ImportInv, TypeOK, LastIsAwaited, VerdictsHold, OnlyValidFilesAreImported
<1> QED
  BY <1>1, <1>2, <1>3, <1>4, <1>5, <1>6, <1>7, <1>8, <1>9, <1>10, <1>11, <1>12, <1>13,
     <1>14, <1>15, <1>16 DEF Next

LEMMA ImportInvariant == Spec => []ImportInv
<1> QED BY ImportInitEstablishes, ImportNextPreserves, PTL DEF Spec

-----------------------------------------------------------------------------
(* Every variable of the import page keeps its type, whatever is chosen,   *)
(* imported and reloaded at the same time.                                 *)
THEOREM ImportTyped == Spec => []TypeOK
<1>1. ImportInv => TypeOK
  BY DEF ImportInv
<1> QED BY <1>1, ImportInvariant, PTL

(* Only files the server has accepted are imported: submit reads the file  *)
(* and the verdict of one field, which LastIsAwaited ties together.        *)
THEOREM OnlyAcceptedFiles == Spec => []OnlyValidFilesAreImported
<1>1. ImportInv => OnlyValidFilesAreImported
  BY DEF ImportInv
<1> QED BY <1>1, ImportInvariant, PTL

(* A step of the page changes a file field only as FileVerdict allows.     *)
LEMMA StepsOfAField ==
  ASSUME ImportInv, [Next]_vars, NEW k \in Kinds
  PROVE  \/ UNCHANGED <<chosen[k], validation[k]>>
         \/ \E f \in Files \cup {NoFile} :
              /\ chosen'[k] = f
              /\ validation'[k] = IF f = NoFile THEN "idle" ELSE "pending"
         \/ /\ validation[k] = "pending"
            /\ validation'[k] \in
                 {"invalid"} \cup (IF chosen[k] \in ValidFiles THEN {"valid"} ELSE {})
            /\ UNCHANGED chosen[k]
<1>0. TypeOK
  BY DEF ImportInv
<1>1. ASSUME NEW j \in Kinds, NEW f \in Files \cup {NoFile}, ChooseFile(j, f)
      PROVE  \/ UNCHANGED <<chosen[k], validation[k]>>
             \/ /\ chosen'[k] = f
                /\ validation'[k] = IF f = NoFile THEN "idle" ELSE "pending"
  BY <1>0, <1>1 DEF ChooseFile, TypeOK
<1>2. ASSUME NEW v \in asked, FileValidated(v)
      PROVE  \/ UNCHANGED <<chosen[k], validation[k]>>
             \/ /\ validation[k] = "pending"
                /\ validation'[k] \in
                     {"invalid"} \cup (IF chosen[k] \in ValidFiles THEN {"valid"} ELSE {})
                /\ UNCHANGED chosen[k]
  <2>1. CASE request[v.kind] = v.id /\ v.kind = k
    <3>1. v.file = chosen[k] /\ validation[k] = "pending"
      BY <2>1 DEF ImportInv, LastIsAwaited
    <3> QED BY <1>0, <1>2, <2>1, <3>1 DEF FileValidated, TypeOK, Verdicts
  <2>2. CASE ~(request[v.kind] = v.id /\ v.kind = k)
    BY <1>0, <1>2, <2>2 DEF FileValidated, TypeOK
  <2> QED BY <2>1, <2>2
<1>3. ASSUME UNCHANGED fileVars
      PROVE  UNCHANGED <<chosen[k], validation[k]>>
  BY <1>3 DEF fileVars
<1>4. \/ \E j \in Kinds, f \in Files \cup {NoFile} : ChooseFile(j, f)
      \/ \E v \in asked : FileValidated(v)
      \/ UNCHANGED fileVars
  BY DEF Next, vars, fileVars, Submit, SubmitRefused, ImportStripe, ImportStripeRefused, Store, OthersStore,
         Imported, ImportFailed, HistoryLoaded, HistoryFailed, Refresh, Generate, Generated
<1> QED BY <1>1, <1>2, <1>3, <1>4

(* Each file field implements FileVerdict: whatever requests are under way *)
(* and in whatever order they are answered, the verdict shown is that of   *)
(* the file chosen now (validationRequestRef).                             *)
THEOREM FieldsImplementFileVerdict == Spec => VerdictOfChosenFile
<1>1. Init => BankVerdict!Init /\ MobilePayVerdict!Init
  BY DEF Init, Kinds, BankVerdict!Init, MobilePayVerdict!Init
<1>2. ImportInv /\ [Next]_vars => [BankVerdict!Next]_<<chosen["bank"], validation["bank"]>>
  <2> SUFFICES ASSUME ImportInv, [Next]_vars
               PROVE  [BankVerdict!Next]_<<chosen["bank"], validation["bank"]>>
    OBVIOUS
  <2>1. "bank" \in Kinds
    BY DEF Kinds
  <2> QED BY <2>1, StepsOfAField
          DEF BankVerdict!Next, BankVerdict!Choose, BankVerdict!Judge
<1>3. ImportInv /\ [Next]_vars
        => [MobilePayVerdict!Next]_<<chosen["mobilePay"], validation["mobilePay"]>>
  <2> SUFFICES ASSUME ImportInv, [Next]_vars
               PROVE  [MobilePayVerdict!Next]_<<chosen["mobilePay"], validation["mobilePay"]>>
    OBVIOUS
  <2>1. "mobilePay" \in Kinds
    BY DEF Kinds
  <2> QED BY <2>1, StepsOfAField
          DEF MobilePayVerdict!Next, MobilePayVerdict!Choose, MobilePayVerdict!Judge
<1> QED BY <1>1, <1>2, <1>3, ImportInvariant, PTL
        DEF Spec, VerdictOfChosenFile, BankVerdict!Spec, MobilePayVerdict!Spec

-----------------------------------------------------------------------------
(* The checkout.                                                            *)

(* A page beyond the payment page is about an attempt that has a key.      *)
HasAttempt == page.what # "pay" => page.attempt \in Attempts

(* Stripe sends the user to the success page of a finished session only,   *)
(* so what that page says before it knows more is true: unless it came     *)
(* from the cancel link, its payment was paid.                             *)
StripeReturned ==
  (/\ page.what = "status" /\ page.attempt.offer \in StripeOffers
   /\ page.shown \in {"loading", "pending"})
    => payments[page.attempt] = "paid"

(* Success in so many words is that of a purchase that was paid, and only  *)
(* the questions about MobilePay end in an error.                          *)
SuccessShown == (page.what = "status" /\ page.shown = "success") => IsPaid
ErrorAtMobilePay ==
  (page.what = "status" /\ page.shown = "error") => page.attempt.offer \notin StripeOffers

(* The invariant that is inductive.                                        *)
CheckoutInv == /\ CheckoutTypeOK /\ HasAttempt /\ StripeReturned
               /\ SuccessShown /\ ErrorAtMobilePay /\ CancelledGetsAFreshKey

(* What every step keeps: a payment that was made is not forgotten, and a  *)
(* purchase that is registered stays registered.                           *)
PaymentsStay ==
  /\ payments' \in [Attempts -> {"none", "open", "paid", "cancelled"}]
  /\ \A a \in Attempts : payments[a] = "paid" => payments'[a] = "paid"

-----------------------------------------------------------------------------
LEMMA PayPageIsAPage ==
  ASSUME NEW o \in Offers
  PROVE  PayPage(o) \in Pages /\ PayPage(o).what = "pay"
BY CheckoutAssumption DEF PayPage, At, Attempt, Pages

LEMMA AtIsAPage ==
  ASSUME NEW what \in {"starting", "provider", "status"}, NEW a \in Attempts
  PROVE  /\ At(what, a) \in Pages /\ At(what, a).what = what /\ At(what, a).attempt = a
         /\ At(what, a).shown = "loading"
BY CheckoutAssumption DEF At, Attempts, Pages

LEMMA CheckoutInitEstablishes ==
  ASSUME CheckoutInit
  PROVE  CheckoutInv
<1>1. PICK o \in Offers : page = PayPage(o)
  BY DEF CheckoutInit
<1>2. page \in Pages /\ page.what = "pay"
  BY <1>1, PayPageIsAPage
<1>3. CheckoutTypeOK
  BY <1>2, CheckoutAssumption DEF CheckoutInit, CheckoutTypeOK
<1> QED BY <1>2, <1>3 DEF CheckoutInv, HasAttempt, StripeReturned, SuccessShown, ErrorAtMobilePay, IsPaid,
                          CancelledGetsAFreshKey

(* A step that ends on a page where nothing is promised.                   *)
LEMMA SilentPage ==
  ASSUME CheckoutTypeOK', HasAttempt', page'.what # "status"
  PROVE  CheckoutInv'
BY DEF CheckoutInv, HasAttempt, StripeReturned, SuccessShown, ErrorAtMobilePay, IsPaid, CancelledGetsAFreshKey

(* A step of the provider or of the server, while the page stays.          *)
LEMMA ElsewherePreserves ==
  ASSUME CheckoutInv, PaymentsStay, credited \subseteq credited', credited' \subseteq Offers,
         stray' \subseteq stray, listening' \subseteq stray', UNCHANGED <<keys, created, page>>
  PROVE  CheckoutInv'
<1>1. CheckoutTypeOK'
  BY DEF CheckoutInv, CheckoutTypeOK, PaymentsStay
<1>2. HasAttempt'
  BY DEF CheckoutInv, HasAttempt
<1>3. (page.what = "status") => page.attempt \in Attempts
  BY DEF CheckoutInv, HasAttempt
<1>4. StripeReturned' /\ SuccessShown' /\ ErrorAtMobilePay' /\ CancelledGetsAFreshKey'
  BY <1>3 DEF CheckoutInv, StripeReturned, SuccessShown, ErrorAtMobilePay, IsPaid, CancelledGetsAFreshKey, PaymentsStay
<1> QED BY <1>1, <1>2, <1>4 DEF CheckoutInv

(* A step that drops keys, and nothing else.                               *)
LEMMA ExpirePreserves ==
  ASSUME CheckoutInv, NEW o \in Offers, Expire(o)
  PROVE  CheckoutInv'
<1>1. keys' \in [Offers -> 0 .. created] /\ \A p \in Offers : keys'[p] \in {0, keys[p]}
  BY CheckoutAssumption DEF Expire, CheckoutInv, CheckoutTypeOK
<1>2. CheckoutTypeOK' /\ HasAttempt'
  BY <1>1 DEF Expire, CheckoutInv, CheckoutTypeOK, HasAttempt
<1>3. CancelledGetsAFreshKey'
  <2> SUFFICES ASSUME page.what = "status", page.shown = "cancelled"
               PROVE  keys'[page.attempt.offer] # page.attempt.key
    BY DEF Expire, CancelledGetsAFreshKey
  <2>1. page.attempt.offer \in Offers /\ page.attempt.key \in 1 .. MaxKeys
    BY DEF CheckoutInv, HasAttempt, Attempts
  <2>2. keys[page.attempt.offer] # page.attempt.key
    BY DEF CheckoutInv, CancelledGetsAFreshKey
  <2> QED BY <1>1, <2>1, <2>2
<1>4. StripeReturned' /\ SuccessShown' /\ ErrorAtMobilePay'
  BY DEF Expire, CheckoutInv, StripeReturned, SuccessShown, ErrorAtMobilePay, IsPaid
<1> QED BY <1>2, <1>3, <1>4 DEF CheckoutInv

-----------------------------------------------------------------------------
(* The payment page                                                         *)

LEMMA LoadPreserves ==
  ASSUME CheckoutInv, LoadMembership \/ LoadEvent
  PROVE  CheckoutInv'
<1>1. PICK shown \in {"ready", "closed"} : page' = [page EXCEPT !.shown = shown]
  BY DEF LoadMembership, LoadEvent
<1>2. page.what = "pay" /\ page \in Pages
  BY DEF LoadMembership, LoadEvent, CheckoutInv, CheckoutTypeOK
<1>3. page' \in Pages /\ page'.what = "pay"
  BY <1>1, <1>2 DEF Pages
<1>4. CheckoutTypeOK'
  BY <1>3 DEF LoadMembership, LoadEvent, CheckoutInv, CheckoutTypeOK
<1> QED BY <1>3, <1>4, SilentPage DEF HasAttempt

(* The key is one of those created, and every offer keeps such a key.      *)
LEMMA KeyIsUsable ==
  ASSUME CheckoutTypeOK, NEW o \in Offers, GetOrCreateCheckoutKey(o)
  PROVE  /\ keys' \in [Offers -> 0 .. created'] /\ created' \in 0 .. MaxKeys
         /\ Attempt(o, keys'[o]) \in Attempts
<1>1. CASE keys[o] # 0 /\ UNCHANGED <<keys, created>>
  BY <1>1, CheckoutAssumption DEF CheckoutTypeOK, Attempt, Attempts
<1>2. CASE /\ created < MaxKeys /\ created' = created + 1
           /\ keys' = [keys EXCEPT ![o] = created + 1]
  BY <1>2, CheckoutAssumption DEF CheckoutTypeOK, Attempt, Attempts
<1> QED BY <1>1, <1>2 DEF GetOrCreateCheckoutKey

LEMMA CheckoutPreserves ==
  ASSUME CheckoutInv, NEW o \in Offers, Checkout(o)
  PROVE  CheckoutInv'
<1>1. /\ keys' \in [Offers -> 0 .. created'] /\ created' \in 0 .. MaxKeys
      /\ Attempt(o, keys'[o]) \in Attempts
  BY KeyIsUsable DEF Checkout, CheckoutInv
<1>2. PICK a \in Attempts : page' = At("starting", a)
  BY <1>1 DEF Checkout
<1>3. page' \in Pages /\ page'.what = "starting" /\ page'.attempt \in Attempts
  BY <1>2, AtIsAPage
<1>4. CheckoutTypeOK'
  BY <1>1, <1>3 DEF Checkout, CheckoutInv, CheckoutTypeOK
<1> QED BY <1>3, <1>4, SilentPage DEF HasAttempt

LEMMA CreatePaymentStays ==
  ASSUME CheckoutTypeOK, NEW a \in Attempts, CreatePayment(a) \/ UNCHANGED payments
  PROVE  PaymentsStay
BY DEF CheckoutTypeOK, CreatePayment, PaymentsStay

LEMMA ServerStartsPreserves ==
  ASSUME CheckoutInv, ServerStarts
  PROVE  CheckoutInv'
<1>1. page \in Pages /\ page.attempt \in Attempts
  BY DEF ServerStarts, CheckoutInv, CheckoutTypeOK, HasAttempt
<1>2. PaymentsStay
  BY <1>1, CreatePaymentStays DEF ServerStarts, CheckoutInv
<1>3. page' \in Pages /\ page'.what = "provider" /\ page'.attempt \in Attempts
  BY <1>1 DEF ServerStarts, Pages
<1>4. CheckoutTypeOK'
  BY <1>2, <1>3 DEF ServerStarts, PaymentsStay, CheckoutInv, CheckoutTypeOK
<1> QED BY <1>3, <1>4, SilentPage DEF HasAttempt

LEMMA StartFailedPreserves ==
  ASSUME CheckoutInv, StartFailed
  PROVE  CheckoutInv'
<1>1. page.attempt \in Attempts /\ page.attempt.offer \in Offers
  BY DEF StartFailed, CheckoutInv, HasAttempt, Attempts
<1>2. PaymentsStay
  BY <1>1, CreatePaymentStays DEF StartFailed, CheckoutInv
<1>3. PICK shown \in {"closed", "error"} :
        page' = [PayPage(page.attempt.offer) EXCEPT !.shown = shown]
  BY DEF StartFailed
<1>4. page' \in Pages /\ page'.what = "pay"
  BY <1>1, <1>3, PayPageIsAPage DEF Pages
<1>5. CheckoutTypeOK'
  BY <1>2, <1>4 DEF StartFailed, PaymentsStay, CheckoutInv, CheckoutTypeOK
<1> QED BY <1>4, <1>5, SilentPage DEF HasAttempt

LEMMA OpenPayPreserves ==
  ASSUME CheckoutInv, NEW o \in Offers, OpenPay(o)
  PROVE  CheckoutInv'
<1>1. page' \in Pages /\ page'.what = "pay"
  BY PayPageIsAPage DEF OpenPay
<1>2. stray' \subseteq Attempts /\ listening' \subseteq stray'
  BY DEF OpenPay, LeftBehind, CheckoutInv, CheckoutTypeOK, HasAttempt
<1>3. CheckoutTypeOK'
  BY <1>1, <1>2 DEF OpenPay, CheckoutInv, CheckoutTypeOK
<1> QED BY <1>1, <1>3, SilentPage DEF HasAttempt

-----------------------------------------------------------------------------
(* The provider and the server, while the user is anywhere                  *)

LEMMA StrayPreserves ==
  ASSUME CheckoutInv, NEW a \in stray, ServerStartsStray(a)
  PROVE  CheckoutInv'
<1>1. PaymentsStay
  BY CreatePaymentStays DEF ServerStartsStray, CheckoutInv, CheckoutTypeOK
<1> QED BY <1>1, ElsewherePreserves DEF ServerStartsStray, CheckoutInv, CheckoutTypeOK

(* A stray checkout redirects the tab, whatever page it shows by then.     *)
LEMMA RedirectPreserves ==
  ASSUME CheckoutInv, NEW a \in stray, StrayRedirects(a)
  PROVE  CheckoutInv'
<1>1. a \in Attempts
  BY DEF CheckoutInv, CheckoutTypeOK
<1>2. PaymentsStay
  BY <1>1, CreatePaymentStays DEF StrayRedirects, CheckoutInv
<1>3. page' \in Pages /\ page'.what = "provider" /\ page'.attempt \in Attempts
  BY <1>1, AtIsAPage DEF StrayRedirects
<1>4. stray' \subseteq Attempts /\ listening' \subseteq stray'
  BY DEF StrayRedirects, LeftBehind, CheckoutInv, CheckoutTypeOK, HasAttempt
<1>5. CheckoutTypeOK'
  BY <1>2, <1>3, <1>4 DEF StrayRedirects, PaymentsStay, CheckoutInv, CheckoutTypeOK
<1> QED BY <1>3, <1>5, SilentPage DEF HasAttempt

LEMMA ProviderPreserves ==
  ASSUME CheckoutInv, Pay \/ \E a \in Attempts : Cancel(a)
  PROVE  CheckoutInv'
<1>1. PaymentsStay
  BY DEF Pay, Cancel, PaymentsStay, CheckoutInv, CheckoutTypeOK
<1> QED BY <1>1, ElsewherePreserves DEF Pay, Cancel, CheckoutInv, CheckoutTypeOK

LEMMA CreditPreserves ==
  ASSUME CheckoutInv, NEW a \in Attempts, Credit(a)
  PROVE  CheckoutInv'
<1>1. PaymentsStay
  BY DEF Credit, PaymentsStay, CheckoutInv, CheckoutTypeOK
<1>2. credited' \subseteq Offers
  BY DEF Credit, SamePurchase, Attempts, CheckoutInv, CheckoutTypeOK
<1>3. listening' \subseteq stray'
  BY DEF Credit, CheckoutInv, CheckoutTypeOK
<1> QED BY <1>1, <1>2, <1>3, ElsewherePreserves DEF Credit

-----------------------------------------------------------------------------
(* The way back and the status page                                         *)

(* Dropping keys leaves the others as they are.                            *)
LEMMA DroppedKeys ==
  ASSUME CheckoutTypeOK, NEW o \in Offers, DropKeys(o) \/ ClearAllCheckoutKeys
  PROVE  keys' \in [Offers -> 0 .. created] /\ keys'[o] = 0
<1>1. created \in Nat
  BY DEF CheckoutTypeOK
<1> QED BY <1>1 DEF CheckoutTypeOK, DropKeys, ClearCheckoutKey, ClearAllCheckoutKeys

(* The status page after a step, of a user who comes back or asks.         *)
LEMMA StatusPreserves ==
  ASSUME CheckoutInv, page' \in Pages, page'.what = "status", page.attempt \in Attempts,
         page'.attempt = page.attempt, keys' \in [Offers -> 0 .. created],
         UNCHANGED <<created, payments, credited, stray, listening>>,
         page'.shown \in {"loading", "pending"} /\ page.attempt.offer \in StripeOffers
           => payments[page.attempt] = "paid",
         page'.shown = "success"
           => page.attempt.offer \in credited \/ payments[page.attempt] = "paid",
         page'.shown = "error" => page.attempt.offer \notin StripeOffers,
         page'.shown = "cancelled" => keys'[page.attempt.offer] = 0
  PROVE  CheckoutInv'
<1>1. CheckoutTypeOK' /\ HasAttempt'
  BY DEF CheckoutInv, CheckoutTypeOK, HasAttempt
<1>2. StripeReturned' /\ SuccessShown' /\ ErrorAtMobilePay'
  BY DEF StripeReturned, SuccessShown, ErrorAtMobilePay, IsPaid
<1>3. page.attempt.key # 0
  BY DEF Attempts
<1>4. CancelledGetsAFreshKey'
  BY <1>3 DEF CancelledGetsAFreshKey
<1> QED BY <1>1, <1>2, <1>4 DEF CheckoutInv

LEMMA ReturnPreserves ==
  ASSUME CheckoutInv, ReturnFromStripe \/ ReturnFromMobilePay
  PROVE  CheckoutInv'
<1>1. page.attempt \in Attempts /\ keys' \in [Offers -> 0 .. created]
  BY DEF ReturnFromStripe, ReturnFromMobilePay, CheckoutInv, CheckoutTypeOK, HasAttempt
<1> DEFINE back == At("status", page.attempt)
<1>2. back \in Pages /\ back.what = "status" /\ back.attempt = page.attempt
      /\ back.shown = "loading"
  BY <1>1, AtIsAPage
<1> HIDE DEF back
<1>3. CASE ReturnFromStripe
  <2>1. PICK shown \in {"loading", "success"} : page' = [back EXCEPT !.shown = shown]
    BY <1>3 DEF ReturnFromStripe, back
  <2>2. page' \in Pages /\ page'.what = "status" /\ page'.attempt = page.attempt
        /\ page'.shown \in {"loading", "success"}
    BY <1>2, <2>1 DEF Pages
  <2>3. payments[page.attempt] = "paid"
    BY <1>3 DEF ReturnFromStripe
  <2> QED BY <1>1, <1>3, <2>2, <2>3, StatusPreserves DEF ReturnFromStripe
<1>4. CASE ReturnFromMobilePay
  <2>1. page' = back
    BY <1>4 DEF ReturnFromMobilePay, back
  <2> QED BY <1>1, <1>2, <1>4, <2>1, StatusPreserves DEF ReturnFromMobilePay
<1> QED BY <1>3, <1>4

LEMMA CancelAtStripePreserves ==
  ASSUME CheckoutInv, CancelAtStripe
  PROVE  CheckoutInv'
<1>1. page.attempt \in Attempts /\ page.attempt.offer \in Offers
  BY DEF CancelAtStripe, CheckoutInv, HasAttempt, Attempts
<1>2. CASE page.attempt.offer \in EventOffers
  <2>1. page' \in Pages /\ page'.what = "pay" /\ keys' = keys
    BY <1>1, <1>2, PayPageIsAPage DEF CancelAtStripe
  <2>2. CheckoutTypeOK'
    BY <2>1 DEF CancelAtStripe, CheckoutInv, CheckoutTypeOK
  <2> QED BY <2>1, <2>2, SilentPage DEF HasAttempt
<1>3. CASE page.attempt.offer \notin EventOffers
  <2>1. page' = [At("status", page.attempt) EXCEPT !.shown = "cancelled"] /\ ClearAllCheckoutKeys
    BY <1>3 DEF CancelAtStripe
  <2>2. page' \in Pages /\ page'.what = "status" /\ page'.attempt = page.attempt
        /\ page'.shown = "cancelled"
    BY <1>1, <2>1, AtIsAPage DEF Pages
  <2>3. keys' \in [Offers -> 0 .. created] /\ keys'[page.attempt.offer] = 0
    BY <1>1, <2>1, DroppedKeys DEF CheckoutInv
  <2> QED BY <1>1, <2>2, <2>3, StatusPreserves DEF CancelAtStripe
<1> QED BY <1>2, <1>3

LEMMA AskPreserves ==
  ASSUME CheckoutInv, Ask
  PROVE  CheckoutInv'
<1> DEFINE a == page.attempt
<1>1. /\ page.what = "status" /\ page \in Pages /\ page.shown \in {"loading", "pending"}
      /\ page.polls \in 0 .. MaxPolls /\ page.polls + 1 \in 0 .. MaxPolls
      /\ MaxPolls \in 0 .. MaxPolls
  BY CheckoutAssumption DEF Ask, SessionAnswered, SessionFailed, ReferenceAnswered,
     ReferenceFailed, Asking,
     CheckoutInv, CheckoutTypeOK, Pages
<1>2. a \in Attempts /\ a.offer \in Offers
  BY <1>1 DEF CheckoutInv, HasAttempt, Attempts
<1>3. a.offer \in StripeOffers => payments[a] = "paid"
  BY <1>1 DEF CheckoutInv, StripeReturned
<1>4. UNCHANGED <<created, payments, credited, stray, listening>>
  BY DEF Ask, SessionAnswered, SessionFailed, ReferenceAnswered, ReferenceFailed
<1>5. /\ page' \in Pages /\ page'.what = "status" /\ page'.attempt = a
      /\ page'.shown = "success" => a.offer \in credited \/ payments[a] = "paid"
      /\ page'.shown = "error" => a.offer \notin StripeOffers
      /\ page'.shown = "cancelled" => DropKeys(a.offer)
      /\ keys' = keys \/ DropKeys(a.offer)
  <2>1. CASE SessionAnswered
    BY <1>1, <1>3, <2>1 DEF SessionAnswered, Pages
  <2>2. CASE SessionFailed
    BY <1>1, <1>3, <2>2 DEF SessionFailed, Pages
  <2>3. CASE ReferenceAnswered
    BY <1>1, <1>3, <2>3 DEF ReferenceAnswered, Pages
  <2>4. CASE ReferenceFailed
    BY <1>1, <1>3, <2>4 DEF ReferenceFailed, Pages
  <2> QED BY <2>1, <2>2, <2>3, <2>4 DEF Ask
<1>6. keys' \in [Offers -> 0 .. created] /\ (page'.shown = "cancelled" => keys'[a.offer] = 0)
  BY <1>2, <1>5, DroppedKeys DEF CheckoutInv, CheckoutTypeOK
<1> QED BY <1>2, <1>3, <1>4, <1>5, <1>6, StatusPreserves

-----------------------------------------------------------------------------
LEMMA CheckoutNextPreserves ==
  ASSUME CheckoutInv, [CheckoutNext]_checkoutVars
  PROVE  CheckoutInv'
<1>1. CASE UNCHANGED checkoutVars
  BY <1>1 DEF checkoutVars, CheckoutInv, CheckoutTypeOK, HasAttempt, StripeReturned, SuccessShown, ErrorAtMobilePay, IsPaid,
     CancelledGetsAFreshKey
<1>2. CASE CheckoutNext
  BY <1>2, LoadPreserves, CheckoutPreserves, OpenPayPreserves, ExpirePreserves,
     ServerStartsPreserves, StartFailedPreserves, StrayPreserves, RedirectPreserves,
     ProviderPreserves,
     CreditPreserves, ReturnPreserves, CancelAtStripePreserves, AskPreserves DEF CheckoutNext
<1> QED BY <1>1, <1>2

(* Every variable of the checkout keeps its type: in particular no key is  *)
(* stored that was not created.                                            *)
THEOREM CheckoutTyped == CheckoutSpec => []CheckoutTypeOK
<1>1. CheckoutInit => CheckoutInv
  BY CheckoutInitEstablishes
<1>2. CheckoutInv /\ [CheckoutNext]_checkoutVars => CheckoutInv'
  BY CheckoutNextPreserves
<1>3. CheckoutInv => CheckoutTypeOK
  BY DEF CheckoutInv
<1> QED BY <1>1, <1>2, <1>3, PTL DEF CheckoutSpec

(* The status page says that a purchase went through only if it did, with  *)
(* the one exception that MCFailedQuestion.cfg finds: a MobilePay membership*)
(* whose first question failed.                                            *)
THEOREM SuccessIsTrue == CheckoutSpec => []ToldSuccessIsPaid
<1>1. CheckoutInit => CheckoutInv
  BY CheckoutInitEstablishes
<1>2. CheckoutInv /\ [CheckoutNext]_checkoutVars => CheckoutInv'
  BY CheckoutNextPreserves
<1>3. CheckoutInv => ToldSuccessIsPaid
  BY DEF CheckoutInv, ToldSuccessIsPaid, AnnouncesSuccess, FirstQuestionFailed, SuccessShown,
         ErrorAtMobilePay
<1> QED BY <1>1, <1>2, <1>3, PTL DEF CheckoutSpec

(* After a payment was shown as cancelled its key is gone, so the next     *)
(* checkout is a payment of its own.                                       *)
THEOREM NoDeadPayment == CheckoutSpec => []CancelledGetsAFreshKey
<1>1. CheckoutInit => CheckoutInv
  BY CheckoutInitEstablishes
<1>2. CheckoutInv /\ [CheckoutNext]_checkoutVars => CheckoutInv'
  BY CheckoutNextPreserves
<1>3. CheckoutInv => CancelledGetsAFreshKey
  BY DEF CheckoutInv
<1> QED BY <1>1, <1>2, <1>3, PTL DEF CheckoutSpec

=============================================================================
