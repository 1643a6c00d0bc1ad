------------------------------ MODULE FileVerdict ------------------------------
(***************************************************************************)
(* What the import page promises of one file field: the verdict shown is   *)
(* the verdict of the file that is chosen now.  Choosing another file      *)
(* withdraws the verdict; the answer to a file given up is never shown.    *)
(* FinanceImportPage, where requests overtake each other, implements this. *)
(***************************************************************************)
CONSTANTS Files, ValidFiles, NoFile

VARIABLES chosen, verdict

Init == chosen = NoFile /\ verdict = "idle"

Choose(f) ==
  /\ chosen' = f
  /\ verdict' = IF f = NoFile THEN "idle" ELSE "pending"

(* A file may also be called invalid because it could not be judged.       *)
Judge ==
  /\ verdict = "pending"
  /\ verdict' \in {"invalid"} \cup (IF chosen \in ValidFiles THEN {"valid"} ELSE {})
  /\ UNCHANGED chosen

Next == Judge \/ \E f \in Files \cup {NoFile} : Choose(f)

Spec == Init /\ [][Next]_<<chosen, verdict>>

=============================================================================
