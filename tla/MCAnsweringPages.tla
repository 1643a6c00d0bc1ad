---------------------------- MODULE MCAnsweringPages ----------------------------
(***************************************************************************)
(* The two pages that wait for answers, the import of finance data and the *)
(* checkout, on small instances.  The router mounts one of them at a time, *)
(* as in MCSitePages; only the mounted page asks, so fairness is about its *)
(* requests.                                                               *)
(***************************************************************************)
EXTENDS FinanceImportPage, CheckoutFlow, TLC

CONSTANTS
  Mounted,  \* the pages to check
  m         \* the offer on the payment page of a checkout that is not mounted

VARIABLE mounted

allVars == <<mounted, vars, checkoutVars>>

-----------------------------------------------------------------------------
MCInit ==
  /\ mounted \in Mounted
  /\ Init
  /\ CheckoutInit /\ (mounted # "checkout" => page = PayPage(m))

MCNext ==
  \/ mounted = "import" /\ Next /\ UNCHANGED <<mounted, checkoutVars>>
  \/ mounted = "checkout" /\ CheckoutNext /\ UNCHANGED <<mounted, vars>>

MCSpec == MCInit /\ [][MCNext]_allVars

MCFairSpec ==
  /\ MCSpec
  /\ WF_vars(mounted = "import" /\ (Store \/ Imported \/ ImportFailed))
  /\ \A l \in Loads :
       WF_vars(mounted = "import" /\ l \in loads /\ (HistoryLoaded(l) \/ HistoryFailed(l)))
  /\ WF_checkoutVars(mounted = "checkout" /\ Ask)

=============================================================================
