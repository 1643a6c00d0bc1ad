\* Three users compete for one or two places; or one of them pays twice for a
\* place, or registers again in between.  Nobody edits the event.  Ids, attempts
\* and time run out (bounds), so a run may stop.
CONSTANTS
  Users = {u1, u2, u3}
  Payer = u1
  Passive = {"INTERESTED"}
  Editors = {}
  Limits = {1, 2}
  Unlimited = Unlimited
  EditWindows = {"keep"}
  MaxRegistrations = 4
  Attempts = {a1, a2}
SYMMETRY Symmetry
SPECIFICATION MCSpec
INVARIANTS
  PayTypeOK
  NoPaymentIsForgotten
PROPERTIES
  FreedPlaceIsOffered
  PromotedInOrder
  OthersAreLeftAlone
  PaidOnlyByProviderOrAdmin
  AcknowledgedMeansPaid
CHECK_DEADLOCK FALSE
