\* Two files, three choices, two imports; four offers, two keys.
CONSTANTS
  Files = {good, bad}
  ValidFiles = {good}
  NoFile = NoFile
  MaxChoices = 3
  MaxImports = 2
  MaxLoads = 1
  Mounted = {"import", "checkout"}
  m = m
  Offers = {s, m, e, f}
  StripeOffers = {s, f}
  EventOffers = {e, f}
  MaxKeys = 2
  MaxPolls = 2
SPECIFICATION MCFairSpec
INVARIANTS
  OnlyValidFilesAreImported
  ToldSuccessIsPaid
  CancelledGetsAFreshKey
PROPERTIES
  VerdictOfChosenFile
  ImportIsListed
  StatusPageSettles
CHECK_DEADLOCK FALSE
