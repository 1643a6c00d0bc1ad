\* Two checkouts at a time.
CONSTANTS
  Agreements = {a1, a2}
  Requests = {r1, r2}
  Handlers = {h1}
  MaxTime = 1
  None = None
SPECIFICATION Spec
INVARIANT OneLiveAgreement
CHECK_DEADLOCK FALSE
