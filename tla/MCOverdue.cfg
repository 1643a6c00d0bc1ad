\* One agreement, a charge that fails and a page that asks.
CONSTANTS
  Agreements = {a1}
  Requests = {r1}
  Handlers = {h1}
  MaxTime = 3
  None = None
SPECIFICATION Spec
PROPERTY OverdueUntilCaptured
CHECK_DEADLOCK FALSE
