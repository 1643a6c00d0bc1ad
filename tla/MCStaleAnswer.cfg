\* An answer about one agreement is stored for another.
CONSTANTS
  Agreements = {a1, a2}
  Requests = {r1, r2}
  Handlers = {h1}
  MaxTime = 2
  None = None
SPECIFICATION Spec
PROPERTY StaleAnswerIsDropped
CHECK_DEADLOCK FALSE
