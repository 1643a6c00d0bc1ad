\* One subscription and two deliveries at a time.
CONSTANTS
  Sessions = {s1}
  Handlers = {h1, h2}
  MaxTime = 3
  None = None
SYMMETRY Symmetry
SPECIFICATION Spec
PROPERTY EndedStaysEnded
CHECK_DEADLOCK FALSE
