\* Two requests of the member with two agreements, or two webhook handlers with
\* all the events of one agreement, charges that fail included.
CONSTANTS
  Agreements = {a1, a2}
  Requests = {r1, r2}
  Handlers = {h1, h2}
  MaxTime = 3
  None = None
SYMMETRY Symmetry
SPECIFICATION MCSpec
INVARIANTS
  CreditedWasCharged
PROPERTIES
  PaidForWithMobilePay
  ClosedStaysClosed
  EventsInOrder
CHECK_DEADLOCK FALSE
