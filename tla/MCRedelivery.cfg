\* One payment of a user who may register again; or one request of a member and
\* one handler, with one agreement or one Stripe session.  Ids, attempts and time run out (bounds), so a run may stop.
CONSTANTS
  Users = {u1}
  Unlimited = Unlimited
  Attempts = {p1}
  Sessions = {s1}
  Requests = {r1}
  Handlers = {h1}
  MobilePayTime = 3
  MaxTime = 2
  None = None
SPECIFICATION MCFairSpec
PROPERTIES
  EndedIsClosed
  AcceptedIsCredited
  TakenIsCredited
  AuthorizedIsCaptured
  PaymentIsCredited
  PaidForWithStripe
  EndIsNoticed
CHECK_DEADLOCK FALSE
