\* Two users and an editor who changes type, capacity and dates meanwhile; or
\* one place, and three requests of the open pages.
CONSTANTS
  Users = {u1, u2}
  Member = u1
  Passive = {"INTERESTED"}
  Editors = {e1}
  Limits = {0, 1}
  Unlimited = Unlimited
  EditWindows = {"keep", "open"}
  MaxRegistrations = 3
  OfferedTypes = {"ATTENDEE"}
  MaxCalls = 3
SPECIFICATION MCSpec
INVARIANTS
  MineIsAsLeft
  RowsAreAsLeft
PROPERTIES
  NeverOverbooks
  ActsOnTheRowShown
CHECK_DEADLOCK FALSE
