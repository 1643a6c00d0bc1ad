\* A member with a paid place answers again.
CONSTANTS
  Users = {u1}
  Passive = {}
  Editors = {}
  Limits = {1}
  Unlimited = Unlimited
  EditWindows = {"keep"}
  MaxRegistrations = 1
  Attempts = {a1}
SYMMETRY Symmetry
SPECIFICATION PaySpec
PROPERTIES
  MemberKeepsPaidMark
CHECK_DEADLOCK FALSE
