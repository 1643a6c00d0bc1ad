\* One editor, and two users who register meanwhile.
CONSTANTS
  Users = {u1, u2}
  Passive = {}
  Editors = {e1}
  Limits = {0, 1}
  Unlimited = Unlimited
  EditWindows = {"keep"}
  MaxRegistrations = 2
SYMMETRY Symmetry
SPECIFICATION Spec
PROPERTY CapacityIsNeverUndercut
CHECK_DEADLOCK FALSE
