SPECIFICATION Spec
CONSTANTS
  Markers = {m1, m2}
  OwnLines = {u1, u2}
  Cap = 8
  Versions = {1, 2}
  MaxEdits = 2
  MaxCommands = 3
SYMMETRY Symmetric
CONSTRAINT Undamaged
CHECK_DEADLOCK FALSE
INVARIANTS
  OwnLinesKept
  BlocksFollowReceipts
