SPECIFICATION DeskSpec
CONSTANTS
  IPs = {i1, i2}
  MaxBlocks = 2
  MaxCalls = 3
  Nil = Nil
INVARIANTS BlockedListSettles DeskInv
SYMMETRY IpSymmetry
CHECK_DEADLOCK FALSE
