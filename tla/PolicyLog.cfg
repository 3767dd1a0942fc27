SPECIFICATION Spec
CONSTANTS
  MinRow = 3
  MaxRow = 4
  CidRows = {1, 3, 4}
  NarrowRows = {1, 2, 4}
  PageSize = 2
  Settings <- MCSettings
  MaxOut = 2
  None = None
INVARIANTS LogInv NoGap
CHECK_DEADLOCK FALSE
