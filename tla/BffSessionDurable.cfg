\* The Postgres store: handlers work on copies, any statement may fail.
CONSTANTS
  Requests = {r1, r2}
  Durable = TRUE
  MaxTokens = 2
  MaxErrors = 1
SYMMETRY RequestSymmetry
SPECIFICATION Spec
INVARIANTS SessionInv NoResurrection CleanLogoutEnded StoredIsLatest
PROPERTY ImplementsSessionLife
CHECK_DEADLOCK FALSE
