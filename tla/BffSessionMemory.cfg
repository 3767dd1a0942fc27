\* The memory store: handlers share the session object, statements cannot fail.
CONSTANTS
  Requests = {r1, r2}
  Durable = FALSE
  MaxTokens = 3
  MaxErrors = 0
SPECIFICATION FairSpec
INVARIANT SpentOnlyAfterLoss
PROPERTY EveryRequestAnswered
CHECK_DEADLOCK FALSE
