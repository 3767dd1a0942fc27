SPECIFICATION FairSpec
CONSTANTS
  Clicks = {k1}
  Users = {u1, u2}
  Confirms = {e1, e2}
  Promises = {p1, p2}
  None = None
INVARIANTS DialogServesWaiters RetrySafe SuccessMeansApplied
PROPERTY CallSettlesOrAsks
