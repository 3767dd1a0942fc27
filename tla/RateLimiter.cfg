\* A direct peer, the reverse proxy and one client behind it.
CONSTANTS
  Remote = {p}
  Local = {lo}
  Clients = {c}
  Limit = 2
  Window = 3
  TicksPerSec = 2
  MaxTime = 3
  MaxEvents = 3
SPECIFICATION Spec
INVARIANTS BurstBound LimiterInv
PROPERTY ImplementsBudget
CHECK_DEADLOCK FALSE
