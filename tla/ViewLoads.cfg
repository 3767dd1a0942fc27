SPECIFICATION Spec
CONSTANTS
  Filters = {f0, f1}
  Default = f0
  MaxPage = 3
  MaxSame = 2
  MaxOut = 3
  MaxMounts = 2
  Tours = {{"dashboard", "threats"}, {"events"}, {"sessions"}, {"audit"}, {"tokens"}, {"geo"}}
  None = None
INVARIANTS SettledShowsSelection LoadsInv
CHECK_DEADLOCK FALSE
