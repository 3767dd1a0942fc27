SPECIFICATION AlertsSpec
CONSTANTS
  MaxRules = 1
  AlertIds = {a1, a2}
  BoardSize = 1
  MaxAlertCalls = 3
  Unset = Unset
SYMMETRY AlertSymmetry
INVARIANTS RulesSettle HistoryInv
CHECK_DEADLOCK FALSE
