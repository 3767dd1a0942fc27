SPECIFICATION TabSpec
CONSTANTS
  MaxVersion = 2
  MaxDeploys = 2
  MaxChecks = 2
  MaxReports = 2
  MaxGen = 2
  Sections = {s1}
  MaxFaults = 1
  NoVersion = NoVersion
  Absent = Absent
INVARIANTS ToastsAreDeploys ReportsInv
PROPERTIES SnapshotCatchesUp ReportResolves
