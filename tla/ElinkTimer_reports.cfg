SPECIFICATION Spec
CONSTANTS
  Unit = 5
  Long = 4
  KeepGap = 3
  Latency = 4
  MaxBusy = 22
  AckReports = TRUE
  MaxCmd = 2
  MaxFlight = 4
INVARIANTS
  SilenceBounded
PROPERTIES
  ReportsNeverDieOut
