SPECIFICATION FairSpec
CONSTANTS
  Unit = 5
  Long = 4
  KeepGap = 3
  Latency = 0
  MaxBusy = 4
  AckReports = FALSE
  MaxCmd = 2
  MaxFlight = 4
INVARIANTS
  NoSpuriousTimeout
PROPERTIES
  DeadGatewayLeft
