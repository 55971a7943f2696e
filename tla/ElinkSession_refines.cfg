SPECIFICATION FairSpec
CONSTANTS
  MaxFault = 1
  MaxCmd = 2
  MaxKeep = 0
  MaxAck = 0
  CmdKinds <- SilentToo
PROPERTIES
  ServesCommands
  Recovers
  CommandsSettle
