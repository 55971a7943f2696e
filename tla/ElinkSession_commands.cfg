SPECIFICATION Spec
CONSTANTS
  MaxFault = 1
  MaxCmd = 2
  MaxKeep = 0
  MaxAck = 0
  CmdKinds <- EveryHandler
INVARIANTS
  AnswersInOrder
  AckedIsApplied
