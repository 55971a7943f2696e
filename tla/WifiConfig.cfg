SPECIFICATION Spec
CONSTANTS
  MaxCmd = 2
  MaxRestart = 1
  Cmds <- EveryKind
INVARIANTS
  RunsWhatWasWritten
  OutageExplained
  StatusTellsTruth
  AddNotLost
  KeyInItsSlot
  SsidNewest
CHECK_DEADLOCK FALSE
