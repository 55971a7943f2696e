SPECIFICATION Spec
CONSTANTS
  MaxFault = 2
  MaxCmd = 0
  MaxKeep = 1
  MaxAck = 1
  CmdKinds <- CfgOnly
INVARIANTS
  SealedFromRegistration
  KeysAgree
  FreshSecrets
  ConnectionsExplained
