SPECIFICATION Spec
CONSTANTS
  Secret <- Secrets
  Message <- Messages
  xor <- XorByte
  KeyExpansion <- ExpandKey
  Cipher <- AesCipher
  InvCipher <- AesInvCipher
  MaxFrames = 2
INVARIANTS
  FramesChained
  OpensAsSealed
CHECK_DEADLOCK FALSE
