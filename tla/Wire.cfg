SPECIFICATION WireSpec
CONSTANTS
  Byte = 16
  Char = 8
  MaxLen = 4
  KeyLen = 2
  P = 227
  G = 5
  GwPrivs <- SomePrivs
  Junk = {0, 7}
INVARIANTS
  RoundTrip
  EncodesInBase64
  SecretsAgree
  PrivateKeyKept
CHECK_DEADLOCK FALSE
