SPECIFICATION SocketFairSpec
CONSTANTS
  Header = 2
  MaxBody = 1
  MaxFrames = 2
  MaxSpelled = 3
  BufSize = 3
  StepSize = 2
  Block = 2
  SndBuf = 2
  OutLen = 3
  MaxSends = 2
INVARIANTS
  FramesWhole
  NothingLeftBehind
  SentInPlace
PROPERTIES
  HalfSecond
  CallsReturn
  ReceivesAsFraming
  KeepsReceiving
CHECK_DEADLOCK FALSE
