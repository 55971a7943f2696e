SPECIFICATION FairSpec
CONSTANTS
  MaxFd = 3
  MaxFault = 4
  MaxFrames = 1
  UnixWorks = {TRUE, FALSE}
INVARIANTS
  SocketsSound
  BridgedAtMostOnce
PROPERTIES
  BothServed
  GatewayServed
