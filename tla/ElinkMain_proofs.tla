-------------------------- MODULE ElinkMain_proofs --------------------------
(***************************************************************************)
(* Theorems about ElinkMain, for any number of descriptors, faults and     *)
(* frames.                                                                 *)
(***************************************************************************)
EXTENDS ElinkMain, TLAPS

-----------------------------------------------------------------------------
(* Type correctness.                                                       *)

\* Every step that keeps the sets below keeps the types.
LEMMA InitType == Init => TypeOK
<1> SUFFICES ASSUME Init PROVE TypeOK
  OBVIOUS
<1>1. 1 \in Fds /\ 0 \in 0 .. MaxFrames /\ 0 \in 0 .. MaxFault
  BY MainAssumption DEF Fds
<1>. QED
  BY <1>1 DEF Init, TypeOK, Co, Stages

LEMMA FaultType == ASSUME TypeOK, Fault \/ NoFault PROVE faults' \in 0 .. MaxFault
  BY MainAssumption DEF TypeOK, Fault, NoFault

\* The three ways in which a coroutine's run ends.
LEMMA DieType ==
  ASSUME TypeOK, NEW c \in Co, Die(c)
  PROVE  /\ co' \in [Co -> Stages] /\ fd' \in [Co -> Fds]
         /\ turn' \in Co /\ running' \in Co \cup {"none"}
         /\ open' \subseteq Fds /\ garbage' \subseteq Fds /\ inbox' \in [Co -> Nat]
<1>1. Held(c) \subseteq Fds
  BY DEF Held, TypeOK
<1>. QED
  BY <1>1 DEF TypeOK, Die, Yields, Stages

LEMMA TakeFdType ==
  ASSUME TypeOK, NEW c \in Co, NEW left, left \subseteq Fds, TakeFd(c, left)
  PROVE  fd' \in [Co -> Fds] /\ open' \subseteq Fds
  BY DEF TypeOK, TakeFd

LEMMA NewSocketType ==
  ASSUME TypeOK, NEW c \in Co, NEW left, left \subseteq Fds, NewSocket(c, left)
  PROVE  /\ co' \in [Co -> Stages] /\ fd' \in [Co -> Fds]
         /\ running' \in Co \cup {"none"} /\ open' \subseteq Fds
  BY TakeFdType DEF TypeOK, NewSocket, Yields, Stages

LEMMA ReopenType ==
  ASSUME TypeOK, NEW c \in Co, CloseAndReopen(c)
  PROVE  /\ co' \in [Co -> Stages] /\ fd' \in [Co -> Fds]
         /\ turn' \in Co /\ running' \in Co \cup {"none"}
         /\ open' \subseteq Fds /\ garbage' \subseteq Fds /\ inbox' \in [Co -> Nat]
<1>1. open \ (garbage \cup Held(c)) \subseteq Fds
  BY DEF TypeOK
<1>2. /\ co' \in [Co -> Stages] /\ fd' \in [Co -> Fds]
      /\ running' \in Co \cup {"none"} /\ open' \subseteq Fds
  BY <1>1, NewSocketType DEF CloseAndReopen
<1>. QED
  BY <1>2 DEF CloseAndReopen, TypeOK

LEMMA NextType == ASSUME TypeOK, [Next]_vars PROVE TypeOK'
<1> USE DEF nvram
<1>0. (\A c \in Co : Other(c) \in Co) /\ MaxFrames \in Nat
  BY MainAssumption DEF Co, Other
<1>1. CASE Resume
  BY <1>0, <1>1 DEF Resume, TypeOK, Stages
<1>2. CASE Collect
  BY <1>2 DEF Collect, TypeOK
<1>3. CASE MarkBridged \/ LaunchBridge
  BY <1>3 DEF MarkBridged, LaunchBridge, InMain, TypeOK, Stages
<1>4. CASE Reboot
  <2>1. 1 \in Fds /\ "TCP" \in Co
    BY MainAssumption DEF Fds, Co
  <2>. QED BY <1>4, <2>1, FaultType DEF Reboot, Boot, TypeOK, Stages
<1>5. ASSUME NEW c \in Co, OpenSocket(c) PROVE TypeOK'
  <2>1. faults' \in 0 .. MaxFault
    BY <1>5, FaultType DEF OpenSocket
  <2>2. CASE Die(c)
    BY <1>5, <2>1, <2>2, DieType DEF OpenSocket, TypeOK
  <2>3. CASE NewSocket(c, open) /\ UNCHANGED <<turn, garbage, inbox>>
    <3>1. /\ co' \in [Co -> Stages] /\ fd' \in [Co -> Fds]
          /\ running' \in Co \cup {"none"} /\ open' \subseteq Fds
      BY <2>3, NewSocketType DEF TypeOK
    <3>. QED BY <1>5, <2>1, <2>3, <3>1 DEF OpenSocket, TypeOK
  <2>. QED BY <1>5, <2>2, <2>3 DEF OpenSocket
<1>6. ASSUME NEW c \in Co, BuildRaises(c) \/ HandlerRaises(c) PROVE TypeOK'
  <2>1. faults' \in 0 .. MaxFault
    BY <1>6, FaultType DEF BuildRaises, HandlerRaises
  <2>. QED BY <1>6, <2>1, DieType DEF BuildRaises, HandlerRaises, TypeOK
<1>7. ASSUME NEW c \in Co, BuildFails(c) \/ End(c) PROVE TypeOK'
  <2>1. faults' \in 0 .. MaxFault
    BY <1>7, FaultType DEF BuildFails, End
  <2>. QED BY <1>7, <2>1, ReopenType DEF BuildFails, End, TypeOK
<1>8. ASSUME NEW c \in Co, Connect(c) \/ Greet(c) \/ Handle(c) \/ Yield(c) \/ Arrive(c)
      PROVE  TypeOK'
  <2>0. CASE Connect(c)
    <3>1. fd' \in [Co -> Fds] /\ open' \subseteq Fds
      BY <2>0, TakeFdType DEF Connect, TypeOK
    <3>. QED BY <2>0, <3>1 DEF Connect, TypeOK, Stages
  <2>1. CASE Greet(c)
    BY <2>1 DEF Greet, InMain, TypeOK, Stages
  <2>2. CASE Handle(c)
    <3>1. inbox[c] - 1 \in Nat
      BY <2>2 DEF Handle, TypeOK
    <3>. QED BY <2>2, <3>1 DEF Handle, TypeOK
  <2>3. CASE Yield(c)
    BY <2>3 DEF Yield, Yields, TypeOK
  <2>4. CASE Arrive(c)
    <3>1. inbox[c] + 1 \in Nat /\ frames[c] + 1 \in 0 .. MaxFrames
      BY <1>0, <2>4 DEF Arrive, TypeOK
    <3>. QED BY <2>4, <3>1 DEF Arrive, TypeOK
  <2>. QED BY <1>8, <2>0, <2>1, <2>2, <2>3, <2>4
<1>9. CASE UNCHANGED vars
  BY <1>9 DEF vars, process, TypeOK
<1>. QED
  BY <1>1, <1>2, <1>3, <1>4, <1>5, <1>6, <1>7, <1>8, <1>9
     DEF Next, ProcessStep, FaultStep, Runs

\* Coroutines, descriptors and counters keep their types.
THEOREM TypeCorrect == Spec => []TypeOK
  BY InitType, NextType, PTL DEF Spec

-----------------------------------------------------------------------------
(* The bridge script.  What makes "at most once" inductive: as long as the *)
(* flag is clear the script has not been started, nor has it been when a   *)
(* coroutine is about to start it.                                         *)
BridgeInv ==
  /\ BridgedAtMostOnce
  /\ bridgeFlag = 0 => bridged = 0
  /\ co["TCP"] = "bridging" => bridgeFlag = 1 /\ bridged = 0

\* Nothing but MarkBridged brings a coroutine to the point of starting it.
LEMMA OnlyMarkBridges ==
  ASSUME TypeOK, Next, ~MarkBridged, ~LaunchBridge
  PROVE  /\ UNCHANGED nvram
         /\ co'["TCP"] = "bridging" => co["TCP"] = "bridging"
<1>0. "TCP" \in Co /\ co \in [Co -> Stages]
  BY DEF Co, TypeOK
<1>1. CASE Resume \/ Collect \/ Reboot
  BY <1>0, <1>1 DEF Resume, Collect, Reboot, Boot
<1>2. ASSUME NEW c \in Co, OpenSocket(c) \/ BuildRaises(c) \/ BuildFails(c)
                           \/ HandlerRaises(c) \/ End(c)
      PROVE  UNCHANGED nvram /\ (co'["TCP"] = "bridging" => co["TCP"] = "bridging")
  BY <1>0, <1>2 DEF OpenSocket, BuildRaises, BuildFails, HandlerRaises, End,
                    Die, CloseAndReopen, NewSocket
<1>3. ASSUME NEW c \in Co, Connect(c) \/ Greet(c) \/ Handle(c) \/ Yield(c) \/ Arrive(c)
      PROVE  UNCHANGED nvram /\ (co'["TCP"] = "bridging" => co["TCP"] = "bridging")
  BY <1>0, <1>3 DEF Connect, Greet, Handle, Yield, Arrive
<1>. QED
  BY <1>1, <1>2, <1>3 DEF Next, ProcessStep, FaultStep, Runs

LEMMA NextBridge == ASSUME TypeOK, BridgeInv, [Next]_vars PROVE BridgeInv'
<1>0. "TCP" \in Co /\ co \in [Co -> Stages] /\ bridged \in Nat
  BY DEF Co, TypeOK
<1>1. CASE MarkBridged
  BY <1>0, <1>1 DEF MarkBridged, BridgeInv, BridgedAtMostOnce
<1>2. CASE LaunchBridge
  BY <1>0, <1>2 DEF LaunchBridge, BridgeInv, BridgedAtMostOnce
<1>3. CASE Next /\ ~MarkBridged /\ ~LaunchBridge
  BY <1>3, OnlyMarkBridges DEF BridgeInv, BridgedAtMostOnce, nvram
<1>4. CASE UNCHANGED vars
  BY <1>4 DEF vars, process, nvram, BridgeInv, BridgedAtMostOnce
<1>. QED
  BY <1>1, <1>2, <1>3, <1>4

\* The bridge script is started at most once, over any number of restarts.
THEOREM BridgedOnce == Spec => []BridgedAtMostOnce
<1>1. Init => BridgeInv
  BY DEF Init, BridgeInv, BridgedAtMostOnce, Co
<1>2. BridgeInv => BridgedAtMostOnce
  BY DEF BridgeInv
<1>. QED
  BY <1>1, <1>2, NextBridge, TypeCorrect, PTL DEF Spec

-----------------------------------------------------------------------------
(* The descriptors: SocketsSound is inductive, given the types.  It        *)
(* speaks of both coroutines by name.                                      *)
LEMMA Others == ASSUME NEW c \in Co
                PROVE  Other(c) \in Co /\ Other(c) # c /\ Co = {c, Other(c)}
  BY DEF Co, Other

\* The invariant, split into what c holds and what the other one holds.
SoundFor(c) ==
  /\ open = garbage \cup Held(c) \cup Held(Other(c))
  /\ garbage \cap Held(c) = {} /\ garbage \cap Held(Other(c)) = {}
  /\ Held(c) \cap Held(Other(c)) = {}

LEMMA SoundFrom == \A c \in Co : SocketsSound <=> SoundFor(c)
<1>1. Other("TCP") = "UNIX" /\ Other("UNIX") = "TCP" /\ Co = {"TCP", "UNIX"}
  BY DEF Co, Other
<1>. QED
  BY <1>1 DEF SocketsSound, SoundFor

LEMMA SoundFromNext == \A c \in Co : SocketsSound' <=> SoundFor(c)'
<1>1. (\A c \in Co : SocketsSound <=> SoundFor(c))'
  BY SoundFrom, PTL
<1>. QED
  BY <1>1

\* A coroutine dies: what it held becomes garbage.
LEMMA DieSound ==
  ASSUME TypeOK, SocketsSound, NEW c \in Co, Die(c) PROVE SocketsSound'
<1>1. SoundFor(c) /\ Other(c) \in Co /\ Other(c) # c
  BY SoundFrom, Others
<1>2. /\ Held(c)' = {} /\ Held(Other(c))' = Held(Other(c))
      /\ garbage' = garbage \cup Held(c) /\ open' = open
  BY <1>1 DEF Die, Held, TypeOK
<1>3. SoundFor(c)'
  BY <1>1, <1>2 DEF SoundFor
<1>. QED
  BY <1>3, SoundFromNext

\* A descriptor that nobody has becomes the one of c.
LEMMA TakeFdHeld ==
  ASSUME TypeOK, NEW c \in Co, NEW left, TakeFd(c, left), NEW stage,
         co' = [co EXCEPT ![c] = stage],
         stage = "connected" \/ (c = "UNIX" /\ stage = "opened")
  PROVE  \E f \in Fds \ left : /\ Held(c)' = {f} /\ open' = left \cup {f}
                               /\ Held(Other(c))' = Held(Other(c))
<1>1. PICK f \in Fds \ left : fd' = [fd EXCEPT ![c] = f] /\ open' = left \cup {f}
  BY DEF TakeFd
<1>. QED
  BY <1>1, Others DEF Held, TypeOK

\* A coroutine gets a new socket, with a descriptor that nobody has or none.
LEMMA NewSocketHeld ==
  ASSUME TypeOK, NEW c \in Co, NEW left, NewSocket(c, left)
  PROVE  /\ open' = left \cup Held(c)' /\ Held(c)' \cap left = {}
         /\ Held(Other(c))' = Held(Other(c))
<1>1. co' = [co EXCEPT ![c] = "opened"]
  BY DEF NewSocket
<1>2. CASE c = "UNIX"
  <2>1. TakeFd(c, left)
    BY <1>2 DEF NewSocket
  <2>2. PICK f \in Fds \ left : /\ Held(c)' = {f} /\ open' = left \cup {f}
                               /\ Held(Other(c))' = Held(Other(c))
    BY <1>1, <1>2, <2>1, TakeFdHeld
  <2>. QED BY <2>2
<1>3. CASE c = "TCP"
  BY <1>1, <1>3, Others DEF NewSocket, Held, TypeOK
<1>. QED
  BY <1>2, <1>3 DEF Co

LEMMA ReopenSound ==
  ASSUME TypeOK, SocketsSound, NEW c \in Co, CloseAndReopen(c)
  PROVE  SocketsSound'
<1>1. SoundFor(c)
  BY SoundFrom
<1>2. open \ (garbage \cup Held(c)) = Held(Other(c))
  BY <1>1 DEF SoundFor
<1>3. /\ open' = Held(Other(c)) \cup Held(c)' /\ Held(c)' \cap Held(Other(c)) = {}
      /\ Held(Other(c))' = Held(Other(c))
  BY <1>2, NewSocketHeld DEF CloseAndReopen
<1>4. SoundFor(c)'
  BY <1>3 DEF SoundFor, CloseAndReopen
<1>. QED
  BY <1>4, SoundFromNext

\* What c holds is new, and nothing else changes.
LEMMA GainSound ==
  ASSUME SocketsSound, NEW c \in Co, UNCHANGED garbage, Held(c) = {},
         open' = open \cup Held(c)', Held(c)' \cap open = {},
         Held(Other(c))' = Held(Other(c))
  PROVE  SocketsSound'
<1>1. SoundFor(c)
  BY SoundFrom
<1>2. SoundFor(c)'
  BY <1>1 DEF SoundFor
<1>. QED
  BY <1>2, SoundFromNext

LEMMA OpenSound ==
  ASSUME TypeOK, SocketsSound, NEW c \in Co, OpenSocket(c) PROVE SocketsSound'
<1>1. CASE Die(c)
  BY <1>1, DieSound
<1>2. CASE NewSocket(c, open) /\ UNCHANGED garbage
  <2>1. Held(c) = {}
    BY DEF OpenSocket, Held
  <2>. QED BY <1>2, <2>1, NewSocketHeld, GainSound
<1>. QED
  BY <1>1, <1>2 DEF OpenSocket

LEMMA ConnectSound ==
  ASSUME TypeOK, SocketsSound, NEW c \in Co, Connect(c) PROVE SocketsSound'
<1>1. CASE c = "TCP"
  <2>1. Held(c) = {}
    BY <1>1 DEF Connect, InMain, Held
  <2>2. co' = [co EXCEPT ![c] = "connected"] /\ TakeFd(c, open)
    BY <1>1 DEF Connect
  <2>3. PICK f \in Fds \ open : /\ Held(c)' = {f} /\ open' = open \cup {f}
                               /\ Held(Other(c))' = Held(Other(c))
    BY <2>2, TakeFdHeld
  <2>4. open' = open \cup Held(c)' /\ Held(c)' \cap open = {} /\ UNCHANGED garbage
    BY <2>3 DEF Connect
  <2>. QED BY <2>1, <2>3, <2>4, GainSound
<1>2. CASE c = "UNIX"
  <2>1. UNCHANGED <<fd, open, garbage>> /\ Held(c)' = Held(c) /\ Held(Other(c))' = Held(Other(c))
    BY <1>2, Others DEF Connect, InMain, Held, TypeOK
  <2>2. SoundFor(c)'
    BY <2>1, SoundFrom DEF SoundFor
  <2>. QED BY <2>2, SoundFromNext
<1>. QED
  BY <1>1, <1>2 DEF Co

\* Steps that leave the sockets where they are.
LEMMA SameSockets ==
  ASSUME SocketsSound, UNCHANGED <<open, garbage>>, \A c \in Co : Held(c)' = Held(c)
  PROVE  SocketsSound'
  BY DEF SocketsSound, Co

LEMMA NextSound == ASSUME TypeOK, SocketsSound, [Next]_vars PROVE SocketsSound'
<1>0. co \in [Co -> Stages] /\ "TCP" \in Co /\ turn \in Co
  BY DEF TypeOK, Co
<1>1. CASE Resume
  BY <1>0, <1>1, SameSockets DEF Resume, Held
<1>2. CASE MarkBridged \/ LaunchBridge
  BY <1>0, <1>2, SameSockets DEF MarkBridged, LaunchBridge, InMain, Held
<1>3. CASE Collect
  <2>1. \A c \in Co : Held(c)' = Held(c)
    BY <1>3 DEF Collect, Held
  <2>. QED
    BY <1>3, <2>1 DEF Collect, SocketsSound, Co
<1>4. CASE Reboot
  <2>1. \A c \in Co : Held(c)' = {}
    BY <1>4 DEF Reboot, Boot, Held
  <2>. QED
    BY <1>4, <2>1 DEF Reboot, Boot, SocketsSound, Co
<1>5. ASSUME NEW c \in Co, OpenSocket(c) \/ Connect(c) PROVE SocketsSound'
  BY <1>5, OpenSound, ConnectSound
<1>6. ASSUME NEW c \in Co, BuildRaises(c) \/ HandlerRaises(c) PROVE SocketsSound'
  BY <1>6, DieSound DEF BuildRaises, HandlerRaises
<1>7. ASSUME NEW c \in Co, BuildFails(c) \/ End(c) PROVE SocketsSound'
  BY <1>7, ReopenSound DEF BuildFails, End
<1>8. ASSUME NEW c \in Co, Greet(c) \/ Handle(c) \/ Yield(c) \/ Arrive(c)
      PROVE  SocketsSound'
  BY <1>0, <1>8, SameSockets DEF Greet, Handle, Yield, Arrive, InMain, Held
<1>9. CASE UNCHANGED vars
  BY <1>9, SameSockets DEF vars, process, Held
<1>. QED
  BY <1>1, <1>2, <1>3, <1>4, <1>5, <1>6, <1>7, <1>8, <1>9
     DEF Next, ProcessStep, FaultStep, Runs

\* Nobody loses a live coroutine's socket, and no descriptor leaks, however
\* coroutines die and the collector runs.
THEOREM SocketsStaySound == Spec => []SocketsSound
<1>1. Init => SocketsSound
  BY DEF Init, SocketsSound, Held, Co
<1>. QED
  BY <1>1, NextSound, TypeCorrect, PTL DEF Spec
=============================================================================
