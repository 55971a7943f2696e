------------------------------ MODULE ElinkMain ------------------------------
(***************************************************************************)
(* The process of elink.lua: two coroutines of elinka, one towards the     *)
(* gateway (TCP), one towards the local proxy (UNIX), resumed in turn by   *)
(* the loop at the end of the file.  A coroutine runs until it yields, and *)
(* it yields only with a fresh socket in the main loop or with nothing to  *)
(* read in tcpRecivedData.  One whose Lua code raises is dead; the next    *)
(* turn replaces it, and its socket is left to the garbage collector.      *)
(* What happens on a connection is abstracted to reading frames            *)
(* (ElinkSession has the details).                                         *)
(***************************************************************************)
EXTENDS Integers

CONSTANTS
  MaxFd,      \* how many descriptors the process may hold, pipes included
  MaxFault,   \* how many faults (errors, broken connections, ...) may happen
  MaxFrames,  \* how many frames each peer sends, at most
  UnixWorks   \* whether require("socket.unix") is a constructor, as the code
              \* expects: one answer or both

ASSUME MainAssumption ==
  /\ MaxFd \in Nat \ {0} /\ MaxFault \in Nat /\ MaxFrames \in Nat
  /\ UnixWorks \subseteq BOOLEAN /\ UnixWorks # {}

Co       == {"TCP", "UNIX"}
Other(c) == CHOOSE d \in Co : d # c
Fds      == 1 .. MaxFd

VARIABLES
  co,         \* where each coroutine stands
  fd,         \* the socket it holds, when it holds one
  turn,       \* the coroutine the loop resumes next
  running,    \* the coroutine that runs, or "none"
  open,       \* descriptors the kernel holds open for the process
  garbage,    \* those of them that no live coroutine knows
  inbox,      \* frames that wait to be read
  frames,     \* frames sent by each peer so far
  bridgeFlag, \* brideg_mode_flag in the configuration memory
  bridged,    \* how often elink_route_bridge.sh was started
  faults

process == <<co, fd, turn, running, open, garbage, inbox>>
nvram   == <<bridgeFlag, bridged>>
vars    == <<process, frames, nvram, faults>>

Stages == {"dead", "start", "opened", "connected", "bridging", "waiting"}

TypeOK ==
  /\ co \in [Co -> Stages] /\ fd \in [Co -> Fds]
  /\ turn \in Co /\ running \in Co \cup {"none"}
  /\ open \subseteq Fds /\ garbage \subseteq Fds
  /\ inbox \in [Co -> Nat] /\ frames \in [Co -> 0 .. MaxFrames]
  /\ bridgeFlag \in {0, 1} /\ bridged \in Nat /\ faults \in 0 .. MaxFault

Boot ==
  /\ co' = [c \in Co |-> "dead"] /\ fd' = [c \in Co |-> 1]
  /\ turn' = "TCP" /\ running' = "none"
  /\ open' = {} /\ garbage' = {} /\ inbox' = [c \in Co |-> 0]

Init ==
  /\ co = [c \in Co |-> "dead"] /\ fd = [c \in Co |-> 1]
  /\ turn = "TCP" /\ running = "none"
  /\ open = {} /\ garbage = {} /\ inbox = [c \in Co |-> 0]
  /\ frames = [c \in Co |-> 0]
  /\ bridgeFlag = 0 /\ bridged = 0 /\ faults = 0

\* The descriptor of the socket of c: a TCP socket has one when it connects,
\* a UNIX socket when it is made.
Held(c) ==
  IF co[c] \in {"connected", "bridging", "waiting"} \/ (c = "UNIX" /\ co[c] = "opened")
  THEN {fd[c]} ELSE {}

Fault   == faults < MaxFault /\ faults' = faults + 1
NoFault == UNCHANGED faults

-----------------------------------------------------------------------------
(* The loop at the end of the file.                                        *)

\* A dead coroutine is replaced; the new one starts at once.
Resume ==
  /\ running = "none" /\ running' = turn /\ turn' = Other(turn)
  /\ co' = [co EXCEPT ![turn] = IF @ = "dead" THEN "start" ELSE @]
  /\ UNCHANGED <<fd, open, garbage, inbox, frames, nvram, faults>>

Yields == running' = "none"

\* Mutant: nobody ever closes the socket of a dead coroutine.
DieForgets(c) ==
  /\ co' = [co EXCEPT ![c] = "dead"] /\ Yields
  /\ inbox' = [inbox EXCEPT ![c] = 0]
  /\ UNCHANGED <<fd, turn, open, garbage>>

\* The code raised: the coroutine is gone, its socket is garbage.
Die(c) ==
  /\ co' = [co EXCEPT ![c] = "dead"] /\ Yields
  /\ inbox' = [inbox EXCEPT ![c] = 0]
  /\ garbage' = garbage \cup Held(c)
  /\ UNCHANGED <<fd, turn, open>>

\* The collector closes what nobody can reach, when it comes round to it.
Collect ==
  /\ garbage # {} /\ open' = open \ garbage /\ garbage' = {}
  /\ UNCHANGED <<co, fd, turn, running, inbox, frames, nvram, faults>>

-----------------------------------------------------------------------------
(* The main loop of elinka.                                                *)

Full == open = Fds

\* The socket of c gets a descriptor, given what else stays open.
TakeFd(c, left) ==
  \E f \in Fds \ left : fd' = [fd EXCEPT ![c] = f] /\ open' = left \cup {f}

\* tcp_init, and a yield before anything is done with the socket.
NewSocket(c, left) ==
  /\ co' = [co EXCEPT ![c] = "opened"] /\ Yields
  /\ IF c = "UNIX" THEN TakeFd(c, left) ELSE open' = left /\ UNCHANGED fd

OpenSocket(c) ==
  /\ running = c /\ co[c] = "start" /\ NoFault
  /\ \/ c = "UNIX" /\ (Full \/ FALSE \in UnixWorks) /\ Die(c)
     \/ /\ c = "UNIX" => ~Full /\ TRUE \in UnixWorks
        /\ NewSocket(c, open) /\ UNCHANGED <<turn, garbage, inbox>>
  /\ UNCHANGED <<frames, nvram>>

\* Mutant: the socket is closed, and closed again when it is collected.
CloseAndReopenTwice(c) ==
  /\ NewSocket(c, open \ (garbage \cup Held(c)))
  /\ garbage' = Held(c) /\ inbox' = [inbox EXCEPT ![c] = 0]
  /\ UNCHANGED turn

\* close, collectgarbage, and round the loop.
CloseAndReopen(c) ==
  /\ NewSocket(c, open \ (garbage \cup Held(c)))
  /\ garbage' = {} /\ inbox' = [inbox EXCEPT ![c] = 0]
  /\ UNCHANGED turn

InMain(c, stage) == running = c /\ co[c] = stage

\* buildDevinfo, and the question for the flag behind it, read the system
\* through pipes: without a descriptor to spare they raise; so does the first
\* when there is no MAC address.
BuildRaises(c) ==
  /\ InMain(c, "opened") \/ (Full /\ InMain(c, "connected"))
  /\ Die(c) /\ IF Full THEN NoFault ELSE Fault
  /\ UNCHANGED <<frames, nvram>>

\* No gateway, or it does not answer.
BuildFails(c) ==
  /\ InMain(c, "opened") /\ ~Full /\ Fault /\ CloseAndReopen(c)
  /\ UNCHANGED <<frames, nvram>>

\* The pipe of getGW was given back just before, so that there is a descriptor
\* for the socket.
Connect(c) ==
  /\ InMain(c, "opened") /\ ~Full /\ co' = [co EXCEPT ![c] = "connected"]
  /\ IF c = "TCP" THEN TakeFd(c, open) ELSE UNCHANGED <<fd, open>>
  /\ UNCHANGED <<turn, running, garbage, inbox, frames, nvram, faults>>

\* Mutant: the flag does not reach the configuration memory.
MarkForgotten ==
  /\ InMain("TCP", "connected") /\ ~Full /\ bridgeFlag = 0
  /\ co' = [co EXCEPT !["TCP"] = "bridging"]
  /\ UNCHANGED <<fd, turn, running, open, garbage, inbox, frames, nvram, faults>>

\* The first connection to a gateway turns the router into a bridge: the
\* flag is set first, then the script is started.
MarkBridged ==
  /\ InMain("TCP", "connected") /\ ~Full /\ bridgeFlag = 0
  /\ bridgeFlag' = 1 /\ co' = [co EXCEPT !["TCP"] = "bridging"]
  /\ UNCHANGED <<fd, turn, running, open, garbage, inbox, frames, bridged, faults>>

LaunchBridge ==
  /\ running = "TCP" /\ co["TCP"] = "bridging" /\ bridged' = bridged + 1
  /\ co' = [co EXCEPT !["TCP"] = "waiting"]
  /\ UNCHANGED <<fd, turn, running, open, garbage, inbox, frames, bridgeFlag, faults>>

\* keyngreq goes out and the wait begins.
Greet(c) ==
  /\ InMain(c, "connected") /\ ~Full /\ (c = "TCP" => bridgeFlag = 1)
  /\ co' = [co EXCEPT ![c] = "waiting"]
  /\ UNCHANGED <<fd, turn, running, open, garbage, inbox, frames, nvram, faults>>

-----------------------------------------------------------------------------
(* tcpRecivedData, reg and keepRun.                                        *)

AtWork(c) == running = c /\ co[c] = "waiting"

\* As long as there is something to read the coroutine keeps running.
Handle(c) ==
  /\ AtWork(c) /\ inbox[c] > 0 /\ inbox' = [inbox EXCEPT ![c] = @ - 1]
  /\ UNCHANGED <<co, fd, turn, running, open, garbage, frames, nvram, faults>>

\* A handler raises; without a descriptor to spare it has to, as it reads the
\* system as well.
HandlerRaises(c) ==
  /\ AtWork(c) /\ inbox[c] > 0 /\ Die(c) /\ IF Full THEN NoFault ELSE Fault
  /\ UNCHANGED <<frames, nvram>>

\* Mutant: the wait for input does not yield.
YieldNever(c) ==
  /\ AtWork(c) /\ inbox[c] = 0
  /\ UNCHANGED vars

Yield(c) ==
  /\ AtWork(c) /\ inbox[c] = 0 /\ Yields
  /\ UNCHANGED <<co, fd, turn, open, garbage, inbox, frames, nvram, faults>>

\* The peer closed, or the deadline passed.
End(c) ==
  /\ AtWork(c) /\ inbox[c] = 0 /\ Fault /\ CloseAndReopen(c)
  /\ UNCHANGED <<frames, nvram>>

-----------------------------------------------------------------------------
(* The peers and the power supply (not in the repository).                 *)

Arrive(c) ==
  /\ co[c] = "waiting" /\ frames[c] < MaxFrames
  /\ inbox' = [inbox EXCEPT ![c] = @ + 1] /\ frames' = [frames EXCEPT ![c] = @ + 1]
  /\ UNCHANGED <<co, fd, turn, running, open, garbage, nvram, faults>>

\* The router restarts: only the configuration memory is left.
Reboot == Fault /\ Boot /\ UNCHANGED <<frames, nvram>>

-----------------------------------------------------------------------------
Runs(c) ==
  \/ OpenSocket(c) \/ Connect(c) \/ Greet(c) \/ Handle(c) \/ Yield(c)
  \/ (BuildRaises(c) /\ NoFault) \/ (HandlerRaises(c) /\ NoFault)

ProcessStep == Resume \/ MarkBridged \/ LaunchBridge \/ \E c \in Co : Runs(c)

FaultStep ==
  \/ Reboot
  \/ \E c \in Co : \/ BuildFails(c) \/ End(c)
                  \/ (BuildRaises(c) /\ Fault) \/ (HandlerRaises(c) /\ Fault)

Next == ProcessStep \/ Collect \/ FaultStep \/ \E c \in Co : Arrive(c)

Spec == Init /\ [][Next]_vars

\* The process runs.  New coroutines allocate, so that a collection cycle
\* ends sooner or later.
Fairness == WF_vars(ProcessStep) /\ WF_vars(Collect)

FairSpec == Spec /\ Fairness

-----------------------------------------------------------------------------
(* Properties.                                                             *)

\* The collector and the explicit close never take away, between them, the
\* socket of a live coroutine, although descriptors are reused at once; and
\* no descriptor is open that neither a live coroutine nor the collector
\* knows (elink.lua:453, 559, 573-576, 612-628).
SocketsSound ==
  /\ open = garbage \cup Held("TCP") \cup Held("UNIX")
  /\ garbage \cap (Held("TCP") \cup Held("UNIX")) = {}
  /\ Held("TCP") \cap Held("UNIX") = {}

\* However often coroutines die and the router restarts, the bridge script is
\* started at most once (elink.lua:565-568).
BridgedAtMostOnce == bridged <= 1

\* Neither coroutine keeps the other from running for ever, as long as its
\* peer pauses now and then (elink.lua:83-116, 611-630).
BothServed == \A c \in Co : []<>(running = c)

\* Once the faults are over the gateway's connection stands for good, whether
\* or not UNIX dies at every turn, and even if the descriptors had run out.
GatewayServed == <>[](co["TCP"] = "waiting")
=============================================================================
