----------------------------- MODULE ElinkTimer -----------------------------
(***************************************************************************)
(* The timers of a registered connection: keepRun and tcpRecivedData of    *)
(* elink.lua with sendMsgLog.timeout, .time and .headtime.                 *)
(*                                                                         *)
(* There is one deadline, Unit * timeout seconds after sendMsgLog.time,    *)
(* looked at only when nothing is readable.  Every frame read makes the    *)
(* agent send a dev_report, which sets timeout to 1; an acknowledgement    *)
(* then sets it to Long.  Keepalives, KeepGap seconds apart, do not touch  *)
(* it.  Time is counted in whole seconds, as os.time counts it, and kept   *)
(* as the ages of the two time stamps.                                     *)
(***************************************************************************)
EXTENDS Naturals, Sequences, FiniteSets

CONSTANTS
  Unit,       \* checkTimeOut: seconds per unit of timeout (5)
  Long,       \* what an acknowledgement sets timeout to (4)
  KeepGap,    \* keepAlive: the silence between keepalives (3)
  Latency,    \* seconds the gateway takes, at most, to acknowledge
  MaxBusy,    \* seconds a handler takes, at most
  AckReports, \* the gateway acknowledges dev_reg and dev_report too
  MaxCmd,     \* how many commands wait to be read, at most
  MaxFlight   \* with more acknowledged frames under way time is not followed

ASSUME TimerAssumption ==
  /\ Unit \in Nat \ {0} /\ Long \in Nat \ {0} /\ KeepGap \in Nat
  /\ Latency \in Nat /\ MaxBusy \in Nat /\ MaxCmd \in Nat /\ MaxFlight \in Nat
  /\ AckReports \in BOOLEAN

\* What a gateway has to keep to if it is not to lose the agent.  One that
\* acknowledges reports has Unit seconds; one that acknowledges keepalives
\* only has what is left of them when the next keepalive goes out.
ASSUME GatewayAssumption ==
  IF AckReports THEN Latency < Unit
  ELSE KeepGap + 1 + Latency < Unit /\ MaxBusy + Latency < Unit

VARIABLES
  mode,     \* "wait" in tcpRecivedData, "busy" in a handler, "ended"
  timeout,  \* sendMsgLog.timeout
  age,      \* seconds since sendMsgLog.time
  headAge,  \* seconds since sendMsgLog.headtime, at most KeepGap + 1
  inbox,    \* frames the agent can read
  owed,     \* ages of the frames the gateway is still to acknowledge
  polled,   \* the agent has looked for input in the current second
  gwUp,     \* the gateway is there
  silence   \* seconds since the agent last read a frame

vars == <<mode, timeout, age, headAge, inbox, owed, polled, gwUp, silence>>

TypeOK ==
  /\ mode \in {"wait", "busy", "ended"} /\ timeout \in {1, Long}
  /\ age \in Nat /\ headAge \in 0 .. KeepGap + 1 /\ silence \in Nat
  /\ inbox \in Seq({"ack", "cmd"}) /\ owed \in Seq(Nat)
  /\ polled \in BOOLEAN /\ gwUp \in BOOLEAN

\* dev_reg has just gone out; headtime may be left from an earlier connection.
Init ==
  /\ mode = "wait" /\ timeout = 1 /\ age = 0 /\ headAge \in 0 .. KeepGap + 1
  /\ inbox = <<>> /\ owed = IF AckReports THEN <<0>> ELSE <<>>
  /\ polled = FALSE /\ gwUp = TRUE /\ silence = 0

-----------------------------------------------------------------------------
(* The agent.                                                              *)

setTimeOut(n) == timeout' = n /\ age' = 0

\* Mutant: no deadline for a waiting agent.
DeadlineNever == FALSE

checkTimeOut == age + 1 > Unit * timeout

\* Mutant: the keepalive goes out a second late.
KeepAliveDueLate == headAge > KeepGap + 1

KeepAliveDue == headAge > KeepGap

\* A frame went out that the gateway, if it is there, will acknowledge.
Await == owed' = IF gwUp THEN Append(owed, 0) ELSE owed

\* Nothing is readable: give up, or keep the gateway's interest alive.
Poll ==
  /\ mode = "wait" /\ inbox = <<>> /\ polled' = TRUE
  /\ \/ checkTimeOut /\ mode' = "ended" /\ UNCHANGED <<headAge, owed>>
     \/ /\ ~checkTimeOut /\ KeepAliveDue /\ UNCHANGED mode
        /\ headAge' = 0 /\ Await
     \/ ~checkTimeOut /\ ~KeepAliveDue /\ UNCHANGED <<mode, headAge, owed>>
  /\ UNCHANGED <<timeout, age, inbox, gwUp, silence>>

\* send2GwChildDev, on every frame: the gateway may acknowledge the report.
Report == IF AckReports THEN Await ELSE UNCHANGED owed

\* Mutant: no report for an acknowledgement (checkChildDev of elink_test.lua).
RecvAckSilently ==
  /\ mode = "wait" /\ inbox # <<>> /\ Head(inbox) = "ack"
  /\ inbox' = Tail(inbox) /\ silence' = 0
  /\ setTimeOut(Long)
  /\ UNCHANGED <<mode, headAge, owed, polled, gwUp>>

RecvAck ==
  /\ mode = "wait" /\ inbox # <<>> /\ Head(inbox) = "ack"
  /\ inbox' = Tail(inbox) /\ silence' = 0
  /\ Report /\ setTimeOut(Long)
  /\ UNCHANGED <<mode, headAge, polled, gwUp>>

RecvCommand ==
  /\ mode = "wait" /\ inbox # <<>> /\ Head(inbox) = "cmd"
  /\ inbox' = Tail(inbox) /\ silence' = 0 /\ mode' = "busy"
  /\ Report /\ setTimeOut(1)
  /\ UNCHANGED <<headAge, polled, gwUp>>

\* The handler is done; its own answer is not one the gateway acknowledges.
Finish ==
  /\ mode = "busy" /\ mode' = "wait" /\ polled' = FALSE
  /\ UNCHANGED <<timeout, age, headAge, inbox, owed, gwUp, silence>>

\* The connection is closed, and the next one registered: dev_reg goes out.
Reconnect ==
  /\ mode = "ended" /\ mode' = "wait" /\ setTimeOut(1)
  /\ headAge' \in headAge .. KeepGap + 1 /\ inbox' = <<>>
  /\ owed' = IF AckReports THEN <<0>> ELSE <<>>
  /\ polled' = FALSE /\ gwUp' = TRUE /\ silence' = 0

-----------------------------------------------------------------------------
(* The gateway and the clock (not in the repository).                      *)

Acks == {i \in 1 .. Len(inbox) : inbox[i] = "ack"}

InFlight == Len(owed) + Cardinality(Acks)

GwAck ==
  /\ gwUp /\ owed # <<>>
  /\ owed' = Tail(owed) /\ inbox' = Append(inbox, "ack")
  /\ UNCHANGED <<mode, timeout, age, headAge, polled, gwUp, silence>>

GwCommand ==
  /\ gwUp /\ Len(inbox) - Cardinality(Acks) < MaxCmd /\ InFlight < MaxFlight
  /\ inbox' = Append(inbox, "cmd")
  /\ UNCHANGED <<mode, timeout, age, headAge, owed, polled, gwUp, silence>>

GwDies ==
  /\ gwUp /\ gwUp' = FALSE /\ owed' = <<>>
  /\ UNCHANGED <<mode, timeout, age, headAge, inbox, polled, silence>>

\* Seconds beyond every deadline are not told apart.
Horizon  == Unit * Long + Unit + MaxBusy
Older(n) == IF n < Horizon THEN n + 1 ELSE n

\* A second passes.  A living gateway acknowledges in time; a waiting agent
\* polls about fifteen times a second; a handler ends in time (age counts
\* from the report that went out before it).
Tick ==
  /\ mode = "wait" => polled
  /\ mode = "busy" => age < MaxBusy
  /\ \A i \in 1 .. Len(owed) : owed[i] < Latency
  /\ InFlight <= MaxFlight
  /\ mode # "ended"
  /\ age' = Older(age) /\ silence' = Older(silence)
  /\ headAge' = IF headAge <= KeepGap THEN headAge + 1 ELSE headAge
  /\ owed' = [i \in 1 .. Len(owed) |-> owed[i] + 1]
  /\ polled' = FALSE
  /\ UNCHANGED <<mode, timeout, inbox, gwUp>>

Next ==
  \/ Poll \/ RecvAck \/ RecvCommand \/ Finish \/ Reconnect
  \/ GwAck \/ GwCommand \/ GwDies \/ Tick

Spec == Init /\ [][Next]_vars

\* The scheduler resumes the coroutine and time passes.
Fairness ==
  /\ WF_vars(Poll) /\ WF_vars(RecvAck \/ RecvCommand) /\ WF_vars(Finish)
  /\ WF_vars(Reconnect) /\ WF_vars(Tick)

FairSpec == Spec /\ Fairness

-----------------------------------------------------------------------------
(* Properties.                                                             *)

\* A gateway that keeps to its part is never given up, although every report
\* shortens the deadline to Unit seconds and a handler may outlast it
\* (elink.lua:40-43, 281, 502-512).
NoSpuriousTimeout == mode = "ended" => ~gwUp

\* A gateway that falls silent is noticed: nobody waits on a connection on
\* which nothing was heard for longer than the long deadline, unless the
\* handler of the last command took that long (elink.lua:99-103).
SilenceBounded == silence <= Unit * Long \/ silence <= MaxBusy

\* While a connection lives the acknowledged frames under way never become
\* fewer: each acknowledgement read begets a report, and each report an
\* acknowledgement, so that every keepalive adds one for good
\* (elink.lua:500-508).
ReportsNeverDieOut ==
  [][AckReports /\ gwUp' /\ mode # "ended" /\ mode' # "ended" => InFlight' >= InFlight]_vars

\* A dead gateway is given up, and the agent connects again.
DeadGatewayLeft == ~gwUp ~> gwUp
=============================================================================
