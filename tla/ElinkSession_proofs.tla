-------------------------- MODULE ElinkSession_proofs --------------------------
(***************************************************************************)
(* Theorems about ElinkSession, for every number of faults, connections,   *)
(* commands, keepalives and acknowledgements.                              *)
(***************************************************************************)
EXTENDS ElinkSessionRefines, FiniteSetTheorems, TLAPS

-----------------------------------------------------------------------------
(* Sequences.                                                              *)

\* What Append does to a log: the old frames stay where they are.
LEMMA AppendFacts ==
  ASSUME NEW S, NEW q \in Seq(S), NEW e \in S
  PROVE  /\ Append(q, e) \in Seq(S)
         /\ Len(Append(q, e)) = Len(q) + 1
         /\ \A i \in 1 .. Len(q) : Append(q, e)[i] = q[i]
         /\ Append(q, e)[Len(q) + 1] = e
  OBVIOUS

\* A prefix of a log is a log.
LEMMA PrefixFacts ==
  ASSUME NEW S, NEW q \in Seq(S), NEW n \in 0 .. Len(q)
  PROVE  /\ SubSeq(q, 1, n) \in Seq(S)
         /\ Len(SubSeq(q, 1, n)) = n
         /\ \A i \in 1 .. n : SubSeq(q, 1, n)[i] = q[i]
  OBVIOUS

-----------------------------------------------------------------------------
(* Type correctness.                                                       *)

\* While a connection is in use it has a number, and a command in hand is the
\* last frame read.
InUse ==
  /\ pc \notin {"dead", "opened"} => sid \in Sessions
  /\ pc \in {"apply", "answer"} =>
       rIn[sid] \in 1 .. Len(in[sid]) /\ Command.type \in CmdTypes

TypeInv == TypeOK /\ InUse

LEMMA InitTypeInv == Init => TypeInv
<1> SUFFICES ASSUME Init PROVE TypeInv
  OBVIOUS
<1>1. NoKey \in Keys
  BY DEF NoKey, Keys
<1>2. out \in [Sessions -> Seq(OutFrame)] /\ in \in [Sessions -> Seq(InFrame)]
  BY DEF Init
<1>3. sid \in 0 .. MaxSession /\ faults \in 0 .. MaxFault
  BY BoundsAssumption DEF Init, MaxSession
<1>4. /\ rOut \in [Sessions -> Nat] /\ rIn \in [Sessions -> Nat]
      /\ phase \in [Sessions -> Phases] /\ gwKey \in [Sessions -> Keys]
  BY <1>1 DEF Init, Phases
<1>5. applied \in Seq(Sessions \X Nat)
  BY DEF Init
<1>6. /\ pc \in PCs /\ sequence \in Nat \ {0} /\ privkey \in Nat
      /\ secret \in Keys /\ gen \in Nat
      /\ open \subseteq Sessions /\ shut \subseteq Sessions
  BY <1>1 DEF Init, PCs
<1>7. keepaliveFlag \in BOOLEAN /\ identified \in BOOLEAN
  BY Zenon DEF Init
<1>8. InUse
  BY DEF Init, InUse
<1> QED
  BY <1>2, <1>3, <1>4, <1>5, <1>6, <1>7, <1>8 DEF TypeInv, TypeOK

-----------------------------------------------------------------------------
(* The parts of a step.                                                    *)

LEMMA NoKeyType == NoKey \in Keys
  BY DEF NoKey, Keys

\* Frames the agent builds are frames.
LEMMA FrameTypes ==
  ASSUME TypeOK, NEW t \in OutTypes, NEW n \in Nat, NEW p \in Nat
  PROVE  Plain(t, n, p) \in OutFrame /\ Sealed(t, n) \in OutFrame
<1>1. NoKey \in Keys
  BY DEF NoKey, Keys
<1> QED
  BY <1>1 DEF TypeOK, Plain, Sealed, OutFrame

\* Sending lengthens one log by one frame.
LEMMA SendTypes ==
  ASSUME TypeOK, NEW s \in Sessions, NEW f \in OutFrame, Send(s, f)
  PROVE  /\ out' \in [Sessions -> Seq(OutFrame)]
         /\ sequence' \in Nat \ {0}
<1>1. out[s] \in Seq(OutFrame)
  BY DEF TypeOK
<1>2. Append(out[s], f) \in Seq(OutFrame)
  BY <1>1, AppendFacts
<1> QED
  BY <1>2 DEF TypeOK, Send

\* Reading moves one reader forward by one frame.
LEMMA ReadTypes ==
  ASSUME TypeOK, sid \in Sessions, Readable, Read
  PROVE  /\ rIn' \in [Sessions -> Nat]
         /\ rIn'[sid] = rIn[sid] + 1
         /\ rIn'[sid] \in 1 .. Len(in[sid])
         /\ Pending \in InFrame
<1>1. in[sid] \in Seq(InFrame) /\ rIn[sid] \in Nat /\ Len(in[sid]) \in Nat
  BY DEF TypeOK
<1>2. rIn[sid] + 1 \in 1 .. Len(in[sid])
  BY <1>1 DEF Readable
<1>3. in[sid][rIn[sid] + 1] \in InFrame
  BY <1>1, <1>2
<1> QED
  BY <1>1, <1>2, <1>3 DEF TypeOK, Read, Pending

\* A frame said by the gateway is added to one log; what was there stays.
LEMMA SayTypes ==
  ASSUME TypeOK, NEW s \in Sessions, NEW f \in InFrame, Say(s, f)
  PROVE  /\ in' \in [Sessions -> Seq(InFrame)]
         /\ \A t \in Sessions : /\ Len(in[t]) \in Nat /\ Len(in'[t]) \in Nat
                                /\ Len(in'[t]) >= Len(in[t])
                                /\ \A i \in 1 .. Len(in[t]) : in'[t][i] = in[t][i]
<1>1. in[s] \in Seq(InFrame)
  BY DEF TypeOK
<1>2. /\ Append(in[s], f) \in Seq(InFrame)
      /\ Len(Append(in[s], f)) = Len(in[s]) + 1
      /\ \A i \in 1 .. Len(in[s]) : Append(in[s], f)[i] = in[s][i]
  BY <1>1, AppendFacts
<1>3. in' \in [Sessions -> Seq(InFrame)]
  BY <1>2 DEF TypeOK, Say
<1>4. ASSUME NEW t \in Sessions
      PROVE  /\ Len(in[t]) \in Nat /\ Len(in'[t]) \in Nat
             /\ Len(in'[t]) >= Len(in[t])
             /\ \A i \in 1 .. Len(in[t]) : in'[t][i] = in[t][i]
  <2>1. in[t] \in Seq(InFrame)
    BY DEF TypeOK
  <2>2. CASE t = s
    BY <1>2, <2>1, <2>2 DEF TypeOK, Say
  <2>3. CASE t # s
    BY <2>1, <2>3 DEF TypeOK, Say
  <2> QED
    BY <2>2, <2>3
<1> QED
  BY <1>3, <1>4

\* Death keeps the types, whatever the connection did.
LEMMA DieTypes ==
  ASSUME TypeInv, Die
  PROVE  /\ pc' \in PCs /\ sid' \in 0 .. MaxSession
         /\ keepaliveFlag' \in BOOLEAN /\ sequence' \in Nat \ {0} /\ privkey' \in Nat
         /\ secret' \in Keys /\ identified' \in BOOLEAN
         /\ open' \subseteq Sessions /\ gen' \in Nat /\ applied' \in Seq(Sessions \X Nat)
         /\ out' \in [Sessions -> Seq(OutFrame)]
         /\ InUse'
<1>1. NoKey \in Keys
  BY DEF NoKey, Keys
<1>2. keepaliveFlag' \in BOOLEAN /\ identified' \in BOOLEAN
  BY Zenon DEF Die
<1>3. InUse'
  BY DEF Die, InUse
<1> QED
  BY <1>1, <1>2, <1>3 DEF TypeInv, TypeOK, Die, PCs

-----------------------------------------------------------------------------
(* One lemma per step of the agent.                                        *)

LEMMA StartTypes ==
  ASSUME TypeInv, Start \/ Collect
  PROVE  TypeInv'
  BY DEF TypeInv, TypeOK, InUse, Start, Collect, locals, gateway, PCs, Command

LEMMA ConnectTypes ==
  ASSUME TypeInv, Connect
  PROVE  TypeInv'
<1>1. sid + 1 \in Sessions
  BY BoundsAssumption DEF TypeInv, TypeOK, Connect, Sessions, MaxSession
<1>2. Plain("keyngreq", sequence, 0) \in OutFrame
  BY FrameTypes DEF TypeInv, TypeOK, OutTypes
<1>3. out' \in [Sessions -> Seq(OutFrame)] /\ sequence' \in Nat \ {0}
  BY <1>1, <1>2, SendTypes DEF TypeInv, Connect
<1>4. keepaliveFlag' \in BOOLEAN /\ identified' \in BOOLEAN
  BY Zenon DEF Connect
<1>5. pc' \in PCs /\ sid' \in 0 .. MaxSession /\ open' \subseteq Sessions
  BY <1>1 DEF TypeInv, TypeOK, Connect, PCs, Sessions
<1>6. InUse'
  BY <1>1 DEF Connect, InUse
<1> QED
  BY <1>3, <1>4, <1>5, <1>6 DEF TypeInv, TypeOK, Connect, gateway

LEMMA BuildFailsTypes ==
  ASSUME TypeInv, ConnectFails \/ BuildError
  PROVE  TypeInv'
<1>1. CASE ConnectFails
  <2>1. keepaliveFlag' \in BOOLEAN /\ identified' \in BOOLEAN
    BY <1>1, Zenon DEF ConnectFails
  <2>2. faults' \in 0 .. MaxFault
    BY <1>1, BoundsAssumption DEF TypeInv, TypeOK, ConnectFails, Fault
  <2> QED
    BY <1>1, <2>1, <2>2 DEF TypeInv, TypeOK, InUse, ConnectFails, gateway
<1>2. CASE BuildError
  <2>1. Die
    BY <1>2 DEF BuildError
  <2>2. faults' \in 0 .. MaxFault
    BY <1>2, BoundsAssumption DEF TypeInv, TypeOK, BuildError, Fault
  <2> QED
    BY <1>2, <2>1, <2>2, DieTypes DEF TypeInv, TypeOK, BuildError, gateway
<1> QED
  BY <1>1, <1>2

LEMMA RecvKeyngackTypes ==
  ASSUME TypeInv, RecvKeyngack
  PROVE  TypeInv'
<1>1. sid \in Sessions /\ Readable /\ Read
  BY DEF TypeInv, InUse, RecvKeyngack, InReg
<1>2. rIn' \in [Sessions -> Nat]
  BY <1>1, ReadTypes DEF TypeInv
<1>3. Plain("dh", sequence, gen + 1) \in OutFrame
  BY FrameTypes DEF TypeInv, TypeOK, OutTypes
<1>4. out' \in [Sessions -> Seq(OutFrame)] /\ sequence' \in Nat \ {0}
  BY <1>1, <1>3, SendTypes DEF TypeInv, RecvKeyngack
<1> QED
  BY <1>1, <1>2, <1>4 DEF TypeInv, TypeOK, InUse, RecvKeyngack, InReg, gateway

LEMMA DeriveTypes ==
  ASSUME TypeInv, NEW x \in BOOLEAN, Derive(x), faults' \in 0 .. MaxFault
  PROVE  TypeInv'
<1>1. sid \in Sessions /\ Readable /\ Read
  BY DEF TypeInv, InUse, Derive, InReg
<1>2. rIn' \in [Sessions -> Nat] /\ Pending \in InFrame
  BY <1>1, ReadTypes DEF TypeInv
<1>3. secret' \in Keys
  BY <1>2 DEF TypeInv, TypeOK, Derive, Keys, InFrame
<1> DEFINE f == [type |-> "dev_reg", key |-> secret', num |-> sequence, pub |-> 0]
<1>4. f \in OutFrame
  BY <1>3 DEF TypeInv, TypeOK, OutFrame, OutTypes
<1>5. Send(sid, f)
  BY DEF Derive
<1>6. out' \in [Sessions -> Seq(OutFrame)] /\ sequence' \in Nat \ {0}
  BY <1>1, <1>4, <1>5, SendTypes DEF TypeInv
<1>7. keepaliveFlag' \in BOOLEAN
  BY Zenon DEF Derive
<1> QED
  BY <1>1, <1>2, <1>3, <1>6, <1>7 DEF TypeInv, TypeOK, InUse, Derive, gateway, PCs

LEMMA RegOtherTypes ==
  ASSUME TypeInv, RegIgnores \/ RegError
  PROVE  TypeInv'
<1>1. sid \in Sessions /\ Readable /\ Read /\ pc = "reg"
  BY DEF TypeInv, InUse, RegIgnores, RegError, InReg
<1>2. rIn' \in [Sessions -> Nat]
  BY <1>1, ReadTypes DEF TypeInv
<1>3. CASE RegIgnores
  BY <1>1, <1>2, <1>3 DEF TypeInv, TypeOK, InUse, RegIgnores, device, locals, gateway
<1>4. CASE RegError
  BY <1>2, <1>4, DieTypes DEF TypeInv, TypeOK, RegError, gateway
<1> QED
  BY <1>3, <1>4

LEMMA WaitTypes ==
  ASSUME TypeInv, KeepAlive \/ RecvFails \/ TimesOut
  PROVE  TypeInv'
<1>1. CASE KeepAlive
  <2>1. sid \in Sessions
    BY <1>1 DEF TypeInv, InUse, KeepAlive, Waiting
  <2>2. Sealed("keepalive", sequence) \in OutFrame
    BY FrameTypes DEF TypeInv, TypeOK, OutTypes
  <2>3. out' \in [Sessions -> Seq(OutFrame)] /\ sequence' \in Nat \ {0}
    BY <1>1, <2>1, <2>2, SendTypes DEF TypeInv, KeepAlive
  <2> QED
    BY <1>1, <2>1, <2>3 DEF TypeInv, TypeOK, InUse, KeepAlive, Waiting, gateway
<1>2. CASE RecvFails
  <2>1. sid \in Sessions
    BY <1>2 DEF TypeInv, InUse, RecvFails, Waiting
  <2>2. rIn' \in [Sessions -> Nat]
    BY <1>2, <2>1, ReadTypes DEF TypeInv, TypeOK, RecvFails
  <2> QED
    BY <1>2, <2>2 DEF TypeInv, TypeOK, InUse, RecvFails, EndSession, locals, gateway, PCs
<1>3. CASE TimesOut
  <2>1. faults' \in 0 .. MaxFault
    BY <1>3, BoundsAssumption DEF TypeInv, TypeOK, TimesOut, Fault
  <2> QED
    BY <1>3, <2>1 DEF TypeInv, TypeOK, InUse, TimesOut, EndSession, locals, gateway, PCs
<1> QED
  BY <1>1, <1>2, <1>3

LEMMA RecvRunTypes ==
  ASSUME TypeInv, RecvRun \/ RunError \/ ReportError
  PROVE  TypeInv'
<1>1. sid \in Sessions /\ Readable /\ Read
  BY DEF TypeInv, InUse, RecvRun, RunError, ReportError
<1>2. /\ rIn' \in [Sessions -> Nat] /\ rIn'[sid] = rIn[sid] + 1
      /\ rIn'[sid] \in 1 .. Len(in[sid])
  BY <1>1, ReadTypes DEF TypeInv
<1>3. CASE RecvRun
  <2>1. Sealed("dev_report", sequence) \in OutFrame
    BY FrameTypes DEF TypeInv, TypeOK, OutTypes
  <2>2. out' \in [Sessions -> Seq(OutFrame)] /\ sequence' \in Nat \ {0}
    BY <1>1, <1>3, <2>1, SendTypes DEF TypeInv, RecvRun
  <2>3. InUse'
    BY <1>1, <1>2, <1>3 DEF InUse, RecvRun, Pending, Command
  <2> QED
    BY <1>2, <1>3, <2>2, <2>3 DEF TypeInv, TypeOK, RecvRun, gateway, PCs
<1>4. CASE RunError \/ ReportError
  <2>1. faults' \in 0 .. MaxFault
    BY <1>4, BoundsAssumption DEF TypeInv, TypeOK, RunError, ReportError, Fault
  <2> QED
    BY <1>2, <1>4, <2>1, DieTypes DEF TypeInv, TypeOK, RunError, ReportError, gateway
<1> QED
  BY <1>3, <1>4

LEMMA ApplyTypes ==
  ASSUME TypeInv, Apply \/ ApplyError
  PROVE  TypeInv'
<1>1. CASE Apply
  <2>1. <<sid, rIn[sid]>> \in Sessions \X Nat
    BY <1>1 DEF TypeInv, TypeOK, InUse, Apply
  <2>2. applied' \in Seq(Sessions \X Nat)
    BY <1>1, <2>1, AppendFacts DEF TypeInv, TypeOK, Apply
  <2> QED
    BY <1>1, <2>2 DEF TypeInv, TypeOK, InUse, Apply, Command, locals, gateway, PCs
<1>2. CASE ApplyError
  <2>1. faults' \in 0 .. MaxFault
    BY <1>2, BoundsAssumption DEF TypeInv, TypeOK, ApplyError, Fault, NoFault
  <2> QED
    BY <1>2, <2>1, DieTypes DEF TypeInv, TypeOK, ApplyError, gateway
<1> QED
  BY <1>1, <1>2

LEMMA AnswerToType ==
  ASSUME TypeInv, Command \in InFrame, Command.type \in CmdTypes
  PROVE  AnswerTo(Command) \in OutFrame /\ AnswerTo(Command).type \in AnswerTypes
<1>1. Command.num \in Nat /\ sequence \in Nat
  BY DEF TypeInv, TypeOK, InFrame
<1>2. ASSUME NEW t \in AnswerTypes, NEW n \in Nat
      PROVE  Sealed(t, n) \in OutFrame /\ Sealed(t, n).type \in AnswerTypes
  BY FrameTypes DEF TypeInv, OutTypes, Sealed
<1>3. "ack" \in AnswerTypes /\ "status" \in AnswerTypes /\ "rssiinfo" \in AnswerTypes
  BY DEF AnswerTypes
<1>4. CASE Command.type \in {"cfg", "deassociation"}
  BY <1>1, <1>2, <1>3, <1>4 DEF AnswerTo
<1>5. CASE Command.type = "get_status"
  BY <1>1, <1>2, <1>3, <1>5 DEF AnswerTo
<1>6. CASE Command.type = "getrssiinfo"
  BY <1>1, <1>2, <1>3, <1>6 DEF AnswerTo
<1> QED
  BY <1>4, <1>5, <1>6 DEF CmdTypes

LEMMA AnswerStepTypes ==
  ASSUME TypeInv, Answer
  PROVE  TypeInv'
<1>1. sid \in Sessions /\ Command \in InFrame /\ Command.type \in CmdTypes
  BY DEF TypeInv, TypeOK, InUse, Answer, Command
<1>2. AnswerTo(Command) \in OutFrame
  BY <1>1, AnswerToType
<1>3. out' \in [Sessions -> Seq(OutFrame)] /\ sequence' \in Nat \ {0}
  BY <1>1, <1>2, SendTypes DEF TypeInv, TypeOK, Answer
<1> QED
  BY <1>1, <1>3 DEF TypeInv, TypeOK, InUse, Answer, gateway, PCs

-----------------------------------------------------------------------------
(* One lemma per step of the gateway and of the network.                   *)

\* A step that leaves the agent alone and only adds to what it can read, or
\* takes away what it has not read, keeps it in order.
LEMMA InUseKept ==
  ASSUME TypeInv, UNCHANGED <<device, rIn>>, in' \in [Sessions -> Seq(InFrame)],
         \A t \in Sessions : \A i \in 1 .. rIn[t] :
            i <= Len(in[t]) => i <= Len(in'[t]) /\ in'[t][i] = in[t][i]
  PROVE  InUse'
<1>1. sid \in 0 .. MaxSession /\ rIn \in [Sessions -> Nat]
  BY DEF TypeInv, TypeOK
<1>2. pc' = pc /\ sid' = sid /\ rIn' = rIn
  BY DEF device
<1>3. pc' \in {"apply", "answer"} =>
        rIn'[sid'] \in 1 .. Len(in'[sid']) /\ Command'.type \in CmdTypes
  <2> SUFFICES ASSUME pc \in {"apply", "answer"}
               PROVE  rIn[sid] \in 1 .. Len(in'[sid]) /\ in'[sid][rIn[sid]].type \in CmdTypes
    BY <1>2 DEF Command
  <2>1. sid \in Sessions /\ rIn[sid] \in 1 .. Len(in[sid]) /\ in[sid][rIn[sid]].type \in CmdTypes
    BY DEF TypeInv, InUse, Command
  <2>2. rIn[sid] <= Len(in'[sid]) /\ in'[sid][rIn[sid]] = in[sid][rIn[sid]]
    BY <2>1, <1>1
  <2>3. in'[sid] \in Seq(InFrame)
    BY <2>1
  <2> QED
    BY <2>1, <2>2, <2>3
<1> QED
  BY <1>2, <1>3 DEF TypeInv, InUse

\* What the gateway says is a frame.
LEMMA GwFrameTypes ==
  ASSUME NEW t \in InTypes, NEW k \in Keys, NEW n \in Nat, NEW p \in Nat, NEW b \in BOOLEAN
  PROVE  GwFrame(t, k, n, p, b) \in InFrame
  BY DEF GwFrame, InFrame

\* Saying it keeps TypeInv, whatever else happens on the gateway's side.
LEMMA SayKeeps ==
  ASSUME TypeInv, UNCHANGED <<device, rIn>>,
         NEW s \in Sessions, NEW f \in InFrame, Say(s, f) \/ UNCHANGED in
  PROVE  in' \in [Sessions -> Seq(InFrame)] /\ InUse'
<1>1. CASE Say(s, f)
  <2>1. /\ in' \in [Sessions -> Seq(InFrame)]
        /\ \A t \in Sessions : /\ Len(in[t]) \in Nat /\ Len(in'[t]) \in Nat
                               /\ Len(in'[t]) >= Len(in[t])
                               /\ \A i \in 1 .. Len(in[t]) : in'[t][i] = in[t][i]
    BY <1>1, SayTypes DEF TypeInv
  <2>2. \A t \in Sessions : \A i \in 1 .. rIn[t] :
          i <= Len(in[t]) => i <= Len(in'[t]) /\ in'[t][i] = in[t][i]
    BY <2>1 DEF TypeInv, TypeOK
  <2> QED
    BY <2>1, <2>2, InUseKept
<1>2. CASE UNCHANGED in
  BY <1>2, InUseKept DEF TypeInv, TypeOK
<1> QED
  BY <1>1, <1>2

LEMMA GwRecvTypes ==
  ASSUME TypeInv, NEW s \in Sessions, GwRecv(s)
  PROVE  TypeInv'
<1> DEFINE f == out[s][rOut[s] + 1]
<1>1. f \in OutFrame
  BY DEF TypeInv, TypeOK, GwRecv
<1>2. f.num \in Nat /\ f.pub \in Nat /\ gwKey[s] \in Keys /\ NoKey \in Keys /\ s \in Nat
  BY <1>1, NoKeyType DEF TypeInv, TypeOK, OutFrame, Sessions
<1>3. /\ GwFrame("keyngack", NoKey, f.num, 0, TRUE) \in InFrame
      /\ GwFrame("dh", NoKey, f.num, s, TRUE) \in InFrame
      /\ GwFrame("ack", gwKey[s], f.num, 0, TRUE) \in InFrame
  BY <1>2, GwFrameTypes DEF InTypes
<1>4. UNCHANGED <<device, rIn>> /\ UNCHANGED <<out, shut, faults>>
  BY DEF GwRecv
<1>5. in' \in [Sessions -> Seq(InFrame)] /\ InUse'
  <2>1. \/ Say(s, GwFrame("keyngack", NoKey, f.num, 0, TRUE))
        \/ Say(s, GwFrame("dh", NoKey, f.num, s, TRUE))
        \/ Say(s, GwFrame("ack", gwKey[s], f.num, 0, TRUE))
        \/ UNCHANGED in
    BY DEF GwRecv, GwAcks
  <2> QED
    BY <2>1, <1>3, <1>4, SayKeeps
<1>6. phase' \in [Sessions -> Phases] /\ gwKey' \in [Sessions -> Keys]
  <2>1. [dev |-> f.pub, gw |-> s, exact |-> TRUE] \in Keys
    BY <1>2 DEF Keys
  <2>2. \/ UNCHANGED phase
        \/ \E p \in Phases : phase' = [phase EXCEPT ![s] = p]
    BY DEF GwRecv, Phases
  <2>3. \/ UNCHANGED gwKey
        \/ gwKey' = [gwKey EXCEPT ![s] = [dev |-> f.pub, gw |-> s, exact |-> TRUE]]
    BY DEF GwRecv
  <2>4. phase \in [Sessions -> Phases] /\ gwKey \in [Sessions -> Keys]
    BY DEF TypeInv, TypeOK
  <2>5. phase' \in [Sessions -> Phases]
    BY <2>2, <2>4
  <2>6. gwKey' \in [Sessions -> Keys]
    BY <2>1, <2>3, <2>4
  <2> QED
    BY <2>5, <2>6
<1>7. rOut' \in [Sessions -> Nat]
  BY DEF TypeInv, TypeOK, GwRecv
<1> QED
  BY <1>4, <1>5, <1>6, <1>7 DEF TypeInv, TypeOK, device, locals

LEMMA IssuedType ==
  ASSUME TypeInv, NEW s \in Sessions, NEW k \in CmdKinds
  PROVE  GwFrame(k.type, gwKey[s], IF k.numbered THEN Sent(s) + 1 ELSE 0, 0, k.full) \in InFrame
<1> DEFINE n == IF k.numbered THEN Sent(s) + 1 ELSE 0
<1>1. k \in CmdKind
  BY BoundsAssumption
<1>2. Sent(s) \in Nat
  <2>1. Len(in[s]) \in Nat
    BY DEF TypeInv, TypeOK
  <2>2. IsFiniteSet(1 .. Len(in[s]))
    BY <2>1, FS_Interval
  <2>3. IsFiniteSet({i \in 1 .. Len(in[s]) : in[s][i].type \in CmdTypes})
    BY <2>2, FS_Subset
  <2> QED
    BY <2>3, FS_CardinalityType DEF Sent, Number
<1>3. n \in Nat
  BY <1>2
<1>4. k.type \in InTypes /\ k.full \in BOOLEAN /\ gwKey[s] \in Keys
  BY <1>1 DEF CmdKind, InTypes, TypeInv, TypeOK
<1> QED
  BY <1>3, <1>4, GwFrameTypes

LEMMA GwIssuesTypes ==
  ASSUME TypeInv, NEW s \in Sessions, GwCommand(s) \/ GwBadCommand(s)
  PROVE  TypeInv'
<1>1. PICK k \in CmdKinds : GwIssues(s, k) /\ (NoFault \/ Fault)
  BY DEF GwCommand, GwBadCommand
<1> DEFINE f == GwFrame(k.type, gwKey[s], IF k.numbered THEN Sent(s) + 1 ELSE 0, 0, k.full)
<1>2. f \in InFrame
  BY IssuedType
<1>3. Say(s, f) /\ UNCHANGED <<device, gateway, out, rIn>>
  BY <1>1 DEF GwIssues
<1> HIDE DEF f
<1>4. UNCHANGED <<device, rIn>>
  BY <1>3
<1>5. in' \in [Sessions -> Seq(InFrame)] /\ InUse'
  BY <1>2, <1>3, <1>4, SayKeeps
<1>6. faults' \in 0 .. MaxFault
  BY <1>1, BoundsAssumption DEF TypeInv, TypeOK, NoFault, Fault
<1> QED
  BY <1>3, <1>5, <1>6 DEF TypeInv, TypeOK, device, locals, gateway

LEMMA GwSeesCloseTypes ==
  ASSUME TypeInv, NEW s \in Sessions, GwSeesClose(s)
  PROVE  TypeInv'
  BY DEF TypeInv, TypeOK, InUse, Command, GwSeesClose, device, locals

LEMMA GwStraysTypes ==
  ASSUME TypeInv, NEW s \in Sessions, GwStrays(s)
  PROVE  TypeInv'
<1>1. PICK t \in {"keyngack", "dh", "ack", "garbage"} : Say(s, GwFrame(t, NoKey, 0, s, TRUE))
  BY DEF GwStrays
<1>2. GwFrame(t, NoKey, 0, s, TRUE) \in InFrame
  <2>1. t \in InTypes /\ s \in Nat
    BY DEF InTypes, Sessions
  <2> QED
    BY <2>1, NoKeyType, GwFrameTypes
<1>3. UNCHANGED <<device, gateway, out, rIn>>
  BY DEF GwStrays
<1>4. in' \in [Sessions -> Seq(InFrame)] /\ InUse'
  BY <1>1, <1>2, <1>3, SayKeeps
<1>5. faults' \in 0 .. MaxFault
  BY BoundsAssumption DEF TypeInv, TypeOK, GwStrays, Fault
<1> QED
  BY <1>3, <1>4, <1>5 DEF TypeInv, TypeOK, device, locals, gateway

\* What a disconnection leaves of a log: at least what was read, in place.
LEMMA CutTypes ==
  ASSUME TypeInv, NEW s \in Sessions, Disconnect(s)
  PROVE  /\ in' \in [Sessions -> Seq(InFrame)]
         /\ \A t \in Sessions : \A i \in 1 .. rIn[t] :
              i <= Len(in[t]) => i <= Len(in'[t]) /\ in'[t][i] = in[t][i]
         /\ \A t \in Sessions : \A i \in 1 .. Len(in'[t]) :
              in'[t][i].type # "cut" => /\ i \in 1 .. Len(in[t]) /\ in'[t][i] = in[t][i]
                                        /\ \A h \in 1 .. i : in'[t][h] = in[t][h]
<1> DEFINE c == GwFrame("cut", NoKey, 0, 0, FALSE)
<1>1. PICK n \in rIn[s] .. Len(in[s]) :
        \/ in' = [in EXCEPT ![s] = SubSeq(@, 1, n)]
        \/ in' = [in EXCEPT ![s] = Append(SubSeq(@, 1, n), c)]
  BY DEF Disconnect
<1>2. in[s] \in Seq(InFrame) /\ rIn[s] \in Nat /\ n \in 0 .. Len(in[s])
  BY DEF TypeInv, TypeOK
<1>3. /\ SubSeq(in[s], 1, n) \in Seq(InFrame)
      /\ Len(SubSeq(in[s], 1, n)) = n
      /\ \A i \in 1 .. n : SubSeq(in[s], 1, n)[i] = in[s][i]
  BY <1>2, PrefixFacts
<1>4. c \in InFrame /\ c.type = "cut"
  BY NoKeyType, GwFrameTypes DEF InTypes, GwFrame
<1> HIDE DEF c
<1>5. /\ Append(SubSeq(in[s], 1, n), c) \in Seq(InFrame)
      /\ Len(Append(SubSeq(in[s], 1, n), c)) = n + 1
      /\ \A i \in 1 .. n : Append(SubSeq(in[s], 1, n), c)[i] = in[s][i]
      /\ Append(SubSeq(in[s], 1, n), c)[n + 1] = c
  <2> DEFINE p == SubSeq(in[s], 1, n)
  <2>1. p \in Seq(InFrame) /\ Len(p) = n /\ \A i \in 1 .. n : p[i] = in[s][i]
    BY <1>3
  <2> HIDE DEF p
  <2>2. /\ Append(p, c) \in Seq(InFrame) /\ Len(Append(p, c)) = Len(p) + 1
        /\ \A i \in 1 .. Len(p) : Append(p, c)[i] = p[i]
        /\ Append(p, c)[Len(p) + 1] = c
    BY <1>4, <2>1, AppendFacts
  <2> QED
    BY <2>1, <2>2 DEF p
<1>6. PICK q \in Seq(InFrame) :
        /\ in' = [in EXCEPT ![s] = q] /\ Len(q) >= n
        /\ \A i \in 1 .. n : q[i] = in[s][i]
        /\ \A i \in 1 .. Len(q) : i \in 1 .. n \/ q[i].type = "cut"
  <2>1. CASE in' = [in EXCEPT ![s] = SubSeq(@, 1, n)]
    <3>1. Len(SubSeq(in[s], 1, n)) >= n
      BY <1>2, <1>3
    <3>2. \A i \in 1 .. Len(SubSeq(in[s], 1, n)) : i \in 1 .. n
      BY <1>3
    <3> QED
      BY <2>1, <3>1, <3>2, <1>3, Zenon
  <2>2. CASE in' = [in EXCEPT ![s] = Append(SubSeq(@, 1, n), c)]
    <3>1. Len(Append(SubSeq(in[s], 1, n), c)) >= n
      BY <1>2, <1>5
    <3>2. \A i \in 1 .. Len(Append(SubSeq(in[s], 1, n), c)) :
            i \in 1 .. n \/ Append(SubSeq(in[s], 1, n), c)[i].type = "cut"
      <4> SUFFICES ASSUME NEW i \in 1 .. Len(Append(SubSeq(in[s], 1, n), c)), i \notin 1 .. n
                   PROVE  Append(SubSeq(in[s], 1, n), c)[i].type = "cut"
        OBVIOUS
      <4>1. i = n + 1
        BY <1>2, <1>5
      <4> QED
        BY <4>1, <1>4, <1>5
    <3> QED
      BY <2>2, <3>1, <3>2, <1>5, Zenon
  <2> QED
    BY <1>1, <2>1, <2>2
<1>7. in \in [Sessions -> Seq(InFrame)]
  BY DEF TypeInv, TypeOK
<1>8. ASSUME NEW t \in Sessions, NEW i \in 1 .. rIn[t], i <= Len(in[t])
      PROVE  i <= Len(in'[t]) /\ in'[t][i] = in[t][i]
  <2>1. CASE t = s
    BY <2>1, <1>2, <1>6, <1>7, <1>8
  <2>2. CASE t # s
    BY <2>2, <1>6, <1>7, <1>8
  <2> QED
    BY <2>1, <2>2
<1>9. ASSUME NEW t \in Sessions, NEW i \in 1 .. Len(in'[t]), in'[t][i].type # "cut"
      PROVE  /\ i \in 1 .. Len(in[t]) /\ in'[t][i] = in[t][i]
             /\ \A h \in 1 .. i : in'[t][h] = in[t][h]
  <2>1. CASE t = s
    <3>1. in'[t] = q /\ i \in 1 .. n
      BY <2>1, <1>6, <1>7, <1>9
    <3>2. \A h \in 1 .. i : h \in 1 .. n
      BY <1>2, <3>1
    <3> QED
      BY <2>1, <1>2, <1>6, <3>1, <3>2
  <2>2. CASE t # s
    BY <2>2, <1>6, <1>7, <1>9
  <2> QED
    BY <2>1, <2>2
<1>10. in' \in [Sessions -> Seq(InFrame)]
  BY <1>6, <1>7
<1> QED
  BY <1>8, <1>9, <1>10

LEMMA DisconnectTypes ==
  ASSUME TypeInv, NEW s \in Sessions, Disconnect(s)
  PROVE  TypeInv'
<1>1. UNCHANGED <<device, rIn>> /\ UNCHANGED <<rOut, phase, gwKey, out>>
  BY DEF Disconnect
<1>2. in' \in [Sessions -> Seq(InFrame)] /\ InUse'
  BY <1>1, CutTypes, InUseKept
<1>3. faults' \in 0 .. MaxFault /\ shut' \subseteq Sessions
  BY BoundsAssumption DEF TypeInv, TypeOK, Disconnect, Fault
<1> QED
  BY <1>1, <1>2, <1>3 DEF TypeInv, TypeOK, device, locals

-----------------------------------------------------------------------------
(* The theorem.                                                            *)

LEMMA NextTypeInv == TypeInv /\ [Next]_vars => TypeInv'
<1> SUFFICES ASSUME TypeInv, [Next]_vars PROVE TypeInv'
  OBVIOUS
<1>1. CASE Start \/ Collect
  BY <1>1, StartTypes
<1>2. CASE Connect
  BY <1>2, ConnectTypes
<1>3. CASE ConnectFails \/ BuildError
  BY <1>3, BuildFailsTypes
<1>4. CASE RecvKeyngack
  BY <1>4, RecvKeyngackTypes
<1>5. CASE RecvDh \/ RecvShortDh
  <2>1. NoFault \/ Fault
    BY <1>5 DEF RecvDh, RecvShortDh
  <2>2. faults' \in 0 .. MaxFault
    BY <2>1, BoundsAssumption DEF TypeInv, TypeOK, NoFault, Fault
  <2>3. \E x \in BOOLEAN : Derive(x)
    BY <1>5, Zenon DEF RecvDh, RecvShortDh
  <2> QED
    BY <2>2, <2>3, DeriveTypes
<1>6. CASE RegIgnores \/ RegError
  BY <1>6, RegOtherTypes
<1>7. CASE KeepAlive \/ RecvFails \/ TimesOut
  BY <1>7, WaitTypes
<1>8. CASE RecvRun \/ RunError \/ ReportError
  BY <1>8, RecvRunTypes
<1>9. CASE Apply \/ ApplyError
  BY <1>9, ApplyTypes
<1>10. CASE Answer
  BY <1>10, AnswerStepTypes
<1>11. CASE \E s \in Sessions : GwRecv(s)
  BY <1>11, GwRecvTypes
<1>12. CASE \E s \in Sessions : GwCommand(s) \/ GwBadCommand(s)
  BY <1>12, GwIssuesTypes
<1>13. CASE \E s \in Sessions : GwSeesClose(s) \/ GwStrays(s)
  BY <1>13, GwSeesCloseTypes, GwStraysTypes
<1>14. CASE \E s \in Sessions : Disconnect(s)
  BY <1>14, DisconnectTypes
<1>15. CASE UNCHANGED vars
  BY <1>15 DEF TypeInv, TypeOK, InUse, Command, vars, device, locals, gateway
<1> QED
  BY <1>1, <1>2, <1>3, <1>4, <1>5, <1>6, <1>7, <1>8, <1>9, <1>10, <1>11, <1>12, <1>13, <1>14, <1>15
  DEF Next, DeviceStep, GatewayStep, FaultStep, Idle

\* Every reachable state is one the types describe: in particular no handler
\* looks for a command where none was read, and no connection is numbered
\* beyond those that were opened.
THEOREM TypeCorrect == Spec => []TypeOK
<1>1. Spec => []TypeInv
  BY InitTypeInv, NextTypeInv, PTL DEF Spec
<1>2. TypeInv => TypeOK
  BY DEF TypeInv
<1> QED
  BY <1>1, <1>2, PTL

-----------------------------------------------------------------------------
(***************************************************************************)
(* Key agreement.  KeysAgree is not inductive: that two logs hold the same *)
(* secret says nothing of how they came to.  KeyInv follows the secret:    *)
(* a dh frame on a connection was asked for on that connection; if it was  *)
(* asked for once, there is one dh frame, and privkey is its private key   *)
(* until dev_reg goes out; and the gateway's key comes from such a frame.  *)
(***************************************************************************)

DhAt(s, i)  == out[s][i].type = "dh"
RegAt(s, i) == out[s][i].type = "dev_reg"

\* Nothing was sent on a connection that is not open yet.
Unopened == \A s \in Sessions : s > sid => out[s] = <<>>

Reading == \A s \in Sessions : rIn[s] <= Len(in[s])

NotRegistered == pc = "reg" => \A i \in 1 .. Len(out[sid]) : ~RegAt(sid, i)

KeyAsked ==
  \A s \in Sessions : \A i \in 1 .. Len(out[s]) :
    DhAt(s, i) => \E j \in 1 .. rIn[s] : in[s][j].type = "keyngack"

OneDh ==
  \A s \in Sessions : OneKeyngack(s) =>
    \A i, j \in 1 .. Len(out[s]) : DhAt(s, i) /\ DhAt(s, j) => i = j

KeyInHand ==
  pc = "reg" /\ OneKeyngack(sid) =>
    \A i \in 1 .. Len(out[sid]) : DhAt(sid, i) => privkey = out[sid][i].pub

GwDh ==
  \A s \in Sessions : \A i \in 1 .. Len(in[s]) : in[s][i].type = "dh" => in[s][i].pub = s

RegKey ==
  \A s \in Sessions : \A j \in 1 .. Len(out[s]) :
    RegAt(s, j) => out[s][j].key.gw = s

RegDev ==
  \A s \in Sessions : OneKeyngack(s) =>
    \A i, j \in 1 .. Len(out[s]) :
      RegAt(s, j) /\ DhAt(s, i) => out[s][j].key.dev = out[s][i].pub

GwKeyOrigin ==
  \A s \in Sessions : phase[s] \in {"keyed", "registered"} =>
    /\ gwKey[s].gw = s /\ gwKey[s].exact = TRUE
    /\ \E i \in 1 .. Len(out[s]) : DhAt(s, i) /\ out[s][i].pub = gwKey[s].dev

KeyInv ==
  /\ Unopened /\ Reading /\ NotRegistered /\ KeyAsked /\ OneDh /\ KeyInHand
  /\ GwDh /\ RegKey /\ RegDev /\ GwKeyOrigin

LEMMA InitKeyInv == Init => KeyInv
<1> SUFFICES ASSUME Init PROVE KeyInv
  OBVIOUS
<1>1. \A s \in Sessions : /\ out[s] = <<>> /\ in[s] = <<>> /\ rIn[s] = 0 /\ phase[s] = "new"
  BY DEF Init
<1>2. pc = "dead"
  BY DEF Init
<1> QED
  BY <1>1, <1>2 DEF KeyInv, Unopened, Reading, NotRegistered, KeyAsked, OneDh, KeyInHand,
     GwDh, RegKey, RegDev, GwKeyOrigin

\* A step that sends no dh and no dev_reg, ...
Quiet ==
  \A t \in Sessions :
    /\ \A i \in 1 .. Len(out[t]) : i \in 1 .. Len(out'[t]) /\ out'[t][i] = out[t][i]
    /\ \A i \in 1 .. Len(out'[t]) :
         out'[t][i].type \in {"dh", "dev_reg"} => i \in 1 .. Len(out[t])
    /\ t > sid => out'[t] = out[t]

\* ... and forgets nothing of what was read.
ReadsOn ==
  \A t \in Sessions :
    /\ rIn[t] <= rIn'[t] /\ rIn'[t] <= Len(in'[t])
    /\ \A i \in 1 .. rIn[t] : in'[t][i] = in[t][i]

LEMMA OneKeyngackBefore ==
  ASSUME TypeInv, TypeInv', ReadsOn, NEW s \in Sessions, OneKeyngack(s)'
  PROVE  OneKeyngack(s)
<1>1. rIn[s] \in Nat /\ rIn'[s] \in Nat /\ rIn[s] <= rIn'[s]
  BY DEF TypeInv, TypeOK, ReadsOn
<1>2. \A i \in 1 .. rIn[s] : i \in 1 .. rIn'[s] /\ in'[s][i] = in[s][i]
  BY <1>1 DEF ReadsOn
<1> QED
  BY <1>2 DEF OneKeyngack

LEMMA QuietKeyInv ==
  ASSUME TypeInv, TypeInv', KeyInv, Quiet, ReadsOn, GwDh', GwKeyOrigin',
         sid' = sid, pc' = "reg" => pc = "reg" /\ privkey' = privkey
  PROVE  KeyInv'
<1>1. Unopened'
  BY DEF KeyInv, Unopened, Quiet
<1>2. Reading'
  BY DEF Reading, ReadsOn
<1>3. \A s \in Sessions : rIn[s] \in Nat /\ rIn'[s] \in Nat
  BY DEF TypeInv, TypeOK
<1>4. pc' = "reg" => pc = "reg" /\ sid \in Sessions
  BY DEF TypeInv, InUse
<1>5. NotRegistered'
  BY <1>4 DEF KeyInv, NotRegistered, RegAt, Quiet
<1>6. KeyAsked'
  <2> SUFFICES ASSUME NEW s \in Sessions, NEW i \in 1 .. Len(out'[s]), DhAt(s, i)'
               PROVE  \E j \in 1 .. rIn'[s] : in'[s][j].type = "keyngack"
    BY DEF KeyAsked
  <2>1. i \in 1 .. Len(out[s]) /\ DhAt(s, i)
    BY DEF Quiet, DhAt
  <2>2. PICK j \in 1 .. rIn[s] : in[s][j].type = "keyngack"
    BY <2>1 DEF KeyInv, KeyAsked
  <2>3. j \in 1 .. rIn'[s] /\ in'[s][j] = in[s][j]
    BY <1>3, <2>2 DEF ReadsOn
  <2> QED
    BY <2>2, <2>3
<1>7. OneDh'
  <2> SUFFICES ASSUME NEW s \in Sessions, OneKeyngack(s)',
                      NEW i \in 1 .. Len(out'[s]), NEW j \in 1 .. Len(out'[s]),
                      DhAt(s, i)', DhAt(s, j)'
               PROVE  i = j
    BY DEF OneDh
  <2>1. OneKeyngack(s)
    BY OneKeyngackBefore
  <2>2. i \in 1 .. Len(out[s]) /\ DhAt(s, i) /\ j \in 1 .. Len(out[s]) /\ DhAt(s, j)
    BY DEF Quiet, DhAt
  <2> QED
    BY <2>1, <2>2 DEF KeyInv, OneDh
<1>8. KeyInHand'
  <2> SUFFICES ASSUME pc' = "reg", OneKeyngack(sid)', NEW i \in 1 .. Len(out'[sid]), DhAt(sid, i)'
               PROVE  privkey' = out'[sid][i].pub
    BY DEF KeyInHand, OneKeyngack, DhAt
  <2>1. OneKeyngack(sid)
    BY <1>4, OneKeyngackBefore
  <2>2. i \in 1 .. Len(out[sid]) /\ DhAt(sid, i) /\ out'[sid][i] = out[sid][i]
    BY <1>4 DEF Quiet, DhAt
  <2> QED
    BY <1>4, <2>1, <2>2 DEF KeyInv, KeyInHand
<1>9. RegKey'
  BY DEF KeyInv, RegKey, RegAt, Quiet
<1>10. RegDev'
  <2> SUFFICES ASSUME NEW s \in Sessions, OneKeyngack(s)',
                      NEW i \in 1 .. Len(out'[s]), NEW j \in 1 .. Len(out'[s]),
                      RegAt(s, j)', DhAt(s, i)'
               PROVE  out'[s][j].key.dev = out'[s][i].pub
    BY DEF RegDev
  <2>1. OneKeyngack(s)
    BY OneKeyngackBefore
  <2>2. /\ i \in 1 .. Len(out[s]) /\ DhAt(s, i) /\ out'[s][i] = out[s][i]
        /\ j \in 1 .. Len(out[s]) /\ RegAt(s, j) /\ out'[s][j] = out[s][j]
    BY DEF Quiet, DhAt, RegAt
  <2> QED
    BY <2>1, <2>2 DEF KeyInv, RegDev
<1> QED
  BY <1>1, <1>2, <1>5, <1>6, <1>7, <1>8, <1>9, <1>10 DEF KeyInv

\* A log that gains one frame keeps the rest.
LEMMA SendShape ==
  ASSUME TypeInv, NEW s \in Sessions, NEW f \in OutFrame, Send(s, f)
  PROVE  /\ \A t \in Sessions : t # s => out'[t] = out[t]
         /\ Len(out[s]) \in Nat /\ Len(out'[s]) = Len(out[s]) + 1
         /\ \A i \in 1 .. Len(out[s]) : out'[s][i] = out[s][i]
         /\ out'[s][Len(out[s]) + 1] = f
<1>1. out[s] \in Seq(OutFrame)
  BY DEF TypeInv, TypeOK
<1>2. out'[s] = Append(out[s], f) /\ \A t \in Sessions : t # s => out'[t] = out[t]
  BY DEF TypeInv, TypeOK, Send
<1> QED
  BY <1>1, <1>2, AppendFacts

LEMMA SendQuiet ==
  ASSUME TypeInv, sid \in Sessions, NEW f \in OutFrame, Send(sid, f),
         f.type \notin {"dh", "dev_reg"}
  PROVE  Quiet
<1>1. /\ \A t \in Sessions : t # sid => out'[t] = out[t]
      /\ Len(out[sid]) \in Nat /\ Len(out'[sid]) = Len(out[sid]) + 1
      /\ \A i \in 1 .. Len(out[sid]) : out'[sid][i] = out[sid][i]
      /\ out'[sid][Len(out[sid]) + 1] = f
  BY SendShape
<1>2. \A t \in Sessions : t > sid => t # sid
  BY DEF Sessions
<1> QED
  BY <1>1, <1>2 DEF Quiet

LEMMA SilentQuiet == ASSUME UNCHANGED out PROVE Quiet
  BY DEF Quiet

\* Reading one frame, or none, forgets nothing.
LEMMA ReadReadsOn ==
  ASSUME TypeInv, KeyInv, UNCHANGED in,
         (sid \in Sessions /\ Readable /\ Read) \/ UNCHANGED rIn
  PROVE  ReadsOn
<1>1. \A t \in Sessions : rIn[t] \in Nat /\ rIn[t] <= Len(in[t]) /\ Len(in[t]) \in Nat
  BY DEF TypeInv, TypeOK, KeyInv, Reading
<1>2. CASE sid \in Sessions /\ Readable /\ Read
  BY <1>1, <1>2 DEF ReadsOn, Readable, Read, TypeInv, TypeOK
<1>3. CASE UNCHANGED rIn
  BY <1>1, <1>3 DEF ReadsOn
<1> QED
  BY <1>2, <1>3

\* What the gateway derived stays explained while it does nothing.
LEMMA GatewayKept ==
  ASSUME TypeInv, KeyInv, UNCHANGED <<phase, gwKey>>, Quiet
  PROVE  GwKeyOrigin'
<1> SUFFICES ASSUME NEW s \in Sessions, phase[s] \in {"keyed", "registered"}
             PROVE  /\ gwKey[s].gw = s /\ gwKey[s].exact = TRUE
                    /\ \E i \in 1 .. Len(out'[s]) : DhAt(s, i)' /\ out'[s][i].pub = gwKey[s].dev
  BY DEF GwKeyOrigin
<1>1. gwKey[s].gw = s /\ gwKey[s].exact = TRUE
  BY DEF KeyInv, GwKeyOrigin
<1>2. PICK i \in 1 .. Len(out[s]) : DhAt(s, i) /\ out[s][i].pub = gwKey[s].dev
  BY DEF KeyInv, GwKeyOrigin
<1>3. i \in 1 .. Len(out'[s]) /\ out'[s][i] = out[s][i]
  BY DEF Quiet
<1> QED
  BY <1>1, <1>2, <1>3 DEF DhAt

\* The agent's steps that send neither a dh nor a dev_reg.
LEMMA AgentQuietStep ==
  ASSUME TypeInv, TypeInv', KeyInv, Quiet, UNCHANGED <<sid, in, phase, gwKey>>,
         (sid \in Sessions /\ Readable /\ Read) \/ UNCHANGED rIn,
         pc' = "reg" => pc = "reg" /\ privkey' = privkey
  PROVE  KeyInv'
<1>1. ReadsOn
  BY ReadReadsOn
<1>2. GwKeyOrigin'
  BY GatewayKept
<1>3. GwDh'
  BY DEF KeyInv, GwDh
<1> QED
  BY <1>1, <1>2, <1>3, QuietKeyInv

LEMMA SilentStepsKeyInv ==
  ASSUME TypeInv, TypeInv', KeyInv,
         \/ Start \/ Collect \/ ConnectFails \/ BuildError \/ RegIgnores \/ RegError
         \/ RecvFails \/ TimesOut \/ RunError \/ ReportError \/ Apply \/ ApplyError
  PROVE  KeyInv'
<1>1. UNCHANGED <<sid, in, phase, gwKey, out>>
  BY DEF Start, Collect, ConnectFails, BuildError, RegIgnores, RegError, RecvFails, TimesOut,
         RunError, ReportError, Apply, ApplyError, Die, EndSession, gateway, device, locals
<1>2. (sid \in Sessions /\ Readable /\ Read) \/ UNCHANGED rIn
  BY DEF TypeInv, InUse, Start, Collect, ConnectFails, BuildError, RegIgnores, RegError, RecvFails,
         TimesOut, RunError, ReportError, Apply, ApplyError, InReg, gateway
<1>3. pc' = "reg" => pc = "reg" /\ privkey' = privkey
  BY DEF Start, Collect, ConnectFails, BuildError, RegIgnores, RegError, RecvFails, TimesOut,
         RunError, ReportError, Apply, ApplyError, Die, EndSession, device, locals
<1> QED
  BY <1>1, <1>2, <1>3, SilentQuiet, AgentQuietStep

LEMMA KeepAliveKeyInv ==
  ASSUME TypeInv, TypeInv', KeyInv, KeepAlive
  PROVE  KeyInv'
<1>1. sid \in Sessions
  BY DEF TypeInv, InUse, KeepAlive, Waiting
<1>2. Sealed("keepalive", sequence) \in OutFrame
  BY FrameTypes DEF TypeInv, TypeOK, OutTypes
<1>3. Sealed("keepalive", sequence).type \notin {"dh", "dev_reg"}
  BY DEF Sealed
<1>4. Quiet
  BY <1>1, <1>2, <1>3, SendQuiet DEF KeepAlive
<1>5. UNCHANGED <<sid, in, phase, gwKey, rIn, pc, privkey>>
  BY DEF KeepAlive, gateway
<1> QED
  BY <1>4, <1>5, AgentQuietStep

LEMMA RecvRunKeyInv ==
  ASSUME TypeInv, TypeInv', KeyInv, RecvRun
  PROVE  KeyInv'
<1>1. sid \in Sessions /\ Readable /\ Read
  BY DEF TypeInv, InUse, RecvRun
<1>2. Sealed("dev_report", sequence) \in OutFrame
  BY FrameTypes DEF TypeInv, TypeOK, OutTypes
<1>3. Sealed("dev_report", sequence).type \notin {"dh", "dev_reg"}
  BY DEF Sealed
<1>4. Quiet
  BY <1>1, <1>2, <1>3, SendQuiet DEF RecvRun
<1>5. UNCHANGED <<sid, in, phase, gwKey>> /\ pc' # "reg"
  BY DEF RecvRun, gateway
<1> QED
  BY <1>1, <1>4, <1>5, AgentQuietStep

LEMMA AnswerKeyInv ==
  ASSUME TypeInv, TypeInv', KeyInv, Answer
  PROVE  KeyInv'
<1>1. sid \in Sessions /\ Command \in InFrame /\ Command.type \in CmdTypes
  BY DEF TypeInv, TypeOK, InUse, Answer, Command
<1>2. AnswerTo(Command) \in OutFrame /\ AnswerTo(Command).type \notin {"dh", "dev_reg"}
  BY <1>1, AnswerToType DEF AnswerTypes
<1>3. Quiet
  BY <1>1, <1>2, SendQuiet, SilentQuiet DEF Answer
<1>4. UNCHANGED <<sid, in, phase, gwKey, rIn>> /\ pc' # "reg"
  BY DEF Answer, gateway
<1> QED
  BY <1>3, <1>4, AgentQuietStep

LEMMA ConnectKeyInv ==
  ASSUME TypeInv, TypeInv', KeyInv, Connect
  PROVE  KeyInv'
<1> DEFINE n == sid + 1
<1>1. n \in Sessions /\ sid \in Nat /\ n > sid /\ sid' = n /\ pc' = "reg"
  BY BoundsAssumption DEF TypeInv, TypeOK, Connect, Sessions, MaxSession
<1>2. UNCHANGED <<in, rIn, phase, gwKey>>
  BY DEF Connect, gateway
<1>3. Plain("keyngreq", sequence, 0) \in OutFrame
  BY FrameTypes DEF TypeInv, TypeOK, OutTypes
<1>4. out[n] = <<>> /\ Len(out[n]) = 0
  BY <1>1 DEF KeyInv, Unopened
<1>5. /\ \A t \in Sessions : t # n => out'[t] = out[t]
      /\ Len(out'[n]) = 1 /\ out'[n][1].type = "keyngreq"
  <2> DEFINE f == Plain("keyngreq", sequence, 0)
  <2>1. f \in OutFrame /\ f.type = "keyngreq" /\ Send(n, f)
    BY <1>3 DEF Connect, Plain
  <2> HIDE DEF f, n
  <2>2. /\ \A t \in Sessions : t # n => out'[t] = out[t]
        /\ Len(out[n]) \in Nat /\ Len(out'[n]) = Len(out[n]) + 1
        /\ out'[n][Len(out[n]) + 1] = f
    BY <1>1, <2>1, SendShape
  <2> QED
    BY <1>4, <2>1, <2>2
<1> HIDE DEF n
<1>6. \A i \in 1 .. Len(out'[n]) : out'[n][i].type = "keyngreq"
  BY <1>5
<1>7. Unopened' /\ Reading'
  BY <1>1, <1>2, <1>5 DEF KeyInv, Unopened, Reading, Sessions
<1>8. NotRegistered' /\ KeyInHand'
  BY <1>1, <1>6 DEF NotRegistered, KeyInHand, RegAt, DhAt
<1>9. KeyAsked'
  <2> SUFFICES ASSUME NEW s \in Sessions, NEW i \in 1 .. Len(out'[s]), DhAt(s, i)'
               PROVE  \E j \in 1 .. rIn[s] : in[s][j].type = "keyngack"
    BY <1>2 DEF KeyAsked
  <2>1. s # n
    BY <1>6 DEF DhAt
  <2> QED
    BY <2>1, <1>5 DEF KeyInv, KeyAsked, DhAt
<1>10. \A s \in Sessions : OneKeyngack(s)' => OneKeyngack(s)
  BY <1>2 DEF OneKeyngack
<1>11. OneDh'
  <2> SUFFICES ASSUME NEW s \in Sessions, OneKeyngack(s),
                      NEW i \in 1 .. Len(out'[s]), NEW j \in 1 .. Len(out'[s]),
                      DhAt(s, i)', DhAt(s, j)'
               PROVE  i = j
    BY <1>10 DEF OneDh
  <2>1. s # n
    BY <1>6 DEF DhAt
  <2> QED
    BY <2>1, <1>5 DEF KeyInv, OneDh, DhAt
<1>12. RegKey'
  <2> SUFFICES ASSUME NEW s \in Sessions, NEW j \in 1 .. Len(out'[s]), RegAt(s, j)'
               PROVE  out'[s][j].key.gw = s
    BY DEF RegKey
  <2>1. s # n
    BY <1>6 DEF RegAt
  <2> QED
    BY <2>1, <1>5 DEF KeyInv, RegKey, RegAt
<1>13. RegDev'
  <2> SUFFICES ASSUME NEW s \in Sessions, OneKeyngack(s),
                      NEW i \in 1 .. Len(out'[s]), NEW j \in 1 .. Len(out'[s]),
                      RegAt(s, j)', DhAt(s, i)'
               PROVE  out'[s][j].key.dev = out'[s][i].pub
    BY <1>10 DEF RegDev
  <2>1. s # n
    BY <1>6 DEF DhAt
  <2> QED
    BY <2>1, <1>5 DEF KeyInv, RegDev, DhAt, RegAt
<1>14. GwKeyOrigin'
  <2> SUFFICES ASSUME NEW s \in Sessions, phase[s] \in {"keyed", "registered"}
               PROVE  /\ gwKey[s].gw = s /\ gwKey[s].exact = TRUE
                      /\ \E i \in 1 .. Len(out'[s]) : DhAt(s, i)' /\ out'[s][i].pub = gwKey[s].dev
    BY <1>2 DEF GwKeyOrigin
  <2>1. /\ gwKey[s].gw = s /\ gwKey[s].exact = TRUE
        /\ \E i \in 1 .. Len(out[s]) : DhAt(s, i) /\ out[s][i].pub = gwKey[s].dev
    BY DEF KeyInv, GwKeyOrigin
  <2>2. s # n
    BY <2>1, <1>4
  <2> QED
    BY <2>1, <2>2, <1>5 DEF DhAt
<1>15. GwDh'
  BY <1>2 DEF KeyInv, GwDh
<1> QED
  BY <1>7, <1>8, <1>9, <1>11, <1>12, <1>13, <1>14, <1>15 DEF KeyInv

\* Of a step that sends one frame on the connection in use: what it leaves.
LEMMA SentLast ==
  ASSUME TypeInv, sid \in Sessions, NEW f \in OutFrame, Send(sid, f)
  PROVE  \E last \in Nat :
           /\ 1 .. Len(out'[sid]) = (1 .. Len(out[sid])) \cup {last}
           /\ last \notin 1 .. Len(out[sid])
           /\ out'[sid][last] = f
           /\ \A i \in 1 .. Len(out[sid]) : out'[sid][i] = out[sid][i]
           /\ \A t \in Sessions : t # sid => out'[t] = out[t]
<1>1. /\ \A t \in Sessions : t # sid => out'[t] = out[t]
      /\ Len(out[sid]) \in Nat /\ Len(out'[sid]) = Len(out[sid]) + 1
      /\ \A i \in 1 .. Len(out[sid]) : out'[sid][i] = out[sid][i]
      /\ out'[sid][Len(out[sid]) + 1] = f
  BY SendShape
<1>2. WITNESS Len(out[sid]) + 1 \in Nat
<1>3. 1 .. Len(out'[sid]) = (1 .. Len(out[sid])) \cup {Len(out[sid]) + 1}
  BY <1>1
<1> QED
  BY <1>1, <1>3

LEMMA RecvKeyngackKeyInv ==
  ASSUME TypeInv, TypeInv', KeyInv, RecvKeyngack
  PROVE  KeyInv'
<1> DEFINE f == Plain("dh", sequence, gen + 1)
<1>1. /\ sid \in Sessions /\ Readable /\ Read /\ pc = "reg"
      /\ Pending.type = "keyngack" /\ privkey' = gen + 1 /\ Send(sid, f)
      /\ UNCHANGED <<pc, sid, in, phase, gwKey>>
  BY DEF TypeInv, InUse, RecvKeyngack, InReg, gateway
<1>2. f \in OutFrame /\ f.type = "dh" /\ f.pub = gen + 1
  BY FrameTypes DEF TypeInv, TypeOK, OutTypes, Plain
<1> HIDE DEF f
<1>3. PICK last \in Nat :
        /\ 1 .. Len(out'[sid]) = (1 .. Len(out[sid])) \cup {last}
        /\ last \notin 1 .. Len(out[sid])
        /\ out'[sid][last] = f
        /\ \A i \in 1 .. Len(out[sid]) : out'[sid][i] = out[sid][i]
        /\ \A t \in Sessions : t # sid => out'[t] = out[t]
  BY <1>1, <1>2, SentLast
<1>4. ReadsOn
  BY <1>1, ReadReadsOn
<1>5. /\ rIn[sid] \in Nat /\ rIn'[sid] = rIn[sid] + 1 /\ in'[sid][rIn[sid] + 1].type = "keyngack"
      /\ \A t \in Sessions : t # sid => rIn'[t] = rIn[t]
  BY <1>1 DEF TypeInv, TypeOK, Read, Pending
<1>6. Unopened' /\ Reading' /\ GwDh'
  BY <1>1, <1>3, <1>4 DEF KeyInv, Unopened, Reading, ReadsOn, GwDh, Sessions
<1>7. NotRegistered'
  BY <1>1, <1>2, <1>3 DEF KeyInv, NotRegistered, RegAt
<1>8. KeyAsked'
  <2> SUFFICES ASSUME NEW s \in Sessions, NEW i \in 1 .. Len(out'[s]), DhAt(s, i)'
               PROVE  \E j \in 1 .. rIn'[s] : in'[s][j].type = "keyngack"
    BY DEF KeyAsked
  <2>1. CASE s = sid
    BY <2>1, <1>5
  <2>2. CASE s # sid
    BY <2>2, <1>1, <1>3, <1>5 DEF KeyInv, KeyAsked, DhAt
  <2> QED
    BY <2>1, <2>2
<1>9. \A s \in Sessions : OneKeyngack(s)' => OneKeyngack(s)
  BY <1>4, OneKeyngackBefore
<1>10. OneKeyngack(sid)' => \A i \in 1 .. Len(out[sid]) : ~DhAt(sid, i)
  <2> SUFFICES ASSUME OneKeyngack(sid)', NEW i \in 1 .. Len(out[sid]), DhAt(sid, i)
               PROVE  FALSE
    OBVIOUS
  <2>1. PICK j \in 1 .. rIn[sid] : in[sid][j].type = "keyngack"
    BY <1>1 DEF KeyInv, KeyAsked
  <2>2. j \in 1 .. rIn'[sid] /\ rIn[sid] + 1 \in 1 .. rIn'[sid] /\ j # rIn[sid] + 1
    BY <2>1, <1>5
  <2>3. in'[sid][j].type = "keyngack"
    BY <2>1, <1>1
  <2> QED
    BY <2>2, <2>3, <1>1, <1>5 DEF OneKeyngack
<1>11. OneDh'
  <2> SUFFICES ASSUME NEW s \in Sessions, OneKeyngack(s)',
                      NEW i \in 1 .. Len(out'[s]), NEW j \in 1 .. Len(out'[s]),
                      DhAt(s, i)', DhAt(s, j)'
               PROVE  i = j
    BY DEF OneDh
  <2>1. CASE s = sid
    BY <2>1, <1>1, <1>3, <1>10 DEF DhAt
  <2>2. CASE s # sid
    BY <2>2, <1>3, <1>9 DEF KeyInv, OneDh, DhAt
  <2> QED
    BY <2>1, <2>2
<1>12. KeyInHand'
  <2> SUFFICES ASSUME OneKeyngack(sid)', NEW i \in 1 .. Len(out'[sid]), DhAt(sid, i)'
               PROVE  privkey' = out'[sid][i].pub
    BY <1>1 DEF KeyInHand, OneKeyngack, DhAt
  <2>1. i = last
    BY <1>1, <1>3, <1>10 DEF DhAt
  <2> QED
    BY <2>1, <1>1, <1>2, <1>3
<1>13. \A i \in 1 .. Len(out'[sid]) : ~RegAt(sid, i)'
  BY <1>1, <1>2, <1>3 DEF KeyInv, NotRegistered, RegAt
<1>14. RegKey'
  BY <1>1, <1>3, <1>13 DEF KeyInv, RegKey, RegAt
<1>15. RegDev'
  <2> SUFFICES ASSUME NEW s \in Sessions, OneKeyngack(s)',
                      NEW i \in 1 .. Len(out'[s]), NEW j \in 1 .. Len(out'[s]),
                      RegAt(s, j)', DhAt(s, i)'
               PROVE  out'[s][j].key.dev = out'[s][i].pub
    BY DEF RegDev
  <2>1. s # sid
    BY <1>1, <1>13 DEF RegAt
  <2> QED
    BY <2>1, <1>3, <1>9 DEF KeyInv, RegDev, DhAt, RegAt
<1>16. GwKeyOrigin'
  <2> SUFFICES ASSUME NEW s \in Sessions, phase[s] \in {"keyed", "registered"}
               PROVE  /\ gwKey[s].gw = s /\ gwKey[s].exact = TRUE
                      /\ \E i \in 1 .. Len(out'[s]) : DhAt(s, i)' /\ out'[s][i].pub = gwKey[s].dev
    BY <1>1 DEF GwKeyOrigin
  <2>1. gwKey[s].gw = s /\ gwKey[s].exact = TRUE
    BY DEF KeyInv, GwKeyOrigin
  <2>2. PICK i \in 1 .. Len(out[s]) : DhAt(s, i) /\ out[s][i].pub = gwKey[s].dev
    BY DEF KeyInv, GwKeyOrigin
  <2>3. i \in 1 .. Len(out'[s]) /\ out'[s][i] = out[s][i]
    BY <1>3
  <2> QED
    BY <2>1, <2>2, <2>3 DEF DhAt
<1> QED
  BY <1>6, <1>7, <1>8, <1>11, <1>12, <1>14, <1>15, <1>16 DEF KeyInv

LEMMA DeriveKeyInv ==
  ASSUME TypeInv, TypeInv', KeyInv, NEW x \in BOOLEAN, Derive(x)
  PROVE  KeyInv'
<1> DEFINE f == [type |-> "dev_reg", key |-> secret', num |-> sequence, pub |-> 0]
<1>1. /\ sid \in Sessions /\ Readable /\ Read /\ pc = "reg" /\ pc' = "run"
      /\ Pending.type = "dh" /\ Send(sid, f)
      /\ secret' = [dev |-> privkey, gw |-> Pending.pub, exact |-> x]
      /\ UNCHANGED <<sid, in, phase, gwKey>>
  BY DEF TypeInv, InUse, Derive, InReg, gateway
<1>2. f \in OutFrame
  BY DEF TypeInv, TypeOK, OutFrame, OutTypes
<1>3. f.type = "dev_reg" /\ f.key.dev = privkey /\ f.key.gw = Pending.pub
  BY <1>1
<1> HIDE DEF f
<1>4. PICK last \in Nat :
        /\ 1 .. Len(out'[sid]) = (1 .. Len(out[sid])) \cup {last}
        /\ last \notin 1 .. Len(out[sid])
        /\ out'[sid][last] = f
        /\ \A i \in 1 .. Len(out[sid]) : out'[sid][i] = out[sid][i]
        /\ \A t \in Sessions : t # sid => out'[t] = out[t]
  BY <1>1, <1>2, SentLast
<1>5. ReadsOn
  BY <1>1, ReadReadsOn
<1>6. \A s \in Sessions : OneKeyngack(s)' => OneKeyngack(s)
  BY <1>5, OneKeyngackBefore
<1>7. Pending.pub = sid
  <2>1. rIn[sid] + 1 \in 1 .. Len(in[sid])
    BY <1>1 DEF TypeInv, TypeOK, Readable
  <2> QED
    BY <1>1, <2>1 DEF KeyInv, GwDh, Pending
<1>8. Unopened' /\ Reading' /\ GwDh' /\ NotRegistered' /\ KeyInHand'
  BY <1>1, <1>4, <1>5
  DEF KeyInv, Unopened, Reading, ReadsOn, GwDh, NotRegistered, KeyInHand, Sessions
<1>9. \A s \in Sessions : \A i \in 1 .. Len(out'[s]) :
        DhAt(s, i)' => i \in 1 .. Len(out[s]) /\ DhAt(s, i) /\ out'[s][i] = out[s][i]
  BY <1>3, <1>4 DEF DhAt
<1>10. KeyAsked'
  <2> SUFFICES ASSUME NEW s \in Sessions, NEW i \in 1 .. Len(out'[s]), DhAt(s, i)'
               PROVE  \E j \in 1 .. rIn'[s] : in'[s][j].type = "keyngack"
    BY DEF KeyAsked
  <2>0. i \in 1 .. Len(out[s]) /\ DhAt(s, i)
    BY <1>9
  <2>1. PICK j \in 1 .. rIn[s] : in[s][j].type = "keyngack"
    BY <2>0 DEF KeyInv, KeyAsked
  <2>2. rIn[s] \in Nat /\ rIn'[s] \in Nat
    BY DEF TypeInv, TypeOK
  <2>3. j \in 1 .. rIn'[s] /\ in'[s][j] = in[s][j]
    BY <1>5, <2>2 DEF ReadsOn
  <2> QED
    BY <2>1, <2>3
<1>11. OneDh'
  BY <1>6, <1>9 DEF KeyInv, OneDh
<1>12. RegKey'
  <2> SUFFICES ASSUME NEW s \in Sessions, NEW j \in 1 .. Len(out'[s]), RegAt(s, j)'
               PROVE  out'[s][j].key.gw = s
    BY DEF RegKey
  <2>1. CASE s = sid /\ j = last
    BY <2>1, <1>3, <1>4, <1>7
  <2>2. CASE ~(s = sid /\ j = last)
    BY <2>2, <1>4 DEF KeyInv, RegKey, RegAt
  <2> QED
    BY <2>1, <2>2
<1>13. RegDev'
  <2> SUFFICES ASSUME NEW s \in Sessions, OneKeyngack(s)',
                      NEW i \in 1 .. Len(out'[s]), NEW j \in 1 .. Len(out'[s]),
                      RegAt(s, j)', DhAt(s, i)'
               PROVE  out'[s][j].key.dev = out'[s][i].pub
    BY DEF RegDev
  <2>1. OneKeyngack(s) /\ i \in 1 .. Len(out[s]) /\ DhAt(s, i) /\ out'[s][i] = out[s][i]
    BY <1>6, <1>9
  <2>2. CASE s = sid /\ j = last
    BY <2>1, <2>2, <1>1, <1>3, <1>4 DEF KeyInv, KeyInHand
  <2>3. CASE ~(s = sid /\ j = last)
    BY <2>1, <2>3, <1>4 DEF KeyInv, RegDev, RegAt
  <2> QED
    BY <2>2, <2>3
<1>14. GwKeyOrigin'
  <2> SUFFICES ASSUME NEW s \in Sessions, phase[s] \in {"keyed", "registered"}
               PROVE  /\ gwKey[s].gw = s /\ gwKey[s].exact = TRUE
                      /\ \E i \in 1 .. Len(out'[s]) : DhAt(s, i)' /\ out'[s][i].pub = gwKey[s].dev
    BY <1>1 DEF GwKeyOrigin
  <2>1. gwKey[s].gw = s /\ gwKey[s].exact = TRUE
    BY DEF KeyInv, GwKeyOrigin
  <2>2. PICK i \in 1 .. Len(out[s]) : DhAt(s, i) /\ out[s][i].pub = gwKey[s].dev
    BY DEF KeyInv, GwKeyOrigin
  <2>3. i \in 1 .. Len(out'[s]) /\ out'[s][i] = out[s][i]
    BY <1>4
  <2> QED
    BY <2>1, <2>2, <2>3 DEF DhAt
<1> QED
  BY <1>8, <1>10, <1>11, <1>12, <1>13, <1>14 DEF KeyInv

\* The gateway's steps leave what was read in place.
LEMMA GatewayReadsOn ==
  ASSUME TypeInv, TypeInv', KeyInv, UNCHANGED rIn,
         \A t \in Sessions : \A i \in 1 .. rIn[t] :
            i <= Len(in[t]) => i <= Len(in'[t]) /\ in'[t][i] = in[t][i]
  PROVE  ReadsOn
<1> SUFFICES ASSUME NEW t \in Sessions
             PROVE  /\ rIn[t] <= rIn[t] /\ rIn[t] <= Len(in'[t])
                    /\ \A i \in 1 .. rIn[t] : in'[t][i] = in[t][i]
  BY DEF ReadsOn
<1>1. rIn[t] \in Nat /\ rIn[t] <= Len(in[t]) /\ Len(in[t]) \in Nat /\ Len(in'[t]) \in Nat
  BY DEF TypeInv, TypeOK, KeyInv, Reading
<1>2. \A i \in 1 .. rIn[t] : i <= Len(in'[t]) /\ in'[t][i] = in[t][i]
  BY <1>1
<1> QED
  BY <1>1, <1>2

LEMMA SayReadsOn ==
  ASSUME TypeInv, TypeInv', KeyInv, UNCHANGED rIn,
         NEW s \in Sessions, NEW f \in InFrame, Say(s, f) \/ UNCHANGED in,
         f.type = "dh" => f.pub = s
  PROVE  ReadsOn /\ GwDh'
<1>1. CASE Say(s, f)
  <2>1. \A t \in Sessions : /\ Len(in[t]) \in Nat /\ Len(in'[t]) \in Nat
                            /\ Len(in'[t]) >= Len(in[t])
                            /\ \A i \in 1 .. Len(in[t]) : in'[t][i] = in[t][i]
    BY <1>1, SayTypes DEF TypeInv
  <2>2. ReadsOn
    <3>1. \A t \in Sessions : \A i \in 1 .. rIn[t] :
            i <= Len(in[t]) => i <= Len(in'[t]) /\ in'[t][i] = in[t][i]
      BY <2>1 DEF TypeInv, TypeOK
    <3> QED
      BY <3>1, GatewayReadsOn
  <2>3. /\ in'[s] = Append(in[s], f) /\ in[s] \in Seq(InFrame)
        /\ \A t \in Sessions : t # s => in'[t] = in[t]
    BY <1>1 DEF TypeInv, TypeOK, Say
  <2>4. /\ Len(in'[s]) = Len(in[s]) + 1 /\ in'[s][Len(in[s]) + 1] = f
    BY <2>3, AppendFacts
  <2>5. GwDh'
    <3> SUFFICES ASSUME NEW t \in Sessions, NEW i \in 1 .. Len(in'[t]), in'[t][i].type = "dh"
                 PROVE  in'[t][i].pub = t
      BY DEF GwDh
    <3>1. CASE t = s /\ i = Len(in[s]) + 1
      BY <3>1, <2>4
    <3>2. CASE ~(t = s /\ i = Len(in[s]) + 1)
      <4>1. i \in 1 .. Len(in[t])
        BY <3>2, <2>1, <2>3, <2>4
      <4> QED
        BY <4>1, <2>1 DEF KeyInv, GwDh
    <3> QED
      BY <3>1, <3>2
  <2> QED
    BY <2>2, <2>5
<1>2. CASE UNCHANGED in
  <2>1. ReadsOn
    BY <1>2, ReadReadsOn
  <2>2. GwDh'
    BY <1>2 DEF KeyInv, GwDh
  <2> QED
    BY <2>1, <2>2
<1> QED
  BY <1>1, <1>2

LEMMA GwRecvKeyInv ==
  ASSUME TypeInv, TypeInv', KeyInv, NEW s \in Sessions, GwRecv(s)
  PROVE  KeyInv'
<1> DEFINE f == out[s][rOut[s] + 1]
<1>1. f \in OutFrame /\ rOut[s] + 1 \in 1 .. Len(out[s])
  <2>1. rOut[s] < Len(out[s])
    BY DEF GwRecv
  <2>2. rOut[s] \in Nat /\ out[s] \in Seq(OutFrame)
    BY DEF TypeInv, TypeOK
  <2> QED
    BY <2>1, <2>2
<1>2. f.num \in Nat /\ f.pub \in Nat /\ gwKey[s] \in Keys /\ NoKey \in Keys /\ s \in Nat
  <2> HIDE DEF f
  <2>1. gwKey[s] \in Keys
    BY DEF TypeInv, TypeOK
  <2>3. s \in Nat
    BY DEF Sessions
  <2>2. f.num \in Nat /\ f.pub \in Nat
    BY <1>1 DEF OutFrame
  <2> QED
    BY <2>1, <2>2, <2>3, NoKeyType
<1> DEFINE a == GwFrame("keyngack", NoKey, f.num, 0, TRUE)
           b == GwFrame("dh", NoKey, f.num, s, TRUE)
           c == GwFrame("ack", gwKey[s], f.num, 0, TRUE)
<1>3. /\ a \in InFrame /\ b \in InFrame /\ c \in InFrame
      /\ a.type = "keyngack" /\ b.pub = s /\ c.type = "ack"
  BY <1>2, GwFrameTypes DEF InTypes, GwFrame
<1>4. UNCHANGED <<pc, sid, privkey, rIn, out>>
  BY DEF GwRecv, device, locals
<1>5. ReadsOn /\ GwDh'
  <2>1. Say(s, a) \/ Say(s, b) \/ Say(s, c) \/ UNCHANGED in
    BY DEF GwRecv, GwAcks
  <2> HIDE DEF a, b, c
  <2>2. CASE Say(s, a)
    BY <2>2, <1>3, <1>4, SayReadsOn
  <2>3. CASE Say(s, b)
    BY <2>3, <1>3, <1>4, SayReadsOn
  <2>4. CASE Say(s, c) \/ UNCHANGED in
    BY <2>4, <1>3, <1>4, SayReadsOn
  <2> QED
    BY <2>1, <2>2, <2>3, <2>4
<1>6. GwKeyOrigin'
  <2>1. CASE /\ f.type = "dh" /\ phase' = [phase EXCEPT ![s] = "keyed"]
             /\ gwKey' = [gwKey EXCEPT ![s] = [dev |-> f.pub, gw |-> s, exact |-> TRUE]]
    <3> SUFFICES ASSUME NEW t \in Sessions, phase'[t] \in {"keyed", "registered"}
                 PROVE  /\ gwKey'[t].gw = t /\ gwKey'[t].exact = TRUE
                        /\ \E i \in 1 .. Len(out[t]) : DhAt(t, i) /\ out[t][i].pub = gwKey'[t].dev
      BY <1>4 DEF GwKeyOrigin, DhAt
    <3>1. CASE t = s
      BY <2>1, <3>1, <1>1 DEF TypeInv, TypeOK, DhAt
    <3>2. CASE t # s
      BY <2>1, <3>2 DEF TypeInv, TypeOK, KeyInv, GwKeyOrigin
    <3> QED
      BY <3>1, <3>2
  <2>2. CASE /\ phase' = [phase EXCEPT ![s] = "greeted"] /\ UNCHANGED gwKey
    BY <2>2, <1>4 DEF TypeInv, TypeOK, KeyInv, GwKeyOrigin, DhAt
  <2>3. CASE /\ phase[s] = "keyed" /\ phase' = [phase EXCEPT ![s] = "registered"]
             /\ UNCHANGED gwKey
    <3> SUFFICES ASSUME NEW t \in Sessions, phase'[t] \in {"keyed", "registered"}
                 PROVE  /\ gwKey[t].gw = t /\ gwKey[t].exact = TRUE
                        /\ \E i \in 1 .. Len(out[t]) : DhAt(t, i) /\ out[t][i].pub = gwKey[t].dev
      BY <2>3, <1>4 DEF GwKeyOrigin, DhAt
    <3>1. phase[t] \in {"keyed", "registered"}
      BY <2>3 DEF TypeInv, TypeOK
    <3> QED
      BY <3>1 DEF KeyInv, GwKeyOrigin
  <2>4. CASE UNCHANGED <<phase, gwKey>>
    BY <2>4, <1>4 DEF KeyInv, GwKeyOrigin, DhAt
  <2>5. \/ /\ f.type = "dh" /\ phase' = [phase EXCEPT ![s] = "keyed"]
           /\ gwKey' = [gwKey EXCEPT ![s] = [dev |-> f.pub, gw |-> s, exact |-> TRUE]]
        \/ phase' = [phase EXCEPT ![s] = "greeted"] /\ UNCHANGED gwKey
        \/ /\ phase[s] = "keyed" /\ phase' = [phase EXCEPT ![s] = "registered"]
           /\ UNCHANGED gwKey
        \/ UNCHANGED <<phase, gwKey>>
    BY DEF GwRecv
  <2> HIDE DEF f
  <2> QED
    BY <2>1, <2>2, <2>3, <2>4, <2>5
<1> QED
  BY <1>4, <1>5, <1>6, SilentQuiet, QuietKeyInv

LEMMA GwSaysKeyInv ==
  ASSUME TypeInv, TypeInv', KeyInv, NEW s \in Sessions,
         GwCommand(s) \/ GwBadCommand(s) \/ GwSeesClose(s) \/ GwStrays(s)
  PROVE  KeyInv'
<1>1. UNCHANGED <<pc, sid, privkey, rIn, out, phase, gwKey>>
  BY DEF GwCommand, GwBadCommand, GwIssues, GwSeesClose, GwStrays, device, locals, gateway
<1>2. Quiet /\ GwKeyOrigin'
  BY <1>1, SilentQuiet, GatewayKept
<1>3. \E f \in InFrame : (Say(s, f) \/ UNCHANGED in) /\ (f.type = "dh" => f.pub = s)
  <2>1. CASE GwCommand(s) \/ GwBadCommand(s)
    <3>1. PICK k \in CmdKinds :
            Say(s, GwFrame(k.type, gwKey[s], IF k.numbered THEN Sent(s) + 1 ELSE 0, 0, k.full))
      BY <2>1 DEF GwCommand, GwBadCommand, GwIssues
    <3> DEFINE f == GwFrame(k.type, gwKey[s], IF k.numbered THEN Sent(s) + 1 ELSE 0, 0, k.full)
    <3>2. f \in InFrame
      BY <3>1, IssuedType
    <3>3. f.type # "dh"
      BY BoundsAssumption DEF CmdKind, CmdTypes, GwFrame
    <3> HIDE DEF f
    <3> QED
      BY <3>1, <3>2, <3>3 DEF f
  <2>2. CASE GwStrays(s)
    <3>1. PICK t \in {"keyngack", "dh", "ack", "garbage"} : Say(s, GwFrame(t, NoKey, 0, s, TRUE))
      BY <2>2 DEF GwStrays
    <3> DEFINE f == GwFrame(t, NoKey, 0, s, TRUE)
    <3>2. t \in InTypes /\ s \in Nat
      BY DEF InTypes, Sessions
    <3>3. f \in InFrame /\ f.pub = s
      BY <3>2, NoKeyType, GwFrameTypes DEF GwFrame
    <3> HIDE DEF f
    <3> QED
      BY <3>1, <3>3 DEF f
  <2>3. CASE GwSeesClose(s)
    <3>1. GwFrame("ack", NoKey, 0, 0, TRUE) \in InFrame
      BY NoKeyType, GwFrameTypes DEF InTypes
    <3>2. GwFrame("ack", NoKey, 0, 0, TRUE).type = "ack"
      BY DEF GwFrame
    <3>3. UNCHANGED in
      BY <2>3 DEF GwSeesClose
    <3> QED
      BY <3>1, <3>2, <3>3
  <2> QED
    BY <2>1, <2>2, <2>3
<1>4. ReadsOn /\ GwDh'
  BY <1>1, <1>3, SayReadsOn
<1> QED
  BY <1>1, <1>2, <1>4, QuietKeyInv

LEMMA CutKeepsDh ==
  ASSUME TypeInv, KeyInv, NEW s \in Sessions, Disconnect(s)
  PROVE  GwDh'
<1> SUFFICES ASSUME NEW t \in Sessions, NEW i \in 1 .. Len(in'[t]), in'[t][i].type = "dh"
             PROVE  in'[t][i].pub = t
  BY DEF GwDh
<1>1. i \in 1 .. Len(in[t]) /\ in'[t][i] = in[t][i]
  BY CutTypes
<1> QED
  BY <1>1 DEF KeyInv, GwDh

LEMMA DisconnectKeyInv ==
  ASSUME TypeInv, TypeInv', KeyInv, NEW s \in Sessions, Disconnect(s)
  PROVE  KeyInv'
<1>1. UNCHANGED <<pc, sid, privkey, rIn, out, phase, gwKey>>
  BY DEF Disconnect, device, locals
<1>2. Quiet /\ GwKeyOrigin'
  BY <1>1, SilentQuiet, GatewayKept
<1>3. ReadsOn
  BY <1>1, CutTypes, GatewayReadsOn
<1>4. GwDh'
  BY CutKeepsDh
<1> QED
  BY <1>1, <1>2, <1>3, <1>4, QuietKeyInv

LEMMA NextKeyInv == TypeInv /\ TypeInv' /\ KeyInv /\ [Next]_vars => KeyInv'
<1> SUFFICES ASSUME TypeInv, TypeInv', KeyInv, [Next]_vars PROVE KeyInv'
  OBVIOUS
<1>1. CASE \/ Start \/ Collect \/ ConnectFails \/ BuildError \/ RegIgnores \/ RegError
           \/ RecvFails \/ TimesOut \/ RunError \/ ReportError \/ Apply \/ ApplyError
  BY <1>1, SilentStepsKeyInv
<1>2. CASE Connect
  BY <1>2, ConnectKeyInv
<1>3. CASE RecvKeyngack
  BY <1>3, RecvKeyngackKeyInv
<1>4. CASE RecvDh \/ RecvShortDh
  <2>1. \E x \in BOOLEAN : Derive(x)
    BY <1>4, Zenon DEF RecvDh, RecvShortDh
  <2> QED
    BY <2>1, DeriveKeyInv
<1>5. CASE KeepAlive
  BY <1>5, KeepAliveKeyInv
<1>6. CASE RecvRun
  BY <1>6, RecvRunKeyInv
<1>7. CASE Answer
  BY <1>7, AnswerKeyInv
<1>8. CASE \E s \in Sessions : GwRecv(s)
  BY <1>8, GwRecvKeyInv
<1>9. CASE \E s \in Sessions :
             GwCommand(s) \/ GwBadCommand(s) \/ GwSeesClose(s) \/ GwStrays(s)
  BY <1>9, GwSaysKeyInv
<1>10. CASE \E s \in Sessions : Disconnect(s)
  BY <1>10, DisconnectKeyInv
<1>11. CASE UNCHANGED vars
  BY <1>11 DEF vars, device, locals, gateway, KeyInv, Unopened, Reading, NotRegistered, KeyAsked,
     OneDh, KeyInHand, GwDh, RegKey, RegDev, GwKeyOrigin, OneKeyngack, DhAt, RegAt
<1> QED
  BY <1>1, <1>2, <1>3, <1>4, <1>5, <1>6, <1>7, <1>8, <1>9, <1>10, <1>11
  DEF Next, DeviceStep, GatewayStep, FaultStep, Idle

LEMMA KeyInvAgrees == TypeInv /\ KeyInv => KeysAgree
<1> SUFFICES ASSUME TypeInv, KeyInv, NEW s \in Sessions, NEW i \in Registration(s),
                    phase[s] \in {"keyed", "registered"}, out[s][i].key.exact, OneKeyngack(s)
             PROVE  out[s][i].key = gwKey[s]
  BY DEF KeysAgree
<1>1. i \in 1 .. Len(out[s]) /\ RegAt(s, i)
  BY DEF Registration, RegAt
<1>2. out[s][i].key \in Keys /\ gwKey[s] \in Keys
  <2>1. out[s] \in Seq(OutFrame) /\ gwKey[s] \in Keys
    BY DEF TypeInv, TypeOK
  <2>2. out[s][i] \in OutFrame
    BY <1>1, <2>1
  <2> QED
    BY <2>1, <2>2 DEF OutFrame
<1>3. out[s][i].key.gw = s /\ gwKey[s].gw = s
  BY <1>1 DEF KeyInv, RegKey, GwKeyOrigin
<1>4. out[s][i].key.dev = gwKey[s].dev
  <2>1. PICK j \in 1 .. Len(out[s]) : DhAt(s, j) /\ out[s][j].pub = gwKey[s].dev
    BY DEF KeyInv, GwKeyOrigin
  <2> QED
    BY <1>1, <2>1 DEF KeyInv, RegDev
<1>5. out[s][i].key.exact = gwKey[s].exact
  BY <1>2 DEF KeyInv, GwKeyOrigin, Keys
<1> QED
  BY <1>2, <1>3, <1>4, <1>5 DEF Keys

\* Key agreement: on every connection whose key was asked for once, with no
\* number cut short, the agent registers under the secret its gateway holds,
\* whatever happened on this and on earlier connections.
THEOREM KeyAgreement == Spec => []KeysAgree
<1>1. Spec => [](TypeInv /\ KeyInv)
  BY InitTypeInv, NextTypeInv, InitKeyInv, NextKeyInv, PTL DEF Spec
<1> QED
  BY <1>1, KeyInvAgrees, PTL

-----------------------------------------------------------------------------
(***************************************************************************)
(* What is sealed.  SealedFromRegistration becomes inductive with what it  *)
(* leaves unsaid of the agent: while it negotiates its keepalives are off, *)
(* and from dev_reg on it holds the secret it registered with.             *)
(***************************************************************************)

FlagDown == pc = "reg" => keepaliveFlag = FALSE

Registered == pc \in {"run", "apply", "answer"}

SecretKept ==
  Registered =>
    /\ Registration(sid) # {}
    /\ \A j \in Registration(sid) : out[sid][j].key = secret

SealInv == SealedFromRegistration /\ FlagDown /\ SecretKept

LEMMA InitSealInv == Init => SealInv
<1> SUFFICES ASSUME Init PROVE SealInv
  OBVIOUS
<1>1. pc = "dead" /\ \A s \in Sessions : out[s] = <<>>
  BY DEF Init
<1> QED
  BY <1>1 DEF SealInv, SealedFromRegistration, FlagDown, SecretKept, Registered

\* Steps that send nothing and stay where they are, or leave the connection.
LEMMA SilentSealInv ==
  ASSUME SealInv, UNCHANGED <<out, sid>>,
         pc' = "reg" => pc = "reg" /\ keepaliveFlag' = keepaliveFlag,
         Registered' => Registered /\ secret' = secret
  PROVE  SealInv'
<1>1. SealedFromRegistration'
  BY DEF SealInv, SealedFromRegistration, RegisteredBy
<1>2. SecretKept'
  BY DEF SealInv, SecretKept, Registration
<1> QED
  BY <1>1, <1>2 DEF SealInv, FlagDown

\* The registrations a frame adds to a log: itself, if it is one.
LEMMA RegistrationGrows ==
  ASSUME TypeInv, NEW s \in Sessions, NEW f \in OutFrame, Send(s, f)
  PROVE  /\ \A t \in Sessions : t # s => Registration(t)' = Registration(t)
         /\ Registration(s)' = Registration(s)
              \cup (IF f.type = "dev_reg" THEN {Len(out[s]) + 1} ELSE {})
         /\ \A j \in Registration(s) : out'[s][j] = out[s][j]
<1>1. /\ \A t \in Sessions : t # s => out'[t] = out[t]
      /\ Len(out[s]) \in Nat /\ Len(out'[s]) = Len(out[s]) + 1
      /\ \A i \in 1 .. Len(out[s]) : out'[s][i] = out[s][i]
      /\ out'[s][Len(out[s]) + 1] = f
  BY SendShape
<1> QED
  BY <1>1 DEF Registration

\* A frame that is sealed as the connection's registrations say keeps the
\* property.
LEMMA SendSealed ==
  ASSUME TypeInv, SealedFromRegistration, NEW s \in Sessions, NEW f \in OutFrame, Send(s, f),
         f.key # NoKey <=> Registration(s) # {} \/ f.type = "dev_reg",
         \A j \in Registration(s) : f.key = out[s][j].key
  PROVE  SealedFromRegistration'
<1>1. /\ \A t \in Sessions : t # s => out'[t] = out[t]
      /\ Len(out[s]) \in Nat /\ Len(out'[s]) = Len(out[s]) + 1
      /\ \A i \in 1 .. Len(out[s]) : out'[s][i] = out[s][i]
      /\ out'[s][Len(out[s]) + 1] = f
  BY SendShape
<1> SUFFICES ASSUME NEW t \in Sessions, NEW i \in 1 .. Len(out'[t])
             PROVE  /\ out'[t][i].key # NoKey <=> RegisteredBy(t, i)' # {}
                    /\ \A j \in RegisteredBy(t, i)' : out'[t][i].key = out'[t][j].key
  BY DEF SealedFromRegistration
<1>2. CASE t # s
  BY <1>1, <1>2 DEF SealedFromRegistration, RegisteredBy
<1>3. CASE t = s /\ i \in 1 .. Len(out[s])
  <2>1. RegisteredBy(s, i)' = RegisteredBy(s, i)
    BY <1>1, <1>3 DEF RegisteredBy
  <2>2. \A j \in RegisteredBy(s, i) : out'[s][j] = out[s][j]
    BY <1>1, <1>3 DEF RegisteredBy
  <2> QED
    BY <1>1, <1>3, <2>1, <2>2 DEF SealedFromRegistration
<1>4. CASE t = s /\ i = Len(out[s]) + 1
  <2>1. RegisteredBy(s, i)' = Registration(s)'
    BY <1>1, <1>4 DEF RegisteredBy, Registration
  <2>2. /\ Registration(s)' = Registration(s)
             \cup (IF f.type = "dev_reg" THEN {Len(out[s]) + 1} ELSE {})
        /\ \A j \in Registration(s) : out'[s][j] = out[s][j]
    BY RegistrationGrows
  <2>3. out'[t][i] = f
    BY <1>1, <1>4
  <2> QED
    BY <1>4, <2>1, <2>2, <2>3
<1> QED
  BY <1>1, <1>2, <1>3, <1>4

\* What a registered agent sends is sealed with the secret it registered with.
LEMMA SealedStep ==
  ASSUME TypeInv, SealInv, Registered, Registered', NEW f \in OutFrame, Send(sid, f),
         f.key = secret, f.type # "dev_reg", UNCHANGED <<sid, secret>>
  PROVE  SealInv'
<1>1. sid \in Sessions
  BY DEF TypeInv, InUse, Registered
<1>2. PICK j \in Registration(sid) : TRUE
  BY DEF SealInv, SecretKept
<1>3. j \in 1 .. Len(out[sid]) /\ j \in RegisteredBy(sid, j)
  BY <1>2 DEF Registration, RegisteredBy
<1>4. secret # NoKey
  BY <1>1, <1>2, <1>3 DEF SealInv, SealedFromRegistration, SecretKept
<1>5. SealedFromRegistration'
  BY <1>1, <1>2, <1>4, SendSealed DEF SealInv, SecretKept
<1>6. /\ Registration(sid)' = Registration(sid)
      /\ \A k \in Registration(sid) : out'[sid][k] = out[sid][k]
  BY <1>1, RegistrationGrows
<1>7. SecretKept'
  BY <1>6 DEF SealInv, SecretKept, Registration
<1> QED
  BY <1>5, <1>7 DEF SealInv, FlagDown, Registered

\* What a negotiating agent sends is not.
LEMMA PlainStep ==
  ASSUME TypeInv, SealInv, pc' = "reg", keepaliveFlag' = FALSE,
         NEW s \in Sessions, Registration(s) = {}, NEW f \in OutFrame, Send(s, f),
         f.key = NoKey, f.type # "dev_reg"
  PROVE  SealInv'
<1>1. SealedFromRegistration'
  BY SendSealed DEF SealInv
<1> QED
  BY <1>1 DEF SealInv, FlagDown, SecretKept, Registered

LEMMA DeriveSealInv ==
  ASSUME TypeInv, KeyInv, SealInv, NEW x \in BOOLEAN, Derive(x)
  PROVE  SealInv'
<1> DEFINE f == [type |-> "dev_reg", key |-> secret', num |-> sequence, pub |-> 0]
<1>1. /\ sid \in Sessions /\ pc = "reg" /\ pc' = "run" /\ Send(sid, f) /\ sid' = sid
      /\ secret' = [dev |-> privkey, gw |-> Pending.pub, exact |-> x] /\ privkey # 0
      /\ Readable /\ Read
  BY DEF TypeInv, InUse, Derive, InReg
<1>2. Pending \in InFrame
  BY <1>1, ReadTypes DEF TypeInv
<1>3. secret' \in Keys
  BY <1>1, <1>2 DEF TypeInv, TypeOK, Keys, InFrame
<1>4. f \in OutFrame /\ f.key = secret' /\ f.type = "dev_reg"
  BY <1>3 DEF TypeInv, TypeOK, OutFrame, OutTypes
<1>5. secret' # NoKey
  BY <1>1 DEF NoKey
<1>6. Registration(sid) = {}
  BY <1>1 DEF KeyInv, NotRegistered, RegAt, Registration
<1> HIDE DEF f
<1>7. SealedFromRegistration'
  BY <1>1, <1>4, <1>5, <1>6, SendSealed DEF SealInv
<1>8. Registration(sid)' = {Len(out[sid]) + 1} /\ out'[sid][Len(out[sid]) + 1] = f
  BY <1>1, <1>4, <1>6, RegistrationGrows, SendShape
<1>9. SecretKept'
  BY <1>1, <1>4, <1>8 DEF SecretKept, Registration
<1> QED
  BY <1>1, <1>7, <1>9 DEF SealInv, FlagDown

LEMMA NextSealInv == TypeInv /\ KeyInv /\ SealInv /\ [Next]_vars => SealInv'
<1> SUFFICES ASSUME TypeInv, KeyInv, SealInv, [Next]_vars PROVE SealInv'
  OBVIOUS
<1>1. CASE Start \/ Collect \/ ConnectFails \/ RegIgnores \/ RecvFails \/ TimesOut \/ Apply
  BY <1>1, SilentSealInv
  DEF Start, Collect, ConnectFails, RegIgnores, RecvFails, TimesOut, Apply, EndSession,
      Registered, device, locals
<1>2. CASE BuildError \/ RegError \/ RunError \/ ReportError \/ ApplyError
  BY <1>2, SilentSealInv DEF BuildError, RegError, RunError, ReportError, ApplyError, Die,
     Registered
<1>3. CASE Connect
  <2>1. sid + 1 \in Sessions /\ sid + 1 > sid
    BY <1>3, BoundsAssumption DEF TypeInv, TypeOK, Connect, Sessions, MaxSession
  <2>2. Registration(sid + 1) = {}
    BY <2>1 DEF KeyInv, Unopened, Registration
  <2>3. Plain("keyngreq", sequence, 0) \in OutFrame
    BY FrameTypes DEF TypeInv, TypeOK, OutTypes
  <2> QED
    BY <1>3, <2>1, <2>2, <2>3, PlainStep DEF Connect, Plain
<1>4. CASE RecvKeyngack
  <2>1. sid \in Sessions /\ pc = "reg" /\ pc' = "reg" /\ keepaliveFlag' = FALSE
    BY <1>4 DEF TypeInv, InUse, RecvKeyngack, InReg, SealInv, FlagDown
  <2>2. Registration(sid) = {}
    BY <2>1 DEF KeyInv, NotRegistered, RegAt, Registration
  <2>3. Plain("dh", sequence, gen + 1) \in OutFrame
    BY FrameTypes DEF TypeInv, TypeOK, OutTypes
  <2> QED
    BY <1>4, <2>1, <2>2, <2>3, PlainStep DEF RecvKeyngack, Plain
<1>5. CASE RecvDh \/ RecvShortDh
  <2>1. \E x \in BOOLEAN : Derive(x)
    BY <1>5, Zenon DEF RecvDh, RecvShortDh
  <2> QED
    BY <2>1, DeriveSealInv
<1>6. CASE KeepAlive
  <2>1. pc = "run"
    <3>1. keepaliveFlag /\ pc \in {"reg", "run"}
      BY <1>6 DEF KeepAlive, Waiting
    <3>2. pc # "reg"
      BY <3>1 DEF SealInv, FlagDown
    <3> QED
      BY <3>1, <3>2
  <2>2. Sealed("keepalive", sequence) \in OutFrame
    BY FrameTypes DEF TypeInv, TypeOK, OutTypes
  <2> QED
    BY <1>6, <2>1, <2>2, SealedStep DEF KeepAlive, Registered, Sealed
<1>7. CASE RecvRun
  <2>1. Sealed("dev_report", sequence) \in OutFrame
    BY FrameTypes DEF TypeInv, TypeOK, OutTypes
  <2> QED
    BY <1>7, <2>1, SealedStep DEF RecvRun, Registered, Sealed
<1>8. CASE Answer
  <2>1. sid \in Sessions /\ Command \in InFrame /\ Command.type \in CmdTypes
    BY <1>8 DEF TypeInv, TypeOK, InUse, Answer, Command
  <2>2. AnswerTo(Command) \in OutFrame /\ AnswerTo(Command).type \in AnswerTypes
    BY <2>1, AnswerToType
  <2>3. AnswerTo(Command).key = secret /\ AnswerTo(Command).type # "dev_reg"
    BY <2>1, <2>2 DEF AnswerTo, Sealed, CmdTypes, AnswerTypes
  <2>4. CASE Send(sid, AnswerTo(Command))
    BY <1>8, <2>2, <2>3, <2>4, SealedStep DEF Answer, Registered
  <2>5. CASE UNCHANGED out
    BY <1>8, <2>5, SilentSealInv DEF Answer, Registered
  <2> QED
    BY <1>8, <2>4, <2>5 DEF Answer
<1>9. CASE \E s \in Sessions : \/ GwRecv(s) \/ GwCommand(s) \/ GwBadCommand(s)
                               \/ GwSeesClose(s) \/ GwStrays(s) \/ Disconnect(s)
  <2>1. UNCHANGED <<device, out>>
    BY <1>9 DEF GwRecv, GwCommand, GwBadCommand, GwIssues, GwSeesClose, GwStrays, Disconnect
  <2> QED
    BY <2>1, SilentSealInv DEF device, locals, Registered
<1>10. CASE UNCHANGED vars
  BY <1>10, SilentSealInv DEF vars, device, locals, Registered
<1> QED
  BY <1>1, <1>2, <1>3, <1>4, <1>5, <1>6, <1>7, <1>8, <1>9, <1>10
  DEF Next, DeviceStep, GatewayStep, FaultStep, Idle

\* Nothing goes out in the clear once the agent has registered, nothing sealed
\* before, and all of a connection under one secret.
THEOREM SealedOnly == Spec => []SealedFromRegistration
<1>1. Spec => [](TypeInv /\ KeyInv /\ SealInv)
  BY InitTypeInv, NextTypeInv, InitKeyInv, NextKeyInv, InitSealInv, NextSealInv, PTL DEF Spec
<1>2. SealInv => SealedFromRegistration
  BY DEF SealInv
<1> QED
  BY <1>1, <1>2, PTL

-----------------------------------------------------------------------------
(***************************************************************************)
(* Fresh secrets.  The private keys of a connection are those whose public *)
(* keys were published on it; no two connections share one, since gen only *)
(* grows.  FreshInv says that the key in hand is one of this connection as *)
(* soon as a keyngack was read on it, and so is the one in dev_reg unless  *)
(* a dh was read that nobody had asked for.                                *)
(***************************************************************************)

Published(s) == {out[s][i].pub : i \in {k \in 1 .. Len(out[s]) : DhAt(s, k)}}

Asked(s) == \E j \in 1 .. rIn[s] : in[s][j].type = "keyngack"

\* Orderly, as far as the agent has read.
ReadOrderly(s) ==
  \A i \in 1 .. rIn[s] : in[s][i].type = "dh" => \E j \in 1 .. i : in[s][j].type = "keyngack"

UnreadAhead == \A s \in Sessions : s > sid => rIn[s] = 0

PublishedBelow == \A s \in Sessions : Published(s) \subseteq 1 .. gen

PublishedOnce == \A s, t \in Sessions : s # t => Published(s) \cap Published(t) = {}

HandFromHere == pc = "reg" /\ Asked(sid) => privkey \in Published(sid)

RegFromHere ==
  \A s \in Sessions : ReadOrderly(s) =>
    \A j \in Registration(s) : out[s][j].key.dev \in Published(s)

FreshInv == UnreadAhead /\ PublishedBelow /\ PublishedOnce /\ HandFromHere /\ RegFromHere

LEMMA InitFreshInv == Init => FreshInv
<1> SUFFICES ASSUME Init PROVE FreshInv
  OBVIOUS
<1>1. pc = "dead" /\ \A s \in Sessions : out[s] = <<>> /\ rIn[s] = 0
  BY DEF Init
<1>2. \A s \in Sessions : Published(s) = {} /\ Registration(s) = {}
  BY <1>1 DEF Published, Registration
<1> QED
  BY <1>1, <1>2 DEF FreshInv, UnreadAhead, PublishedBelow, PublishedOnce, HandFromHere, RegFromHere

\* What had been read stays orderly, or not.
LEMMA ReadOrderlyBefore ==
  ASSUME TypeInv, TypeInv', ReadsOn, NEW s \in Sessions, ReadOrderly(s)'
  PROVE  ReadOrderly(s)
<1>1. rIn[s] \in Nat /\ rIn'[s] \in Nat /\ rIn[s] <= rIn'[s]
  BY DEF TypeInv, TypeOK, ReadsOn
<1>2. \A i \in 1 .. rIn[s] : i \in 1 .. rIn'[s] /\ in'[s][i] = in[s][i]
  BY <1>1 DEF ReadsOn
<1> SUFFICES ASSUME NEW i \in 1 .. rIn[s], in[s][i].type = "dh"
             PROVE  \E j \in 1 .. i : in[s][j].type = "keyngack"
  BY DEF ReadOrderly
<1>3. PICK j \in 1 .. i : in'[s][j].type = "keyngack"
  BY <1>2 DEF ReadOrderly
<1>4. j \in 1 .. rIn[s]
  BY <1>1, <1>3
<1> QED
  BY <1>2, <1>3, <1>4

LEMMA QuietPublished ==
  ASSUME Quiet, NEW s \in Sessions
  PROVE  /\ Published(s)' = Published(s) /\ Registration(s)' = Registration(s)
         /\ \A j \in Registration(s) : out'[s][j] = out[s][j]
  BY DEF Quiet, Published, Registration, DhAt

LEMMA QuietFreshInv ==
  ASSUME TypeInv, TypeInv', FreshInv, Quiet, ReadsOn, UNCHANGED <<sid, gen>>,
         \A t \in Sessions : t > sid => rIn'[t] = rIn[t],
         pc' = "reg" => pc = "reg" /\ privkey' = privkey /\ (Asked(sid)' => Asked(sid))
  PROVE  FreshInv'
<1>1. \A s \in Sessions : /\ Published(s)' = Published(s) /\ Registration(s)' = Registration(s)
                          /\ \A j \in Registration(s) : out'[s][j] = out[s][j]
  BY QuietPublished
<1>2. pc' = "reg" => sid \in Sessions
  BY DEF TypeInv, InUse
<1>3. UnreadAhead'
  BY DEF FreshInv, UnreadAhead
<1>4. PublishedBelow' /\ PublishedOnce'
  BY <1>1 DEF FreshInv, PublishedBelow, PublishedOnce
<1>5. HandFromHere'
  <2> SUFFICES ASSUME pc' = "reg", Asked(sid)' PROVE privkey \in Published(sid)'
    BY DEF HandFromHere, Asked, Published, DhAt
  <2> QED
    BY <1>1, <1>2 DEF FreshInv, HandFromHere
<1>6. RegFromHere'
  <2> SUFFICES ASSUME NEW s \in Sessions, ReadOrderly(s)', NEW j \in Registration(s)'
               PROVE  out'[s][j].key.dev \in Published(s)'
    BY DEF RegFromHere
  <2>1. ReadOrderly(s)
    BY ReadOrderlyBefore
  <2> QED
    BY <1>1, <2>1 DEF FreshInv, RegFromHere
<1> QED
  BY <1>3, <1>4, <1>5, <1>6 DEF FreshInv

\* The agent's steps that send neither a dh nor a dev_reg, and read no keyngack
\* while they negotiate.
LEMMA AgentQuietFreshInv ==
  ASSUME TypeInv, TypeInv', KeyInv, FreshInv, Quiet, UNCHANGED <<sid, gen, in>>,
         (sid \in Sessions /\ Readable /\ Read) \/ UNCHANGED rIn,
         pc' = "reg" => /\ pc = "reg" /\ privkey' = privkey
                        /\ UNCHANGED rIn \/ Pending.type # "keyngack"
  PROVE  FreshInv'
<1>1. ReadsOn
  BY ReadReadsOn
<1>2. \A t \in Sessions : t > sid => rIn'[t] = rIn[t]
  BY DEF TypeInv, TypeOK, Read, Sessions
<1>3. ASSUME pc' = "reg", Asked(sid)' PROVE Asked(sid)
  <2>1. CASE UNCHANGED rIn
    BY <1>3, <2>1 DEF Asked
  <2>2. CASE sid \in Sessions /\ Readable /\ Read /\ Pending.type # "keyngack"
    <3>1. rIn[sid] \in Nat /\ rIn'[sid] = rIn[sid] + 1
      BY <2>2 DEF TypeInv, TypeOK, Read
    <3>2. PICK j \in 1 .. rIn'[sid] : in[sid][j].type = "keyngack"
      BY <1>3 DEF Asked
    <3>3. j # rIn[sid] + 1
      BY <2>2, <3>2 DEF Pending
    <3> QED
      BY <3>1, <3>2, <3>3 DEF Asked
  <2> QED
    BY <1>3, <2>1, <2>2
<1> QED
  BY <1>1, <1>2, <1>3, QuietFreshInv

LEMMA ConnectFreshInv ==
  ASSUME TypeInv, TypeInv', KeyInv, FreshInv, Connect
  PROVE  FreshInv'
<1>1. sid + 1 \in Sessions /\ sid \in Nat /\ sid' = sid + 1
  BY BoundsAssumption DEF TypeInv, TypeOK, Connect, Sessions, MaxSession
<1> DEFINE f == Plain("keyngreq", sequence, 0)
           n == sid + 1
<1>2. f \in OutFrame
  BY FrameTypes DEF TypeInv, TypeOK, OutTypes
<1>3. Send(n, f) /\ f.type = "keyngreq" /\ UNCHANGED <<in, rIn, gen>>
  BY DEF Connect, Plain
<1> HIDE DEF f
<1>4. /\ \A t \in Sessions : t # n => out'[t] = out[t]
      /\ Len(out[n]) \in Nat /\ Len(out'[n]) = Len(out[n]) + 1
      /\ \A i \in 1 .. Len(out[n]) : out'[n][i] = out[n][i]
      /\ out'[n][Len(out[n]) + 1] = f
  BY <1>1, <1>2, <1>3, SendShape
<1>5. \A s \in Sessions : /\ Published(s)' = Published(s) /\ Registration(s)' = Registration(s)
                          /\ \A j \in Registration(s) : out'[s][j] = out[s][j]
  <2> SUFFICES ASSUME NEW s \in Sessions
               PROVE  /\ Published(s)' = Published(s) /\ Registration(s)' = Registration(s)
                      /\ \A j \in Registration(s) : out'[s][j] = out[s][j]
    OBVIOUS
  <2>1. /\ \A i \in 1 .. Len(out[s]) : i \in 1 .. Len(out'[s]) /\ out'[s][i] = out[s][i]
        /\ \A i \in 1 .. Len(out'[s]) :
             out'[s][i].type \in {"dh", "dev_reg"} => i \in 1 .. Len(out[s])
    <3>1. CASE s = n
      BY <3>1, <1>3, <1>4
    <3>2. CASE s # n
      BY <3>2, <1>4
    <3> QED
      BY <3>1, <3>2
  <2> QED
    BY <2>1 DEF Published, Registration, DhAt
<1>6. UnreadAhead'
  BY <1>1, <1>3 DEF FreshInv, UnreadAhead, Sessions
<1>7. PublishedBelow' /\ PublishedOnce'
  BY <1>3, <1>5 DEF FreshInv, PublishedBelow, PublishedOnce
<1>8. HandFromHere'
  <2>1. rIn'[sid'] = 0
    BY <1>1, <1>3 DEF FreshInv, UnreadAhead
  <2> QED
    BY <2>1 DEF HandFromHere, Asked
<1>9. RegFromHere'
  BY <1>3, <1>5 DEF FreshInv, RegFromHere, ReadOrderly
<1> QED
  BY <1>6, <1>7, <1>8, <1>9 DEF FreshInv

LEMMA RecvKeyngackFreshInv ==
  ASSUME TypeInv, TypeInv', KeyInv, FreshInv, RecvKeyngack
  PROVE  FreshInv'
<1> DEFINE f == Plain("dh", sequence, gen + 1)
<1>1. /\ sid \in Sessions /\ Readable /\ Read /\ Send(sid, f) /\ sid' = sid /\ in' = in
      /\ gen' = gen + 1 /\ privkey' = gen + 1 /\ gen \in Nat
  BY DEF TypeInv, TypeOK, InUse, RecvKeyngack, InReg
<1>2. f \in OutFrame /\ f.type = "dh" /\ f.pub = gen + 1
  BY FrameTypes DEF TypeInv, TypeOK, OutTypes, Plain
<1> HIDE DEF f
<1>3. PICK last \in Nat :
        /\ 1 .. Len(out'[sid]) = (1 .. Len(out[sid])) \cup {last}
        /\ last \notin 1 .. Len(out[sid])
        /\ out'[sid][last] = f
        /\ \A i \in 1 .. Len(out[sid]) : out'[sid][i] = out[sid][i]
        /\ \A t \in Sessions : t # sid => out'[t] = out[t]
  BY <1>1, <1>2, SentLast
<1>4. \A t \in Sessions :
        Published(t)' = IF t = sid THEN Published(t) \cup {gen + 1} ELSE Published(t)
  <2> SUFFICES ASSUME NEW t \in Sessions
               PROVE  Published(t)' = IF t = sid THEN Published(t) \cup {gen + 1} ELSE Published(t)
    OBVIOUS
  <2>1. CASE t = sid
    <3>1. {k \in 1 .. Len(out'[t]) : out'[t][k].type = "dh"}
            = {k \in 1 .. Len(out[t]) : out[t][k].type = "dh"} \cup {last}
      BY <1>2, <1>3, <2>1
    <3> QED
      BY <1>2, <1>3, <2>1, <3>1 DEF Published, DhAt
  <2>2. CASE t # sid
    BY <1>3, <2>2 DEF Published, DhAt
  <2> QED
    BY <2>1, <2>2
<1>5. \A s \in Sessions : /\ Registration(s)' = Registration(s)
                          /\ \A j \in Registration(s) : out'[s][j] = out[s][j]
  BY <1>2, <1>3 DEF Registration
<1>6. ReadsOn
  BY <1>1, ReadReadsOn
<1>7. UnreadAhead'
  BY <1>1 DEF FreshInv, UnreadAhead, TypeInv, TypeOK, Read, Sessions
<1>8. PublishedBelow'
  <2>1. \A s \in Sessions : Published(s) \subseteq 1 .. gen
    BY DEF FreshInv, PublishedBelow
  <2>2. 1 .. gen \subseteq 1 .. gen + 1 /\ gen + 1 \in 1 .. gen + 1
    BY <1>1
  <2> QED
    BY <1>1, <1>4, <2>1, <2>2 DEF PublishedBelow
<1>9. PublishedOnce'
  <2>1. \A s \in Sessions : gen + 1 \notin Published(s)
    BY <1>1 DEF FreshInv, PublishedBelow
  <2>2. \A s, t \in Sessions : s # t => Published(s) \cap Published(t) = {}
    BY DEF FreshInv, PublishedOnce
  <2> SUFFICES ASSUME NEW s \in Sessions, NEW t \in Sessions, s # t
               PROVE  Published(s)' \cap Published(t)' = {}
    BY DEF PublishedOnce
  <2> QED
    BY <1>4, <2>1, <2>2
<1>10. HandFromHere'
  <2>1. Published(sid)' = Published(sid) \cup {gen + 1}
    BY <1>1, <1>4 DEF Published, DhAt
  <2> QED
    BY <1>1, <2>1 DEF HandFromHere
<1>11. RegFromHere'
  <2> SUFFICES ASSUME NEW s \in Sessions, ReadOrderly(s)', NEW j \in Registration(s)'
               PROVE  out'[s][j].key.dev \in Published(s)'
    BY DEF RegFromHere
  <2>1. ReadOrderly(s)
    BY <1>6, ReadOrderlyBefore
  <2>2. j \in Registration(s) /\ out'[s][j] = out[s][j]
    BY <1>5
  <2>3. out[s][j].key.dev \in Published(s)
    BY <2>1, <2>2 DEF FreshInv, RegFromHere
  <2>4. Published(s) \subseteq Published(s)'
    BY <1>4
  <2> QED
    BY <2>2, <2>3, <2>4
<1> QED
  BY <1>7, <1>8, <1>9, <1>10, <1>11 DEF FreshInv

LEMMA DeriveFreshInv ==
  ASSUME TypeInv, TypeInv', KeyInv, FreshInv, NEW x \in BOOLEAN, Derive(x)
  PROVE  FreshInv'
<1> DEFINE f == [type |-> "dev_reg", key |-> secret', num |-> sequence, pub |-> 0]
<1>1. /\ sid \in Sessions /\ Readable /\ Read /\ pc = "reg" /\ pc' = "run"
      /\ Pending.type = "dh" /\ Send(sid, f)
      /\ secret' = [dev |-> privkey, gw |-> Pending.pub, exact |-> x]
      /\ UNCHANGED <<sid, in, gen>>
  BY DEF TypeInv, InUse, Derive, InReg
<1>2. f \in OutFrame
  BY DEF TypeInv, TypeOK, OutFrame, OutTypes
<1>3. f.type = "dev_reg" /\ f.key.dev = privkey
  BY <1>1
<1> HIDE DEF f
<1>4. PICK last \in Nat :
        /\ 1 .. Len(out'[sid]) = (1 .. Len(out[sid])) \cup {last}
        /\ last \notin 1 .. Len(out[sid])
        /\ out'[sid][last] = f
        /\ \A i \in 1 .. Len(out[sid]) : out'[sid][i] = out[sid][i]
        /\ \A t \in Sessions : t # sid => out'[t] = out[t]
  BY <1>1, <1>2, SentLast
<1>5. \A s \in Sessions : Published(s)' = Published(s)
  BY <1>3, <1>4 DEF Published, DhAt
<1>6. ReadsOn
  BY <1>1, ReadReadsOn
<1>7. UnreadAhead'
  BY <1>1 DEF FreshInv, UnreadAhead, TypeInv, TypeOK, Read, Sessions
<1>8. PublishedBelow' /\ PublishedOnce' /\ HandFromHere'
  BY <1>1, <1>5 DEF FreshInv, PublishedBelow, PublishedOnce, HandFromHere
<1>9. ReadOrderly(sid)' => Asked(sid)
  <2> SUFFICES ASSUME ReadOrderly(sid)' PROVE Asked(sid)
    OBVIOUS
  <2>1. rIn[sid] \in Nat /\ rIn'[sid] = rIn[sid] + 1 /\ in'[sid] = in[sid]
    BY <1>1 DEF TypeInv, TypeOK, Read
  <2>2. rIn[sid] + 1 \in 1 .. rIn'[sid] /\ in[sid][rIn[sid] + 1].type = "dh"
    BY <1>1, <2>1 DEF Pending
  <2>3. PICK j \in 1 .. rIn[sid] + 1 : in[sid][j].type = "keyngack"
    BY <1>1, <2>1, <2>2 DEF ReadOrderly
  <2>4. j # rIn[sid] + 1
    BY <2>2, <2>3
  <2> QED
    BY <2>1, <2>3, <2>4 DEF Asked
<1>10. RegFromHere'
  <2> SUFFICES ASSUME NEW s \in Sessions, ReadOrderly(s)', NEW j \in Registration(s)'
               PROVE  out'[s][j].key.dev \in Published(s)
    BY <1>5 DEF RegFromHere
  <2>1. CASE s = sid /\ j = last
    BY <1>1, <1>3, <1>4, <1>9, <2>1 DEF FreshInv, HandFromHere
  <2>2. CASE ~(s = sid /\ j = last)
    <3>1. j \in Registration(s) /\ out'[s][j] = out[s][j]
      BY <1>4, <2>2 DEF Registration
    <3>2. ReadOrderly(s)
      BY <1>6, ReadOrderlyBefore
    <3> QED
      BY <3>1, <3>2 DEF FreshInv, RegFromHere
  <2> QED
    BY <2>1, <2>2
<1> QED
  BY <1>7, <1>8, <1>10 DEF FreshInv

LEMMA GatewayFreshInv ==
  ASSUME TypeInv, TypeInv', KeyInv, FreshInv, UNCHANGED <<device, rIn, out>>, ReadsOn
  PROVE  FreshInv'
<1>1. UNCHANGED <<pc, sid, privkey, gen>>
  BY DEF device, locals
<1>2. ASSUME pc' = "reg", Asked(sid)' PROVE Asked(sid)
  <2>1. sid \in Sessions /\ sid' = sid /\ rIn' = rIn
    BY <1>1, <1>2 DEF TypeInv, InUse
  <2> QED
    BY <1>2, <2>1 DEF Asked, ReadsOn
<1> QED
  BY <1>1, <1>2, SilentQuiet, QuietFreshInv

\* No step of the gateway or of the network takes back what was read.
LEMMA GatewayStepsReadOn ==
  ASSUME TypeInv, TypeInv', KeyInv, NEW s \in Sessions,
         \/ GwRecv(s) \/ GwCommand(s) \/ GwBadCommand(s)
         \/ GwSeesClose(s) \/ GwStrays(s) \/ Disconnect(s)
  PROVE  UNCHANGED <<device, rIn, out>> /\ ReadsOn
<1>1. UNCHANGED <<device, rIn, out>>
  BY DEF GwRecv, GwCommand, GwBadCommand, GwIssues, GwSeesClose, GwStrays, Disconnect
<1>2. CASE Disconnect(s)
  BY <1>1, <1>2, CutTypes, GatewayReadsOn
<1>3. CASE ~Disconnect(s)
  <2>1. \A t \in Sessions : in'[t] = in[t] \/ \E g : in'[t] = Append(in[t], g)
    <3>1. UNCHANGED in \/ \E g : Say(s, g)
      BY <1>3 DEF GwRecv, GwAcks, GwCommand, GwBadCommand, GwIssues, GwSeesClose, GwStrays
    <3>2. in \in [Sessions -> Seq(InFrame)]
      BY DEF TypeInv, TypeOK
    <3>3. CASE UNCHANGED in
      BY <3>3
    <3>4. ASSUME NEW g, Say(s, g) PROVE \A t \in Sessions : in'[t] = in[t] \/ in'[t] = Append(in[t], g)
      BY <3>2, <3>4 DEF Say
    <3> QED
      BY <3>1, <3>3, <3>4
  <2> SUFFICES ASSUME NEW t \in Sessions, NEW i \in 1 .. rIn[t], i <= Len(in[t])
               PROVE  i <= Len(in'[t]) /\ in'[t][i] = in[t][i]
    BY <1>1, GatewayReadsOn
  <2>2. in[t] \in Seq(InFrame) /\ in'[t] \in Seq(InFrame) /\ rIn[t] \in Nat
    BY DEF TypeInv, TypeOK
  <2> QED
    BY <2>1, <2>2
<1> QED
  BY <1>1, <1>2, <1>3

LEMMA NextFreshInv == TypeInv /\ TypeInv' /\ KeyInv /\ FreshInv /\ [Next]_vars => FreshInv'
<1> SUFFICES ASSUME TypeInv, TypeInv', KeyInv, FreshInv, [Next]_vars PROVE FreshInv'
  OBVIOUS
<1>1. CASE \/ Start \/ Collect \/ ConnectFails \/ BuildError \/ RegIgnores \/ RegError
           \/ RecvFails \/ TimesOut \/ RunError \/ ReportError \/ Apply \/ ApplyError
  <2>1. UNCHANGED <<sid, in, gen, out>>
    BY <1>1 DEF Start, Collect, ConnectFails, BuildError, RegIgnores, RegError, RecvFails, TimesOut,
         RunError, ReportError, Apply, ApplyError, Die, EndSession, gateway, device, locals
  <2>2. (sid \in Sessions /\ Readable /\ Read) \/ UNCHANGED rIn
    BY <1>1 DEF TypeInv, InUse, Start, Collect, ConnectFails, BuildError, RegIgnores, RegError,
         RecvFails, TimesOut, RunError, ReportError, Apply, ApplyError, InReg, gateway
  <2>3. pc' = "reg" => /\ pc = "reg" /\ privkey' = privkey
                       /\ UNCHANGED rIn \/ Pending.type # "keyngack"
    BY <1>1 DEF Start, Collect, ConnectFails, BuildError, RegIgnores, RegError, RecvFails, TimesOut,
         RunError, ReportError, Apply, ApplyError, Die, EndSession, device, locals, gateway
  <2> QED
    BY <2>1, <2>2, <2>3, SilentQuiet, AgentQuietFreshInv
<1>2. CASE Connect
  BY <1>2, ConnectFreshInv
<1>3. CASE RecvKeyngack
  BY <1>3, RecvKeyngackFreshInv
<1>4. CASE RecvDh \/ RecvShortDh
  <2>1. \E x \in BOOLEAN : Derive(x)
    BY <1>4, Zenon DEF RecvDh, RecvShortDh
  <2> QED
    BY <2>1, DeriveFreshInv
<1>5. CASE KeepAlive
  <2>1. sid \in Sessions
    BY <1>5 DEF TypeInv, InUse, KeepAlive, Waiting
  <2>2. Sealed("keepalive", sequence) \in OutFrame
    BY FrameTypes DEF TypeInv, TypeOK, OutTypes
  <2>3. Quiet
    BY <1>5, <2>1, <2>2, SendQuiet DEF KeepAlive, Sealed
  <2> QED
    BY <1>5, <2>3, AgentQuietFreshInv DEF KeepAlive
<1>6. CASE RecvRun
  <2>1. sid \in Sessions
    BY <1>6 DEF TypeInv, InUse, RecvRun
  <2>2. Sealed("dev_report", sequence) \in OutFrame
    BY FrameTypes DEF TypeInv, TypeOK, OutTypes
  <2>3. Quiet
    BY <1>6, <2>1, <2>2, SendQuiet DEF RecvRun, Sealed
  <2> QED
    BY <1>6, <2>1, <2>3, AgentQuietFreshInv DEF RecvRun
<1>7. CASE Answer
  <2>1. sid \in Sessions /\ Command \in InFrame /\ Command.type \in CmdTypes
    BY <1>7 DEF TypeInv, TypeOK, InUse, Answer, Command
  <2>2. AnswerTo(Command) \in OutFrame /\ AnswerTo(Command).type \notin {"dh", "dev_reg"}
    BY <2>1, AnswerToType DEF AnswerTypes
  <2>3. Quiet
    BY <1>7, <2>1, <2>2, SendQuiet, SilentQuiet DEF Answer
  <2> QED
    BY <1>7, <2>3, AgentQuietFreshInv DEF Answer
<1>8. CASE \E s \in Sessions : \/ GwRecv(s) \/ GwCommand(s) \/ GwBadCommand(s)
                               \/ GwSeesClose(s) \/ GwStrays(s) \/ Disconnect(s)
  BY <1>8, GatewayStepsReadOn, GatewayFreshInv
<1>9. CASE UNCHANGED vars
  <2>1. UNCHANGED <<sid, gen, in, rIn, pc, privkey, out>>
    BY <1>9 DEF vars, device, locals
  <2> QED
    BY <2>1, SilentQuiet, AgentQuietFreshInv
<1> QED
  BY <1>1, <1>2, <1>3, <1>4, <1>5, <1>6, <1>7, <1>8, <1>9
  DEF Next, DeviceStep, GatewayStep, FaultStep, Idle

LEMMA FreshInvFresh == TypeInv /\ KeyInv /\ FreshInv => FreshSecrets
<1> SUFFICES ASSUME TypeInv, KeyInv, FreshInv, NEW s \in Sessions, NEW t \in Sessions,
                    NEW i \in Registration(s), NEW j \in Registration(t),
                    s # t, Orderly(s), Orderly(t)
             PROVE  out[s][i].key.dev # out[t][j].key.dev
  BY DEF FreshSecrets
<1>1. ASSUME NEW r \in Sessions, Orderly(r) PROVE ReadOrderly(r)
  <2>1. 1 .. rIn[r] \subseteq 1 .. Len(in[r])
    BY DEF TypeInv, TypeOK, KeyInv, Reading
  <2> QED
    BY <1>1, <2>1 DEF Orderly, ReadOrderly
<1>2. out[s][i].key.dev \in Published(s) /\ out[t][j].key.dev \in Published(t)
  BY <1>1 DEF FreshInv, RegFromHere
<1> QED
  BY <1>2 DEF FreshInv, PublishedOnce

\* No private key serves two connections of gateways that ask before they
\* answer, however many connections are lost on the way.
THEOREM SecretsStayFresh == Spec => []FreshSecrets
<1>1. Spec => [](TypeInv /\ KeyInv /\ FreshInv)
  BY InitTypeInv, NextTypeInv, InitKeyInv, NextKeyInv, InitFreshInv, NextFreshInv, PTL DEF Spec
<1> QED
  BY <1>1, FreshInvFresh, PTL

-----------------------------------------------------------------------------
(***************************************************************************)
(* Acknowledgements.  An ack is numbered after the command it answers; that*)
(* it means this command and no other one needs that no two commands of a  *)
(* connection have the same number, which is the count of them so far.     *)
(***************************************************************************)

LEMMA NumberType ==
  ASSUME NEW q, NEW n \in Nat, NEW T
  PROVE  Number(q, n, T) \in Nat /\ IsFiniteSet({i \in 1 .. n : q[i].type \in T})
<1>1. IsFiniteSet(1 .. n)
  BY FS_Interval
<1>2. IsFiniteSet({i \in 1 .. n : q[i].type \in T})
  BY <1>1, FS_Subset
<1> QED
  BY <1>2, FS_CardinalityType DEF Number

LEMMA NumberSame ==
  ASSUME NEW p, NEW q, NEW n \in Nat, NEW T, \A i \in 1 .. n : p[i] = q[i]
  PROVE  Number(p, n, T) = Number(q, n, T)
<1>1. {i \in 1 .. n : p[i].type \in T} = {i \in 1 .. n : q[i].type \in T}
  OBVIOUS
<1> QED
  BY <1>1 DEF Number

LEMMA NumberStep ==
  ASSUME NEW q, NEW n \in Nat, NEW T, q[n + 1].type \in T
  PROVE  Number(q, n + 1, T) = Number(q, n, T) + 1
<1> DEFINE A == {i \in 1 .. n : q[i].type \in T}
<1>1. {i \in 1 .. n + 1 : q[i].type \in T} = A \cup {n + 1} /\ n + 1 \notin A
  OBVIOUS
<1>2. IsFiniteSet(A)
  BY NumberType
<1> HIDE DEF A
<1>3. Cardinality(A \cup {n + 1}) = Cardinality(A) + 1
  BY <1>1, <1>2, FS_AddElement
<1> QED
  BY <1>1, <1>3 DEF Number, A

LEMMA NumberLess ==
  ASSUME NEW q, NEW a \in Nat, NEW b \in Nat, NEW T, a < b, q[b].type \in T
  PROVE  Number(q, a, T) < Number(q, b, T)
<1> DEFINE A == {i \in 1 .. a : q[i].type \in T}
           B == {i \in 1 .. b : q[i].type \in T}
<1>1. A \cup {b} \subseteq B /\ b \notin A
  OBVIOUS
<1>2. IsFiniteSet(A) /\ IsFiniteSet(B)
  BY NumberType
<1> HIDE DEF A, B
<1>3. Cardinality(A \cup {b}) = Cardinality(A) + 1
  BY <1>1, <1>2, FS_AddElement
<1>4. Cardinality(A \cup {b}) <= Cardinality(B)
  BY <1>1, <1>2, FS_Subset
<1>5. Cardinality(A) \in Nat /\ Cardinality(B) \in Nat
  BY <1>2, FS_CardinalityType
<1>6. Cardinality(A) < Cardinality(B)
  BY <1>3, <1>4, <1>5
<1> QED
  BY <1>6 DEF Number, A, B

AppliedAt(s, k) == \E n \in 1 .. Len(applied) : applied[n] = <<s, k>>

\* A command without a number has 0, the others count.
Numbered ==
  \A s \in Sessions : \A k \in 1 .. Len(in[s]) :
    in[s][k].type \in CmdTypes => in[s][k].num \in {0, Number(in[s], k, CmdTypes)}

\* The k-th frame is a command that was read and carried out, and f its ack.
AckOf(f, s, k) ==
  /\ in[s][k].type \in CmdTypes
  /\ in[s][k].num # 0 => f.num = in[s][k].num
  /\ in[s][k].full => AppliedAt(s, k)

AckCause ==
  \A s \in Sessions : \A i \in 1 .. Len(out[s]) :
    out[s][i].type = "ack" => \E k \in 1 .. rIn[s] : AckOf(out[s][i], s, k)

HandApplied == pc = "answer" /\ Command.full => AppliedAt(sid, rIn[sid])

AckInv == Numbered /\ AckCause /\ HandApplied

LEMMA InitAckInv == Init => AckInv
<1> SUFFICES ASSUME Init PROVE AckInv
  OBVIOUS
<1>1. pc = "dead" /\ \A s \in Sessions : out[s] = <<>> /\ in[s] = <<>>
  BY DEF Init
<1> QED
  BY <1>1 DEF AckInv, Numbered, AckCause, HandApplied

\* A step that acknowledges nothing: what was carried out stays so.
NoAck ==
  \A t \in Sessions :
    \A i \in 1 .. Len(out'[t]) :
      out'[t][i].type = "ack" => i \in 1 .. Len(out[t]) /\ out'[t][i] = out[t][i]

StillApplied == \A s \in Sessions, k \in Nat : AppliedAt(s, k) => AppliedAt(s, k)'

\* What an acknowledgement was for stays what it was for.
LEMMA AckOfKept ==
  ASSUME TypeInv, TypeInv', ReadsOn, StillApplied, NEW s \in Sessions, NEW f,
         NEW k \in 1 .. rIn[s], AckOf(f, s, k)
  PROVE  k \in 1 .. rIn'[s] /\ AckOf(f, s, k)'
<1>1. rIn[s] \in Nat /\ rIn'[s] \in Nat /\ rIn[s] <= rIn'[s]
  BY DEF TypeInv, TypeOK, ReadsOn
<1>2. in'[s][k] = in[s][k]
  BY DEF ReadsOn
<1> QED
  BY <1>1, <1>2 DEF AckOf, StillApplied

LEMMA NoAckCause ==
  ASSUME TypeInv, TypeInv', AckCause, NoAck, ReadsOn, StillApplied
  PROVE  AckCause'
<1> SUFFICES ASSUME NEW s \in Sessions, NEW i \in 1 .. Len(out'[s]), out'[s][i].type = "ack"
             PROVE  \E k \in 1 .. rIn'[s] : AckOf(out[s][i], s, k)'
  BY DEF AckCause, NoAck
<1>1. i \in 1 .. Len(out[s]) /\ out'[s][i] = out[s][i]
  BY DEF NoAck
<1>2. PICK k \in 1 .. rIn[s] : AckOf(out[s][i], s, k)
  BY <1>1 DEF AckCause
<1>3. k \in 1 .. rIn'[s] /\ AckOf(out[s][i], s, k)'
  BY <1>1, <1>2, AckOfKept DEF AckOf
<1> QED
  BY <1>3

LEMMA SendNoAck ==
  ASSUME TypeInv, NEW s \in Sessions, NEW f \in OutFrame, Send(s, f), f.type # "ack"
  PROVE  NoAck
<1>1. /\ \A t \in Sessions : t # s => out'[t] = out[t]
      /\ Len(out[s]) \in Nat /\ Len(out'[s]) = Len(out[s]) + 1
      /\ \A i \in 1 .. Len(out[s]) : out'[s][i] = out[s][i]
      /\ out'[s][Len(out[s]) + 1] = f
  BY SendShape
<1> QED
  BY <1>1 DEF NoAck

\* The agent's steps that send no acknowledgement.
LEMMA AgentNoAckStep ==
  ASSUME TypeInv, TypeInv', KeyInv, AckInv, NoAck, UNCHANGED <<in, applied>>,
         (sid \in Sessions /\ Readable /\ Read) \/ UNCHANGED rIn,
         pc' = "answer" => UNCHANGED <<pc, sid, rIn>>
  PROVE  AckInv'
<1>1. ReadsOn
  BY ReadReadsOn
<1>2. StillApplied
  BY DEF StillApplied, AppliedAt
<1>3. Numbered'
  BY DEF AckInv, Numbered
<1>4. AckCause'
  BY <1>1, <1>2, NoAckCause DEF AckInv
<1>5. HandApplied'
  BY DEF AckInv, HandApplied, Command, AppliedAt
<1> QED
  BY <1>3, <1>4, <1>5 DEF AckInv

LEMMA ApplyAckInv ==
  ASSUME TypeInv, TypeInv', KeyInv, AckInv, Apply
  PROVE  AckInv'
<1>1. UNCHANGED <<sid, in, rIn, out>> /\ pc = "apply" /\ sid \in Sessions
  BY DEF TypeInv, InUse, Apply
<1>2. rIn[sid] \in Nat /\ applied \in Seq(Sessions \X Nat)
  BY <1>1 DEF TypeInv, TypeOK
<1>3. applied' = IF Command.full THEN Append(applied, <<sid, rIn[sid]>>) ELSE applied
  BY DEF Apply
<1> DEFINE e == <<sid, rIn[sid]>>
<1>4. e \in Sessions \X Nat
  BY <1>1, <1>2
<1> HIDE DEF e
<1>5. /\ Len(Append(applied, e)) = Len(applied) + 1 /\ Len(applied) \in Nat
      /\ \A i \in 1 .. Len(applied) : Append(applied, e)[i] = applied[i]
      /\ Append(applied, e)[Len(applied) + 1] = e
  BY <1>2, <1>4, AppendFacts
<1>6. StillApplied
  <2> SUFFICES ASSUME NEW s \in Sessions, NEW k \in Nat,
                      NEW n \in 1 .. Len(applied), applied[n] = <<s, k>>
               PROVE  n \in 1 .. Len(applied') /\ applied'[n] = <<s, k>>
    BY DEF StillApplied, AppliedAt
  <2> QED
    BY <1>3, <1>5 DEF e
<1>7. HandApplied'
  <2> SUFFICES ASSUME Command.full PROVE AppliedAt(sid, rIn[sid])'
    BY <1>1 DEF HandApplied, Command
  <2>1. applied' = Append(applied, e)
    BY <1>3 DEF e
  <2>2. Len(applied) + 1 \in 1 .. Len(applied') /\ applied'[Len(applied) + 1] = e
    BY <1>5, <2>1
  <2> QED
    BY <1>1, <2>2 DEF AppliedAt, e
<1>8. NoAck
  BY <1>1 DEF NoAck
<1>9. ReadsOn
  BY <1>1, ReadReadsOn
<1>10. Numbered'
  BY <1>1 DEF AckInv, Numbered
<1>11. AckCause'
  BY <1>6, <1>8, <1>9, NoAckCause DEF AckInv
<1> QED
  BY <1>7, <1>10, <1>11 DEF AckInv

LEMMA AnswerAckInv ==
  ASSUME TypeInv, TypeInv', KeyInv, AckInv, Answer
  PROVE  AckInv'
<1>1. /\ sid \in Sessions /\ Command \in InFrame /\ Command.type \in CmdTypes
      /\ rIn[sid] \in 1 .. Len(in[sid]) /\ pc = "answer" /\ pc' = "run"
      /\ UNCHANGED <<sid, in, rIn, applied>>
  BY DEF TypeInv, TypeOK, InUse, Answer, Command
<1>2. AnswerTo(Command) \in OutFrame
  BY <1>1, AnswerToType
<1>3. CASE Send(sid, AnswerTo(Command)) /\ AnswerTo(Command).type = "ack"
  <2> DEFINE f == AnswerTo(Command)
  <2>1. f \in OutFrame /\ Send(sid, f) /\ f.type = "ack"
    BY <1>2, <1>3
  <2>2. AckOf(f, sid, rIn[sid])
    <3>1. Command.num # 0 => f.num = Command.num
      BY <1>1 DEF AnswerTo, Sealed, CmdTypes
    <3>2. Command.full => AppliedAt(sid, rIn[sid])
      BY <1>1 DEF AckInv, HandApplied
    <3> HIDE DEF f
    <3> QED
      BY <1>1, <3>1, <3>2 DEF AckOf, Command
  <2> HIDE DEF f
  <2>3. PICK last \in Nat :
          /\ 1 .. Len(out'[sid]) = (1 .. Len(out[sid])) \cup {last}
          /\ last \notin 1 .. Len(out[sid])
          /\ out'[sid][last] = f
          /\ \A i \in 1 .. Len(out[sid]) : out'[sid][i] = out[sid][i]
          /\ \A t \in Sessions : t # sid => out'[t] = out[t]
    BY <1>1, <2>1, SentLast
  <2>4. ReadsOn
    BY <1>1, ReadReadsOn
  <2>5. StillApplied
    BY <1>1 DEF StillApplied, AppliedAt
  <2>6. rIn[sid] \in 1 .. rIn[sid]
    BY <1>1
  <2>7. AckCause'
    <3> SUFFICES ASSUME NEW s \in Sessions, NEW i \in 1 .. Len(out'[s]), NEW g,
                        g = out'[s][i], g.type = "ack"
                 PROVE  \E k \in 1 .. rIn'[s] : AckOf(g, s, k)'
      BY DEF AckCause, AckOf
    <3>1. PICK k \in 1 .. rIn[s] : AckOf(g, s, k)
      <4>1. CASE s = sid /\ i = last
        BY <2>2, <2>3, <2>6, <4>1
      <4>2. CASE ~(s = sid /\ i = last)
        <5>1. i \in 1 .. Len(out[s]) /\ g = out[s][i]
          BY <2>3, <4>2
        <5> QED
          BY <5>1 DEF AckInv, AckCause
      <4> QED
        BY <4>1, <4>2
    <3> QED
      BY <2>4, <2>5, <3>1, AckOfKept
  <2> QED
    BY <1>1, <2>7 DEF AckInv, Numbered, HandApplied
<1>4. CASE UNCHANGED out \/ (Send(sid, AnswerTo(Command)) /\ AnswerTo(Command).type # "ack")
  <2>1. NoAck
    BY <1>1, <1>2, <1>4, SendNoAck DEF NoAck
  <2> QED
    BY <1>1, <2>1, AgentNoAckStep
<1> QED
  BY <1>3, <1>4 DEF Answer

\* A command the gateway adds gets the next number.
LEMMA SayNumbered ==
  ASSUME TypeInv, Numbered, NEW s \in Sessions, NEW f \in InFrame, Say(s, f),
         f.type \in CmdTypes => f.num \in {0, Sent(s) + 1}
  PROVE  Numbered'
<1>1. /\ in'[s] = Append(in[s], f) /\ in[s] \in Seq(InFrame)
      /\ \A t \in Sessions : t # s => in'[t] = in[t]
  BY DEF TypeInv, TypeOK, Say
<1>2. /\ Len(in[s]) \in Nat /\ Len(in'[s]) = Len(in[s]) + 1
      /\ \A i \in 1 .. Len(in[s]) : in'[s][i] = in[s][i]
      /\ in'[s][Len(in[s]) + 1] = f
  BY <1>1, AppendFacts
<1> SUFFICES ASSUME NEW t \in Sessions, NEW k \in 1 .. Len(in'[t]), in'[t][k].type \in CmdTypes
             PROVE  in'[t][k].num \in {0, Number(in'[t], k, CmdTypes)}
  BY DEF Numbered
<1>3. CASE t # s
  BY <1>1, <1>3 DEF Numbered
<1>4. CASE t = s /\ k \in 1 .. Len(in[s])
  <2>1. \A i \in 1 .. k : in'[s][i] = in[s][i]
    BY <1>2, <1>4
  <2>2. Number(in'[s], k, CmdTypes) = Number(in[s], k, CmdTypes)
    BY <1>4, <2>1, NumberSame
  <2> QED
    BY <1>2, <1>4, <2>2 DEF Numbered
<1>5. CASE t = s /\ k = Len(in[s]) + 1
  <2>1. Number(in'[s], Len(in[s]), CmdTypes) = Sent(s)
    <3> DEFINE p == in'[s]
               n == Len(in[s])
    <3>1. n \in Nat /\ \A i \in 1 .. n : p[i] = in[s][i]
      BY <1>2
    <3> HIDE DEF p, n
    <3>2. Number(p, n, CmdTypes) = Number(in[s], n, CmdTypes)
      BY <3>1, NumberSame
    <3> QED
      BY <3>2 DEF Sent, p, n
  <2>2. Number(in'[s], k, CmdTypes) = Number(in'[s], Len(in[s]), CmdTypes) + 1
    BY <1>2, <1>5, NumberStep
  <2> QED
    BY <1>2, <1>5, <2>1, <2>2
<1> QED
  BY <1>2, <1>3, <1>4, <1>5

\* What a cut leaves of a log keeps its numbers.
LEMMA CutNumbered ==
  ASSUME TypeInv, Numbered, NEW s \in Sessions, Disconnect(s)
  PROVE  Numbered'
<1> SUFFICES ASSUME NEW t \in Sessions, NEW k \in 1 .. Len(in'[t]), in'[t][k].type \in CmdTypes
             PROVE  in'[t][k].num \in {0, Number(in'[t], k, CmdTypes)}
  BY DEF Numbered
<1>1. in'[t][k].type # "cut"
  BY DEF CmdTypes
<1>2. /\ k \in 1 .. Len(in[t]) /\ in'[t][k] = in[t][k]
      /\ \A h \in 1 .. k : in'[t][h] = in[t][h]
  BY <1>1, CutTypes
<1>3. Number(in'[t], k, CmdTypes) = Number(in[t], k, CmdTypes)
  BY <1>2, NumberSame
<1> QED
  BY <1>2, <1>3 DEF Numbered

LEMMA GatewayNumbered ==
  ASSUME TypeInv, Numbered, NEW s \in Sessions,
         \/ GwRecv(s) \/ GwCommand(s) \/ GwBadCommand(s)
         \/ GwSeesClose(s) \/ GwStrays(s) \/ Disconnect(s)
  PROVE  Numbered'
<1>1. CASE GwCommand(s) \/ GwBadCommand(s)
  <2>1. PICK k \in CmdKinds :
          Say(s, GwFrame(k.type, gwKey[s], IF k.numbered THEN Sent(s) + 1 ELSE 0, 0, k.full))
    BY <1>1 DEF GwCommand, GwBadCommand, GwIssues
  <2> DEFINE f == GwFrame(k.type, gwKey[s], IF k.numbered THEN Sent(s) + 1 ELSE 0, 0, k.full)
  <2>2. f \in InFrame
    BY IssuedType
  <2>3. f.num \in {0, Sent(s) + 1}
    BY DEF GwFrame
  <2> HIDE DEF f
  <2> QED
    BY <2>1, <2>2, <2>3, SayNumbered DEF f
<1>2. CASE GwRecv(s)
  <2>1. out[s][rOut[s] + 1] \in OutFrame /\ gwKey[s] \in Keys
    <3>1. rOut[s] \in Nat /\ out[s] \in Seq(OutFrame) /\ gwKey[s] \in Keys
      BY DEF TypeInv, TypeOK
    <3>2. rOut[s] < Len(out[s])
      BY <1>2 DEF GwRecv
    <3> QED
      BY <3>1, <3>2
  <2> DEFINE f == out[s][rOut[s] + 1]
             a == GwFrame("keyngack", NoKey, f.num, 0, TRUE)
             b == GwFrame("dh", NoKey, f.num, s, TRUE)
             c == GwFrame("ack", gwKey[s], f.num, 0, TRUE)
  <2>2. UNCHANGED in \/ Say(s, a) \/ Say(s, b) \/ Say(s, c)
    BY <1>2 DEF GwRecv, GwAcks
  <2>3. f.num \in Nat /\ s \in Nat
    BY <2>1 DEF OutFrame, Sessions
  <2> HIDE DEF f
  <2>4. /\ a \in InFrame /\ b \in InFrame /\ c \in InFrame
        /\ a.type \notin CmdTypes /\ b.type \notin CmdTypes /\ c.type \notin CmdTypes
    BY <2>1, <2>3, NoKeyType, GwFrameTypes DEF InTypes, GwFrame, CmdTypes
  <2> HIDE DEF a, b, c
  <2>5. CASE UNCHANGED in
    BY <2>5 DEF Numbered
  <2> QED
    BY <2>2, <2>4, <2>5, SayNumbered
<1>3. CASE GwStrays(s)
  <2>1. PICK t \in {"keyngack", "dh", "ack", "garbage"} : Say(s, GwFrame(t, NoKey, 0, s, TRUE))
    BY <1>3 DEF GwStrays
  <2> DEFINE f == GwFrame(t, NoKey, 0, s, TRUE)
  <2>2. t \in InTypes /\ s \in Nat /\ t \notin CmdTypes
    BY DEF InTypes, Sessions, CmdTypes
  <2>3. f \in InFrame /\ f.type \notin CmdTypes
    BY <2>2, NoKeyType, GwFrameTypes DEF GwFrame
  <2> HIDE DEF f
  <2> QED
    BY <2>1, <2>3, SayNumbered DEF f
<1>4. CASE GwSeesClose(s)
  BY <1>4 DEF GwSeesClose, Numbered
<1> QED
  BY <1>1, <1>2, <1>3, <1>4, CutNumbered

LEMMA GatewayAckInv ==
  ASSUME TypeInv, TypeInv', KeyInv, AckInv, NEW s \in Sessions,
         \/ GwRecv(s) \/ GwCommand(s) \/ GwBadCommand(s)
         \/ GwSeesClose(s) \/ GwStrays(s) \/ Disconnect(s)
  PROVE  AckInv'
<1>1. UNCHANGED <<device, rIn, out>> /\ ReadsOn
  BY GatewayStepsReadOn
<1>2. UNCHANGED <<pc, sid, applied, out, rIn>>
  BY <1>1 DEF device
<1>3. Numbered'
  BY GatewayNumbered DEF AckInv
<1>4. AckCause'
  <2>1. NoAck /\ StillApplied
    BY <1>2 DEF NoAck, StillApplied, AppliedAt
  <2> QED
    BY <1>1, <2>1, NoAckCause DEF AckInv
<1>5. HandApplied'
  <2> SUFFICES ASSUME pc = "answer", Command'.full PROVE AppliedAt(sid, rIn[sid])'
    BY <1>2 DEF HandApplied
  <2>1. sid \in Sessions /\ rIn[sid] \in Nat /\ rIn[sid] >= 1
    BY DEF TypeInv, TypeOK, InUse
  <2>2. Command' = Command
    BY <1>1, <1>2, <2>1 DEF ReadsOn, Command
  <2> QED
    BY <1>2, <2>2 DEF AckInv, HandApplied, AppliedAt
<1> QED
  BY <1>3, <1>4, <1>5 DEF AckInv

LEMMA NextAckInv == TypeInv /\ TypeInv' /\ KeyInv /\ AckInv /\ [Next]_vars => AckInv'
<1> SUFFICES ASSUME TypeInv, TypeInv', KeyInv, AckInv, [Next]_vars PROVE AckInv'
  OBVIOUS
<1>1. CASE \/ Start \/ Collect \/ ConnectFails \/ BuildError \/ RegIgnores \/ RegError
           \/ RecvFails \/ TimesOut \/ RunError \/ ReportError \/ ApplyError
  <2>1. UNCHANGED <<in, applied, out>>
    BY <1>1 DEF Start, Collect, ConnectFails, BuildError, RegIgnores, RegError, RecvFails, TimesOut,
         RunError, ReportError, ApplyError, Die, EndSession, gateway, device, locals
  <2>2. (sid \in Sessions /\ Readable /\ Read) \/ UNCHANGED rIn
    BY <1>1 DEF TypeInv, InUse, Start, Collect, ConnectFails, BuildError, RegIgnores, RegError,
         RecvFails, TimesOut, RunError, ReportError, ApplyError, InReg, gateway
  <2>3. pc' = "answer" => UNCHANGED <<pc, sid, rIn>>
    BY <1>1 DEF Start, Collect, ConnectFails, BuildError, RegIgnores, RegError, RecvFails, TimesOut,
         RunError, ReportError, ApplyError, InReg, Die, EndSession, device, locals, gateway
  <2>4. NoAck
    BY <2>1 DEF NoAck
  <2> QED
    BY <2>1, <2>2, <2>3, <2>4, AgentNoAckStep
<1>2. CASE Connect
  <2>1. sid + 1 \in Sessions
    BY <1>2, BoundsAssumption DEF TypeInv, TypeOK, Connect, Sessions, MaxSession
  <2>2. Plain("keyngreq", sequence, 0) \in OutFrame
    BY FrameTypes DEF TypeInv, TypeOK, OutTypes
  <2>3. NoAck
    BY <1>2, <2>1, <2>2, SendNoAck DEF Connect, Plain
  <2> QED
    BY <1>2, <2>3, AgentNoAckStep DEF Connect
<1>3. CASE RecvKeyngack
  <2>1. sid \in Sessions
    BY <1>3 DEF TypeInv, InUse, RecvKeyngack, InReg
  <2>2. Plain("dh", sequence, gen + 1) \in OutFrame
    BY FrameTypes DEF TypeInv, TypeOK, OutTypes
  <2>3. NoAck
    BY <1>3, <2>1, <2>2, SendNoAck DEF RecvKeyngack, Plain
  <2> QED
    BY <1>3, <2>1, <2>3, AgentNoAckStep DEF RecvKeyngack, InReg
<1>4. CASE RecvDh \/ RecvShortDh
  <2>1. PICK x \in BOOLEAN : Derive(x)
    BY <1>4, Zenon DEF RecvDh, RecvShortDh
  <2> DEFINE f == [type |-> "dev_reg", key |-> secret', num |-> sequence, pub |-> 0]
  <2>2. sid \in Sessions /\ Send(sid, f)
    BY <2>1 DEF TypeInv, InUse, Derive, InReg
  <2>3. f \in OutFrame /\ f.type # "ack"
    BY DEF TypeInv, TypeOK, OutFrame, OutTypes
  <2> HIDE DEF f
  <2>4. NoAck
    BY <2>2, <2>3, SendNoAck
  <2> QED
    BY <2>1, <2>2, <2>4, AgentNoAckStep DEF Derive, InReg
<1>5. CASE KeepAlive
  <2>1. sid \in Sessions
    BY <1>5 DEF TypeInv, InUse, KeepAlive, Waiting
  <2>2. Sealed("keepalive", sequence) \in OutFrame
    BY FrameTypes DEF TypeInv, TypeOK, OutTypes
  <2>3. NoAck
    BY <1>5, <2>1, <2>2, SendNoAck DEF KeepAlive, Sealed
  <2> QED
    BY <1>5, <2>3, AgentNoAckStep DEF KeepAlive
<1>6. CASE RecvRun
  <2>1. sid \in Sessions
    BY <1>6 DEF TypeInv, InUse, RecvRun
  <2>2. Sealed("dev_report", sequence) \in OutFrame
    BY FrameTypes DEF TypeInv, TypeOK, OutTypes
  <2>3. NoAck
    BY <1>6, <2>1, <2>2, SendNoAck DEF RecvRun, Sealed
  <2> QED
    BY <1>6, <2>1, <2>3, AgentNoAckStep DEF RecvRun
<1>7. CASE Apply
  BY <1>7, ApplyAckInv
<1>8. CASE Answer
  BY <1>8, AnswerAckInv
<1>9. CASE \E s \in Sessions : \/ GwRecv(s) \/ GwCommand(s) \/ GwBadCommand(s)
                               \/ GwSeesClose(s) \/ GwStrays(s) \/ Disconnect(s)
  BY <1>9, GatewayAckInv
<1>10. CASE UNCHANGED vars
  <2>1. UNCHANGED <<in, applied, out, pc, sid, rIn>>
    BY <1>10 DEF vars, device
  <2>2. NoAck
    BY <2>1 DEF NoAck
  <2> QED
    BY <2>1, <2>2, AgentNoAckStep
<1> QED
  BY <1>1, <1>2, <1>3, <1>4, <1>5, <1>6, <1>7, <1>8, <1>9, <1>10
  DEF Next, DeviceStep, GatewayStep, FaultStep, Idle

LEMMA AckInvApplied == TypeInv /\ KeyInv /\ AckInv => AckedIsApplied
<1> SUFFICES ASSUME TypeInv, KeyInv, AckInv, NEW s \in Sessions,
                    NEW i \in 1 .. Len(out[s]), NEW j \in 1 .. rIn[s],
                    out[s][i].type = "ack", in[s][j].type = "cfg", in[s][j].full,
                    in[s][j].num = out[s][i].num,
                    \A k \in 1 .. Len(in[s]) : in[s][k].type \in CmdTypes => in[s][k].num # 0
             PROVE  \E n \in 1 .. Len(applied) : applied[n] = <<s, j>>
  BY DEF AckedIsApplied
<1>1. PICK k \in 1 .. rIn[s] : AckOf(out[s][i], s, k)
  BY DEF AckInv, AckCause
<1>2. rIn[s] \in Nat /\ rIn[s] <= Len(in[s]) /\ Len(in[s]) \in Nat
  BY DEF TypeInv, TypeOK, KeyInv, Reading
<1>3. k \in 1 .. Len(in[s]) /\ j \in 1 .. Len(in[s]) /\ k \in Nat /\ j \in Nat
  BY <1>2
<1>4. in[s][k].type \in CmdTypes /\ in[s][j].type \in CmdTypes
  BY <1>1 DEF AckOf, CmdTypes
<1>5. in[s][k].num = in[s][j].num
  BY <1>1, <1>3, <1>4 DEF AckOf
<1>6. Number(in[s], k, CmdTypes) = Number(in[s], j, CmdTypes)
  BY <1>3, <1>4, <1>5 DEF AckInv, Numbered
<1>7. k = j
  <2>1. Number(in[s], k, CmdTypes) \in Nat /\ Number(in[s], j, CmdTypes) \in Nat
    BY <1>3, NumberType
  <2>2. k < j => Number(in[s], k, CmdTypes) < Number(in[s], j, CmdTypes)
    BY <1>3, <1>4, NumberLess
  <2>3. j < k => Number(in[s], j, CmdTypes) < Number(in[s], k, CmdTypes)
    BY <1>3, <1>4, NumberLess
  <2> QED
    BY <1>3, <1>6, <2>1, <2>2, <2>3
<1> QED
  BY <1>1, <1>7 DEF AckOf, AppliedAt

\* What a gateway that numbers its commands sees acknowledged was carried out,
\* and stays carried out whatever becomes of the connection.
THEOREM AcknowledgedWasApplied == Spec => []AckedIsApplied
<1>1. Spec => [](TypeInv /\ KeyInv /\ AckInv)
  BY InitTypeInv, NextTypeInv, InitKeyInv, NextKeyInv, InitAckInv, NextAckInv, PTL DEF Spec
<1> QED
  BY <1>1, AckInvApplied, PTL

-----------------------------------------------------------------------------
(***************************************************************************)
(* Why connections end.  Whatever ends a connection (a close, a cut frame, *)
(* a frame that does not decode, a gateway that has nothing more to say)   *)
(* has a fault before it on that very connection.  So a connection without *)
(* a fault of its own is one that follows the protocol, and FaultsFirst    *)
(* says where such a connection can be.                                    *)
(***************************************************************************)

\* Connections to come.
Untouched ==
  \A s \in Sessions : s > sid =>
    /\ out[s] = <<>> /\ in[s] = <<>> /\ rOut[s] = 0 /\ rIn[s] = 0
    /\ phase[s] = "new" /\ s \notin open /\ s \notin shut

\* Five stages: keyngreq is out; the gateway wants a key; dh is out; the
\* gateway answered it; both have the secret.
KeyWanted ==
  /\ pc = "reg" /\ phase[sid] = "new"
  /\ Len(out[sid]) = 1 /\ rOut[sid] = 0 /\ Len(in[sid]) = 0 /\ rIn[sid] = 0
  /\ out[sid][1].type = "keyngreq"

KeyRequested ==
  /\ pc = "reg" /\ phase[sid] = "greeted"
  /\ Len(out[sid]) = 1 /\ rOut[sid] = 1 /\ Len(in[sid]) = 1 /\ rIn[sid] = 0
  /\ in[sid][1].type = "keyngack" /\ in[sid][1].key = NoKey

KeySent ==
  /\ pc = "reg" /\ phase[sid] = "greeted"
  /\ Len(out[sid]) = 2 /\ rOut[sid] = 1 /\ Len(in[sid]) = 1 /\ rIn[sid] = 1
  /\ out[sid][2].type = "dh" /\ out[sid][2].pub = privkey /\ privkey # 0

KeyAnswered ==
  /\ pc = "reg" /\ phase[sid] = "keyed" /\ privkey # 0
  /\ gwKey[sid] = [dev |-> privkey, gw |-> sid, exact |-> TRUE]
  /\ Len(out[sid]) = 2 /\ rOut[sid] = 2 /\ Len(in[sid]) = 2 /\ rIn[sid] = 1
  /\ in[sid][2].type = "dh" /\ in[sid][2].key = NoKey /\ in[sid][2].pub = sid

\* What a registered agent is sent decodes and does not raise.
Decent(f, key) == f.type \in {"ack"} \cup CmdTypes /\ f.key = key /\ ~Raises(f)

Served ==
  /\ Registered /\ secret = gwKey[sid]
  /\ phase[sid] = "registered" \/ (phase[sid] = "keyed" /\ rOut[sid] = 2)
  /\ Len(out[sid]) >= 3 /\ out[sid][3].type = "dev_reg" /\ out[sid][3].key = secret
  /\ rIn[sid] >= IF pc = "run" THEN 2 ELSE 3
  /\ \A k \in 3 .. Len(in[sid]) : Decent(in[sid][k], secret)

Stages == KeyWanted \/ KeyRequested \/ KeySent \/ KeyAnswered \/ Served

Undisturbed == sid \in Sessions /\ sid \in open /\ sid \notin shut /\ Stages

FaultsFirst == sid <= faults + 1 /\ (sid <= faults \/ Undisturbed)

LEMMA InitFaultsFirst == Init => Untouched /\ FaultsFirst
<1> SUFFICES ASSUME Init PROVE Untouched /\ FaultsFirst
  OBVIOUS
<1>1. sid = 0 /\ faults = 0 /\ open = {} /\ shut = {}
  BY DEF Init
<1>2. \A s \in Sessions : /\ out[s] = <<>> /\ in[s] = <<>> /\ rOut[s] = 0 /\ rIn[s] = 0
                          /\ phase[s] = "new"
  BY DEF Init
<1> QED
  BY <1>1, <1>2 DEF Untouched, FaultsFirst

\* The agent touches the connection in use, or the next one, and the gateway
\* nothing that is not open or was not.
LEMMA AgentTouches ==
  ASSUME TypeInv, DeviceStep \/ Collect \/ ConnectFails \/ BuildError \/ RecvShortDh
                    \/ TimesOut \/ ReportError \/ ApplyError
  PROVE  /\ sid' \in {sid, sid + 1} /\ UNCHANGED <<in, rOut, phase, shut>>
         /\ open' \subseteq open \cup {sid'}
         /\ \A t \in Sessions : t # sid /\ t # sid' => out'[t] = out[t] /\ rIn'[t] = rIn[t]
<1>1. out \in [Sessions -> Seq(OutFrame)] /\ rIn \in [Sessions -> Nat]
  BY DEF TypeInv, TypeOK
<1>2. CASE Start \/ Collect \/ Apply \/ Idle
  BY <1>2 DEF Start, Collect, Apply, Idle, locals, gateway, device, vars
<1>3. CASE Connect
  BY <1>1, <1>3 DEF Connect, Send, gateway
<1>4. CASE ConnectFails \/ BuildError \/ TimesOut \/ ApplyError
  BY <1>4 DEF ConnectFails, BuildError, TimesOut, ApplyError, Die, EndSession, gateway, locals
<1>5. CASE RecvKeyngack \/ RecvDh \/ RecvShortDh
  BY <1>1, <1>5 DEF RecvKeyngack, RecvDh, RecvShortDh, Derive, Read, Send, gateway
<1>6. CASE RegIgnores \/ RegError \/ RecvFails \/ RunError \/ ReportError
  BY <1>1, <1>6 DEF RegIgnores, RegError, RecvFails, RunError, ReportError, Read, Die, EndSession,
     gateway, device, locals
<1>7. CASE KeepAlive \/ RecvRun \/ Answer
  BY <1>1, <1>7 DEF KeepAlive, RecvRun, Answer, Read, Send, gateway
<1> QED
  BY <1>2, <1>3, <1>4, <1>5, <1>6, <1>7 DEF DeviceStep

LEMMA GatewayTouches ==
  ASSUME TypeInv, NEW s \in Sessions,
         \/ GwRecv(s) \/ GwCommand(s) \/ GwBadCommand(s)
         \/ GwSeesClose(s) \/ GwStrays(s) \/ Disconnect(s)
  PROVE  /\ UNCHANGED <<device, out, rIn>>
         /\ s \in open \/ phase[s] = "registered" \/ s \in 1 .. sid
         /\ shut' \subseteq shut \cup {s}
         /\ \A t \in Sessions :
              t # s => /\ in'[t] = in[t] /\ rOut'[t] = rOut[t]
                       /\ phase'[t] = phase[t] /\ gwKey'[t] = gwKey[t]
<1>1. /\ in \in [Sessions -> Seq(InFrame)] /\ rOut \in [Sessions -> Nat]
      /\ phase \in [Sessions -> Phases] /\ gwKey \in [Sessions -> Keys]
  BY DEF TypeInv, TypeOK
<1>2. CASE GwRecv(s)
  BY <1>1, <1>2 DEF GwRecv, GwAcks, Say
<1>3. CASE GwCommand(s) \/ GwBadCommand(s)
  BY <1>1, <1>3 DEF GwCommand, GwBadCommand, GwIssues, Say, gateway
<1>4. CASE GwSeesClose(s) \/ Disconnect(s)
  BY <1>1, <1>4 DEF GwSeesClose, Disconnect
<1>5. CASE GwStrays(s)
  BY <1>1, <1>5 DEF GwStrays, Say, gateway
<1> QED
  BY <1>2, <1>3, <1>4, <1>5

LEMMA NextUntouched == TypeInv /\ Untouched /\ [Next]_vars => Untouched'
<1> SUFFICES ASSUME TypeInv, Untouched, [Next]_vars PROVE Untouched'
  OBVIOUS
<1>0. sid \in Nat
  BY BoundsAssumption DEF TypeInv, TypeOK, MaxSession
<1>1. CASE DeviceStep \/ Collect \/ ConnectFails \/ BuildError \/ RecvShortDh
             \/ TimesOut \/ ReportError \/ ApplyError
  <2>1. /\ sid' \in {sid, sid + 1} /\ UNCHANGED <<in, rOut, phase, shut>>
        /\ open' \subseteq open \cup {sid'}
        /\ \A t \in Sessions : t # sid /\ t # sid' => out'[t] = out[t] /\ rIn'[t] = rIn[t]
    BY <1>1, AgentTouches
  <2>2. \A t \in Sessions : t > sid' => t > sid /\ t # sid /\ t # sid'
    BY <1>0, <2>1 DEF Sessions
  <2>. QED BY <2>1, <2>2 DEF Untouched
<1>2. CASE \E s \in Sessions : \/ GwRecv(s) \/ GwCommand(s) \/ GwBadCommand(s)
                               \/ GwSeesClose(s) \/ GwStrays(s) \/ Disconnect(s)
  <2>1. PICK s \in Sessions : \/ GwRecv(s) \/ GwCommand(s) \/ GwBadCommand(s)
                              \/ GwSeesClose(s) \/ GwStrays(s) \/ Disconnect(s)
    BY <1>2
  <2>2. /\ UNCHANGED <<sid, open, out, rIn>>
        /\ s \in open \/ phase[s] = "registered" \/ s \in 1 .. sid
        /\ shut' \subseteq shut \cup {s}
        /\ \A t \in Sessions : t # s => /\ in'[t] = in[t] /\ rOut'[t] = rOut[t]
                                        /\ phase'[t] = phase[t]
    BY <2>1, GatewayTouches DEF device
  <2>3. \A t \in Sessions : t > sid => t # s
    BY <1>0, <2>2 DEF Untouched, Sessions
  <2>. QED BY <2>2, <2>3 DEF Untouched
<1>3. CASE UNCHANGED vars
  BY <1>3 DEF vars, device, gateway, Untouched
<1>. QED
  BY <1>1, <1>2, <1>3 DEF Next, FaultStep, GatewayStep

LEMMA SayShape ==
  ASSUME TypeInv, NEW s \in Sessions, NEW f \in InFrame, Say(s, f)
  PROVE  /\ \A t \in Sessions : t # s => in'[t] = in[t]
         /\ Len(in[s]) \in Nat /\ Len(in'[s]) = Len(in[s]) + 1
         /\ \A i \in 1 .. Len(in[s]) : in'[s][i] = in[s][i]
         /\ in'[s][Len(in[s]) + 1] = f
<1>1. in[s] \in Seq(InFrame)
  BY DEF TypeInv, TypeOK
<1>2. in'[s] = Append(in[s], f) /\ \A t \in Sessions : t # s => in'[t] = in[t]
  BY DEF TypeInv, TypeOK, Say
<1> QED
  BY <1>1, <1>2, AppendFacts

\* The agent's own steps on an undisturbed connection.
LEMMA ConnectUndisturbed ==
  ASSUME TypeInv, Untouched, Connect
  PROVE  Undisturbed'
<1> DEFINE n == sid + 1
<1>1. n \in Sessions /\ n > sid /\ sid' = n /\ pc' = "reg" /\ n \in open'
  BY BoundsAssumption DEF TypeInv, TypeOK, Connect, Sessions, MaxSession
<1>2. UNCHANGED <<in, rIn, phase, rOut, shut>>
  BY DEF Connect, gateway
<1>3. Plain("keyngreq", sequence, 0) \in OutFrame
  BY FrameTypes DEF TypeInv, TypeOK, OutTypes
<1>4. /\ Len(out[n]) = 0 /\ Len(in[n]) = 0 /\ rOut[n] = 0 /\ rIn[n] = 0
      /\ phase[n] = "new" /\ n \notin shut
  BY <1>1 DEF Untouched
<1>5. Len(out'[n]) = 1 /\ out'[n][1].type = "keyngreq"
  <2> DEFINE f == Plain("keyngreq", sequence, 0)
  <2>1. f \in OutFrame /\ f.type = "keyngreq" /\ Send(n, f)
    BY <1>3 DEF Connect, Plain
  <2> HIDE DEF f, n
  <2>2. Len(out'[n]) = Len(out[n]) + 1 /\ out'[n][Len(out[n]) + 1] = f
    BY <1>1, <2>1, SendShape
  <2> QED
    BY <1>4, <2>1, <2>2
<1> HIDE DEF n
<1>6. KeyWanted'
  BY <1>1, <1>2, <1>4, <1>5 DEF KeyWanted
<1> QED
  BY <1>1, <1>2, <1>4, <1>6 DEF Undisturbed, Stages

\* Which stage it is in tells what there is to read.
LEMMA StageReads ==
  ASSUME TypeInv, KeyInv, Undisturbed
  PROVE  /\ pc \in {"reg", "run", "apply", "answer"}
         /\ ~Stuck \/ Readable
         /\ pc = "reg" /\ Readable => (KeyRequested /\ Pending = in[sid][1])
                                        \/ (KeyAnswered /\ Pending = in[sid][2])
         /\ pc # "reg" => Served
         /\ Served /\ Readable => Decent(Pending, secret)
         /\ pc = "apply" => ~Raises(Command)
<1>1. /\ rIn[sid] \in Nat /\ rIn[sid] <= Len(in[sid]) /\ Len(in[sid]) \in Nat
      /\ rOut[sid] \in Nat /\ Len(out[sid]) \in Nat
  BY DEF Undisturbed, TypeInv, TypeOK, KeyInv, Reading
<1>2. Stages
  BY DEF Undisturbed
<1>3. CASE KeyWanted
  BY <1>1, <1>3 DEF KeyWanted, Served, Registered, Stuck, Readable
<1>4. CASE KeyRequested
  BY <1>1, <1>4 DEF KeyRequested, Served, Registered, Stuck, Readable, Pending
<1>5. CASE KeySent
  BY <1>1, <1>5 DEF KeySent, Served, Registered, Stuck, Readable
<1>6. CASE KeyAnswered
  BY <1>1, <1>6 DEF KeyAnswered, Served, Registered, Stuck, Readable, Pending
<1>7. CASE Served
  <2>1. pc \in {"run", "apply", "answer"} /\ rIn[sid] >= 2
    BY <1>1, <1>7 DEF Served, Registered
  <2>2. ~Stuck
    BY <1>1, <1>7 DEF Served, Stuck
  <2>3. Readable => rIn[sid] + 1 \in 3 .. Len(in[sid])
    BY <1>1, <2>1 DEF Readable
  <2>4. Readable => Decent(Pending, secret)
    BY <1>7, <2>3 DEF Served, Pending
  <2>5. pc = "apply" => rIn[sid] \in 3 .. Len(in[sid])
    BY <1>1, <1>7 DEF Served
  <2>6. pc = "apply" => ~Raises(Command)
    BY <1>7, <2>5 DEF Served, Command, Decent
  <2>. QED BY <1>7, <2>1, <2>2, <2>4, <2>6
<1>. QED
  BY <1>2, <1>3, <1>4, <1>5, <1>6, <1>7 DEF Stages

\* What ends a connection does not happen to it.
LEMMA NoCauseToEnd ==
  ASSUME TypeInv, KeyInv, Undisturbed
  PROVE  ~(Start \/ Connect \/ RecvFails \/ RegError \/ RegIgnores \/ RunError
             \/ (ApplyError /\ NoFault /\ Raises(Command)))
<1>1. /\ pc \in {"reg", "run", "apply", "answer"} /\ sid \notin shut
      /\ ~Stuck \/ Readable
      /\ pc = "reg" /\ Readable => (KeyRequested /\ Pending = in[sid][1])
                                     \/ (KeyAnswered /\ Pending = in[sid][2])
      /\ pc # "reg" => Served
      /\ Served /\ Readable => Decent(Pending, secret)
      /\ pc = "apply" => ~Raises(Command)
  BY StageReads DEF Undisturbed
<1>2. ~Start /\ ~Connect
  BY <1>1 DEF Start, Connect
<1>3. pc = "reg" /\ Readable =>
        /\ Pending.key = NoKey
        /\ Pending.type = "keyngack" \/ (Pending.type = "dh" /\ privkey # 0)
  BY <1>1 DEF KeyRequested, KeyAnswered
<1>4. pc = "run" /\ Readable => Understood /\ Pending.type # "cut"
  BY <1>1 DEF Decent, Understood, CmdTypes
<1>5. ~RecvFails
  BY <1>1, <1>3, <1>4 DEF RecvFails, Waiting
<1>6. ~RegError /\ ~RegIgnores
  BY <1>3 DEF RegError, RegIgnores, InReg
<1>7. ~RunError
  BY <1>4 DEF RunError
<1>8. ~(ApplyError /\ NoFault /\ Raises(Command))
  BY <1>1 DEF ApplyError
<1>. QED
  BY <1>2, <1>5, <1>6, <1>7, <1>8

LEMMA RecvKeyngackUndisturbed ==
  ASSUME TypeInv, KeyInv, Undisturbed, RecvKeyngack
  PROVE  Undisturbed'
<1>1. /\ sid \in Sessions /\ pc = "reg" /\ pc' = "reg" /\ sid' = sid /\ Readable /\ Read
      /\ Pending.type = "keyngack" /\ privkey' = gen + 1
      /\ UNCHANGED <<in, open, shut, phase, rOut>>
  BY DEF RecvKeyngack, InReg, Undisturbed, gateway
<1>2. KeyRequested
  BY <1>1, StageReads DEF KeyAnswered
<1> DEFINE f == Plain("dh", sequence, gen + 1)
<1>3. f \in OutFrame /\ f.type = "dh" /\ f.pub = gen + 1 /\ Send(sid, f)
  BY FrameTypes DEF TypeInv, TypeOK, OutTypes, Plain, RecvKeyngack
<1> HIDE DEF f
<1>4. Len(out'[sid]) = Len(out[sid]) + 1 /\ out'[sid][Len(out[sid]) + 1] = f
  BY <1>1, <1>3, SendShape
<1>5. rIn'[sid] = rIn[sid] + 1
  BY <1>1, ReadTypes DEF TypeInv
<1>6. gen \in Nat
  BY DEF TypeInv, TypeOK
<1>7. KeySent'
  BY <1>1, <1>2, <1>3, <1>4, <1>5, <1>6 DEF KeyRequested, KeySent
<1> QED
  BY <1>1, <1>7 DEF Undisturbed, Stages

LEMMA RecvDhUndisturbed ==
  ASSUME TypeInv, KeyInv, Undisturbed, RecvDh
  PROVE  Undisturbed'
<1> DEFINE f == [type |-> "dev_reg", key |-> secret', num |-> sequence, pub |-> 0]
<1>1. /\ sid \in Sessions /\ pc = "reg" /\ pc' = "run" /\ sid' = sid /\ Readable /\ Read
      /\ Pending.type = "dh" /\ secret' = [dev |-> privkey, gw |-> Pending.pub, exact |-> TRUE]
      /\ Send(sid, f) /\ UNCHANGED <<in, open, shut, phase, rOut, gwKey>>
  BY DEF RecvDh, Derive, InReg, Undisturbed, gateway
<1>2. KeyAnswered /\ Pending = in[sid][2]
  BY <1>1, StageReads DEF KeyRequested
<1>3. secret' = gwKey[sid] /\ gwKey[sid] \in Keys
  BY <1>1, <1>2 DEF KeyAnswered, TypeInv, TypeOK
<1>4. f \in OutFrame /\ f.type = "dev_reg" /\ f.key = secret'
  BY <1>3 DEF TypeInv, TypeOK, OutFrame, OutTypes
<1> HIDE DEF f
<1>5. Len(out'[sid]) = Len(out[sid]) + 1 /\ out'[sid][Len(out[sid]) + 1] = f
  BY <1>1, <1>4, SendShape
<1>6. rIn'[sid] = rIn[sid] + 1
  BY <1>1, ReadTypes DEF TypeInv
<1>7. Len(out'[sid]) = 3 /\ out'[sid][3] = f /\ rIn'[sid] = 2 /\ Len(in[sid]) = 2
  BY <1>2, <1>5, <1>6 DEF KeyAnswered
<1>8. phase[sid] = "keyed" /\ rOut[sid] = 2
  BY <1>2 DEF KeyAnswered
<1>9. Served'
  <2>1. Registered' /\ secret' = gwKey'[sid'] /\ phase'[sid'] = "keyed" /\ rOut'[sid'] = 2
    BY <1>1, <1>3, <1>8 DEF Registered
  <2>2. Len(out'[sid']) >= 3 /\ out'[sid'][3].type = "dev_reg" /\ out'[sid'][3].key = secret'
    BY <1>1, <1>4, <1>7
  <2>3. (rIn'[sid'] >= IF pc' = "run" THEN 2 ELSE 3) /\ Len(in'[sid']) = 2
    BY <1>1, <1>7
  <2>. QED BY <2>1, <2>2, <2>3 DEF Served
<1> QED
  BY <1>1, <1>9 DEF Undisturbed, Stages

\* A registered agent that goes on.
LEMMA ServedOn ==
  ASSUME TypeInv, Undisturbed, Served, Registered',
         UNCHANGED <<sid, secret, in, open, gateway>>,
         UNCHANGED out \/ \E f \in OutFrame : Send(sid, f),
         rIn'[sid] >= IF pc' = "run" THEN 2 ELSE 3
  PROVE  Undisturbed'
<1>1. sid \in Sessions /\ Len(out[sid]) \in Nat
  BY DEF Undisturbed, TypeInv, TypeOK
<1>2. Len(out'[sid]) >= 3 /\ out'[sid][3] = out[sid][3]
  <2>1. CASE UNCHANGED out
    BY <2>1 DEF Served
  <2>2. CASE \E f \in OutFrame : Send(sid, f)
    <3>1. /\ Len(out'[sid]) = Len(out[sid]) + 1
          /\ \A i \in 1 .. Len(out[sid]) : out'[sid][i] = out[sid][i]
      BY <1>1, <2>2, SendShape
    <3>2. Len(out[sid]) >= 3
      BY DEF Served
    <3>. QED BY <1>1, <3>1, <3>2
  <2>. QED BY <2>1, <2>2
<1>3. \A k \in 3 .. Len(in'[sid]) : Decent(in'[sid][k], secret')
  BY DEF Served
<1>4. UNCHANGED <<phase, rOut, gwKey, shut>>
  BY DEF gateway
<1>5. Served'
  BY <1>2, <1>3, <1>4 DEF Served
<1>. QED
  BY <1>4, <1>5 DEF Undisturbed, Stages

LEMMA RunUndisturbed ==
  ASSUME TypeInv, KeyInv, SealInv, Undisturbed, KeepAlive \/ RecvRun \/ Apply \/ Answer
  PROVE  Undisturbed'
<1>1. pc # "reg" /\ sid \in Sessions
  <2>1. KeepAlive => pc # "reg"
    BY DEF KeepAlive, SealInv, FlagDown
  <2>. QED BY <2>1 DEF RecvRun, Apply, Answer, Undisturbed
<1>2. Served /\ rIn[sid] \in Nat /\ (rIn[sid] >= IF pc = "run" THEN 2 ELSE 3)
  BY <1>1, StageReads DEF Served, TypeInv, TypeOK
<1>3. CASE KeepAlive
  <2>1. Sealed("keepalive", sequence) \in OutFrame
    BY FrameTypes DEF TypeInv, TypeOK, OutTypes
  <2>2. Registered' /\ UNCHANGED <<pc, sid, secret, in, rIn, open, gateway>>
    BY <1>1, <1>3 DEF KeepAlive, Waiting, Registered
  <2>. QED BY <1>2, <1>3, <2>1, <2>2, ServedOn DEF KeepAlive
<1>4. CASE RecvRun
  <2>1. Sealed("dev_report", sequence) \in OutFrame
    BY FrameTypes DEF TypeInv, TypeOK, OutTypes
  <2>2. Registered' /\ UNCHANGED <<sid, secret, in, open, gateway>>
    BY <1>4 DEF RecvRun, Registered
  <2>3. rIn'[sid] = rIn[sid] + 1 /\ pc = "run"
    BY <1>1, <1>4, ReadTypes DEF RecvRun, TypeInv
  <2>4. rIn'[sid] >= IF pc' = "run" THEN 2 ELSE 3
    BY <1>2, <2>3
  <2>. QED BY <1>2, <1>4, <2>1, <2>2, <2>4, ServedOn DEF RecvRun
<1>5. CASE Apply
  <2>1. /\ Registered' /\ UNCHANGED <<sid, secret, in, rIn, out, open, gateway>>
        /\ pc = "apply" /\ pc' = "answer"
    BY <1>5 DEF Apply, Registered, locals
  <2>. QED BY <1>2, <2>1, ServedOn
<1>6. CASE Answer
  <2>1. sid \in Sessions /\ Command \in InFrame /\ Command.type \in CmdTypes
    BY <1>1, <1>6 DEF TypeInv, TypeOK, InUse, Answer, Command
  <2>2. AnswerTo(Command) \in OutFrame
    BY <2>1, AnswerToType
  <2>3. /\ Registered' /\ UNCHANGED <<sid, secret, in, rIn, open, gateway>>
        /\ pc = "answer" /\ pc' = "run"
    BY <1>6 DEF Answer, Registered
  <2>4. UNCHANGED out \/ \E f \in OutFrame : Send(sid, f)
    BY <1>6, <2>2 DEF Answer
  <2>5. rIn'[sid] >= IF pc' = "run" THEN 2 ELSE 3
    BY <1>2, <2>3
  <2>. QED BY <1>2, <2>3, <2>4, <2>5, ServedOn
<1>. QED
  BY <1>3, <1>4, <1>5, <1>6

\* The gateway's part on an undisturbed connection.
LEMMA GwRecvUndisturbed ==
  ASSUME TypeInv, KeyInv, Undisturbed, GwRecv(sid)
  PROVE  Undisturbed'
<1> DEFINE f == out[sid][rOut[sid] + 1]
           a == GwFrame("keyngack", NoKey, f.num, 0, TRUE)
           b == GwFrame("dh", NoKey, f.num, sid, TRUE)
           c == GwFrame("ack", gwKey[sid], f.num, 0, TRUE)
<1>0. /\ sid \in Sessions /\ out[sid] \in Seq(OutFrame) /\ Len(out[sid]) \in Nat
      /\ rOut[sid] \in Nat /\ in[sid] \in Seq(InFrame) /\ rIn[sid] \in Nat /\ Len(in[sid]) \in Nat
      /\ gwKey[sid] \in Keys /\ phase \in [Sessions -> Phases] /\ gwKey \in [Sessions -> Keys]
      /\ rOut \in [Sessions -> Nat]
  BY DEF Undisturbed, TypeInv, TypeOK
<1>1. f \in OutFrame /\ rOut'[sid] = rOut[sid] + 1
  BY <1>0 DEF GwRecv
<1>2. a \in InFrame /\ b \in InFrame /\ c \in InFrame
  <2>1. f.num \in Nat /\ sid \in Nat
    BY <1>0, <1>1 DEF OutFrame, Sessions
  <2> HIDE DEF f
  <2>. QED BY <1>0, <2>1, NoKeyType, GwFrameTypes DEF InTypes
<1>3. UNCHANGED <<pc, sid, privkey, secret, open, shut, out, rIn>>
  BY DEF GwRecv, device, locals
<1>4. CASE KeyWanted
  <2>1. phase'[sid] = "greeted" /\ Say(sid, a)
    <3>1. f.type = "keyngreq" /\ phase[sid] = "new"
      BY <1>4 DEF KeyWanted
    <3>2. phase' = [phase EXCEPT ![sid] = "greeted"] /\ Say(sid, a)
      BY <3>1 DEF GwRecv
    <3>. QED BY <1>0, <3>2
  <2> HIDE DEF f
  <2>2. a.type = "keyngack" /\ a.key = NoKey
    BY DEF GwFrame
  <2> HIDE DEF a
  <2>3. Len(in'[sid]) = Len(in[sid]) + 1 /\ in'[sid][Len(in[sid]) + 1] = a
    BY <1>0, <1>2, <2>1, SayShape
  <2>4. KeyRequested'
    BY <1>1, <1>3, <1>4, <2>1, <2>2, <2>3 DEF KeyWanted, KeyRequested
  <2>. QED BY <1>0, <1>3, <2>4 DEF Undisturbed, Stages
<1>5. CASE KeyRequested \/ KeyAnswered
  <2>1. rOut[sid] = Len(out[sid])
    BY <1>5 DEF KeyRequested, KeyAnswered
  <2>2. rOut[sid] < Len(out[sid])
    BY DEF GwRecv
  <2>. QED BY <1>0, <2>1, <2>2
<1>6. CASE KeySent
  <2>1. f = out[sid][2] /\ f.pub = privkey
    BY <1>6 DEF KeySent
  <2>2. /\ phase'[sid] = "keyed" /\ Say(sid, b)
        /\ gwKey' = [gwKey EXCEPT ![sid] = [dev |-> f.pub, gw |-> sid, exact |-> TRUE]]
    <3>1. f.type = "dh" /\ phase[sid] = "greeted"
      BY <1>6 DEF KeySent
    <3>2. /\ phase' = [phase EXCEPT ![sid] = "keyed"] /\ Say(sid, b)
          /\ gwKey' = [gwKey EXCEPT ![sid] = [dev |-> f.pub, gw |-> sid, exact |-> TRUE]]
      BY <3>1 DEF GwRecv
    <3>. QED BY <1>0, <3>2
  <2>3. gwKey'[sid] = [dev |-> privkey, gw |-> sid, exact |-> TRUE]
    BY <1>0, <2>1, <2>2
  <2> HIDE DEF f
  <2>4. b.type = "dh" /\ b.key = NoKey /\ b.pub = sid
    BY DEF GwFrame
  <2> HIDE DEF b
  <2>5. Len(in'[sid]) = Len(in[sid]) + 1 /\ in'[sid][Len(in[sid]) + 1] = b
    BY <1>0, <1>2, <2>2, SayShape
  <2>6. KeyAnswered'
    BY <1>1, <1>3, <1>6, <2>2, <2>3, <2>4, <2>5 DEF KeySent, KeyAnswered
  <2>. QED BY <1>0, <1>3, <2>6 DEF Undisturbed, Stages
<1>7. CASE Served
  <2>1. gwKey' = gwKey /\ (Say(sid, c) \/ UNCHANGED in) /\ phase'[sid] = "registered"
    <3>1. CASE phase[sid] = "registered"
      BY <1>0, <3>1 DEF GwRecv, GwAcks
    <3>2. CASE phase[sid] = "keyed"
      <4>1. rOut[sid] = 2 /\ f.type = "dev_reg" /\ f.key = gwKey[sid]
        BY <1>7, <3>2 DEF Served
      <4>2. phase' = [phase EXCEPT ![sid] = "registered"] /\ gwKey' = gwKey /\ GwAcks(sid)
        BY <3>2, <4>1 DEF GwRecv
      <4>. QED BY <1>0, <4>2 DEF GwAcks
    <3>. QED BY <1>7, <3>1, <3>2 DEF Served
  <2>2. Decent(c, secret)
    BY <1>7 DEF Decent, Served, GwFrame, Raises
  <2> HIDE DEF c
  <2>3. \A k \in 3 .. Len(in'[sid]) : Decent(in'[sid][k], secret)
    <3>1. CASE UNCHANGED in
      BY <1>7, <3>1 DEF Served
    <3>2. CASE Say(sid, c)
      <4>1. /\ Len(in'[sid]) = Len(in[sid]) + 1 /\ in'[sid][Len(in[sid]) + 1] = c
            /\ \A i \in 1 .. Len(in[sid]) : in'[sid][i] = in[sid][i]
        BY <1>0, <1>2, <3>2, SayShape
      <4>2. \A k \in 3 .. Len(in'[sid]) : k = Len(in[sid]) + 1 \/ k \in 3 .. Len(in[sid])
        BY <1>0, <4>1
      <4>3. \A k \in 3 .. Len(in[sid]) : k \in 1 .. Len(in[sid]) /\ Decent(in[sid][k], secret)
        BY <1>0, <1>7 DEF Served
      <4>. QED BY <2>2, <4>1, <4>2, <4>3
    <3>. QED BY <2>1, <3>1, <3>2
  <2>4. \A k \in 3 .. Len(in'[sid]) : Decent(in'[sid][k], secret')
    BY <1>3, <2>3 DEF Decent, Raises
  <2>5. Served'
    BY <1>3, <1>7, <2>1, <2>4 DEF Served, Registered
  <2>. QED BY <1>0, <1>3, <2>5 DEF Undisturbed, Stages
<1>. QED
  BY <1>4, <1>5, <1>6, <1>7 DEF Undisturbed, Stages

LEMMA GwCommandUndisturbed ==
  ASSUME TypeInv, KeyInv, Undisturbed, GwCommand(sid)
  PROVE  Undisturbed'
<1>0. /\ sid \in Sessions /\ Len(in[sid]) \in Nat
  BY DEF Undisturbed, TypeInv, TypeOK
<1>1. PICK k \in CmdKinds : ~Raises(k) /\ GwIssues(sid, k)
  BY DEF GwCommand
<1> DEFINE f == GwFrame(k.type, gwKey[sid], IF k.numbered THEN Sent(sid) + 1 ELSE 0, 0, k.full)
<1>2. f \in InFrame /\ Say(sid, f)
  BY <1>0, <1>1, IssuedType DEF GwIssues
<1>3. k.type \in CmdTypes
  BY BoundsAssumption DEF CmdKind
<1>4. f.type = k.type /\ f.full = k.full /\ f.key = gwKey[sid]
  BY DEF GwFrame
<1>5. phase[sid] = "registered"
  BY <1>1 DEF GwIssues
<1>6. Served
  BY <1>5 DEF Undisturbed, Stages, KeyWanted, KeyRequested, KeySent, KeyAnswered
<1>7. UNCHANGED <<pc, sid, secret, open, shut, out, rIn, phase, rOut, gwKey>>
  BY <1>1 DEF GwIssues, device, locals, gateway
<1> HIDE DEF f
<1>8. Decent(f, secret)
  BY <1>1, <1>3, <1>4, <1>6 DEF Decent, Raises, Served
<1>9. /\ Len(in'[sid]) = Len(in[sid]) + 1 /\ in'[sid][Len(in[sid]) + 1] = f
      /\ \A i \in 1 .. Len(in[sid]) : in'[sid][i] = in[sid][i]
  BY <1>0, <1>2, SayShape
<1>10. \A i \in 3 .. Len(in'[sid]) : Decent(in'[sid][i], secret)
  <2>1. \A i \in 3 .. Len(in'[sid]) : i = Len(in[sid]) + 1 \/ i \in 3 .. Len(in[sid])
    BY <1>0, <1>9
  <2>2. \A i \in 3 .. Len(in[sid]) : i \in 1 .. Len(in[sid]) /\ Decent(in[sid][i], secret)
    BY <1>0, <1>6 DEF Served
  <2>. QED BY <1>8, <1>9, <2>1, <2>2
<1>11. Served'
  BY <1>6, <1>7, <1>10 DEF Served, Registered
<1>. QED
  BY <1>7, <1>11 DEF Undisturbed, Stages

\* Steps that concern other connections.
LEMMA ElsewhereUndisturbed ==
  ASSUME TypeInv, Undisturbed,
         UNCHANGED <<pc, sid, privkey, secret>>, sid \in open', sid \notin shut',
         /\ out'[sid] = out[sid] /\ in'[sid] = in[sid] /\ rOut'[sid] = rOut[sid]
         /\ rIn'[sid] = rIn[sid] /\ phase'[sid] = phase[sid] /\ gwKey'[sid] = gwKey[sid]
  PROVE  Undisturbed'
<1>1. KeyWanted => KeyWanted'
  BY DEF KeyWanted
<1>2. KeyRequested => KeyRequested'
  BY DEF KeyRequested
<1>3. KeySent => KeySent'
  BY DEF KeySent
<1>4. KeyAnswered => KeyAnswered'
  BY DEF KeyAnswered
<1>5. Served => Served'
  BY DEF Served, Registered
<1>. QED
  BY <1>1, <1>2, <1>3, <1>4, <1>5 DEF Undisturbed, Stages

LEMMA NextFaultsFirst ==
  TypeInv /\ KeyInv /\ SealInv /\ Untouched /\ FaultsFirst /\ [Next]_vars => FaultsFirst'
<1> SUFFICES ASSUME TypeInv, KeyInv, SealInv, Untouched, FaultsFirst, [Next]_vars
             PROVE  FaultsFirst'
  OBVIOUS
<1>0. sid \in Nat /\ faults \in Nat
  BY BoundsAssumption DEF TypeInv, TypeOK, MaxSession
<1>1. CASE \/ ConnectFails \/ BuildError \/ RecvShortDh \/ TimesOut
           \/ ReportError \/ (ApplyError /\ Fault)
           \/ \E s \in Sessions : Disconnect(s) \/ GwStrays(s) \/ GwBadCommand(s)
  <2>1. sid' = sid /\ Fault
    BY <1>1 DEF ConnectFails, BuildError, RecvShortDh, TimesOut, ReportError, ApplyError, Die,
       EndSession, Derive, Disconnect, GwStrays, GwBadCommand, GwIssues, device
  <2>2. sid' <= faults'
    BY <1>0, <2>1 DEF FaultsFirst, Fault
  <2>. QED BY <1>0, <2>1, <2>2 DEF FaultsFirst, Fault
<1>2. CASE Connect
  <2>1. sid <= faults
    BY <1>2, NoCauseToEnd DEF FaultsFirst
  <2>2. sid' = sid + 1 /\ faults' = faults
    BY <1>2 DEF Connect
  <2>. QED BY <1>0, <1>2, <2>1, <2>2, ConnectUndisturbed DEF FaultsFirst
<1>3. CASE /\ (DeviceStep /\ ~Connect) \/ Collect \/ GatewayStep \/ UNCHANGED vars
           /\ ~(ApplyError /\ Fault)
  <2>1. sid' = sid /\ faults' = faults
    BY <1>3 DEF DeviceStep, Start, RecvKeyngack, RecvDh, Derive, RegIgnores, RegError, KeepAlive,
       Idle, RecvFails, RecvRun, RunError, Apply, Answer, ApplyError, Die, EndSession, NoFault, Collect,
       GatewayStep, GwRecv, GwCommand, GwIssues, GwSeesClose, vars, device
  <2>2. CASE sid <= faults
    BY <1>0, <2>1, <2>2 DEF FaultsFirst
  <2>3. CASE Undisturbed
    <3>1. CASE DeviceStep /\ ~Connect /\ ~Idle
      <4>1. RecvKeyngack \/ RecvDh \/ KeepAlive \/ RecvRun \/ Apply \/ Answer
        <5>1. ApplyError => NoFault /\ Raises(Command)
          BY <1>3 DEF ApplyError
        <5>. QED BY <2>3, <3>1, <5>1, NoCauseToEnd DEF DeviceStep
      <4>2. Undisturbed'
        BY <2>3, <4>1, RecvKeyngackUndisturbed, RecvDhUndisturbed, RunUndisturbed
      <4>. QED BY <1>0, <2>1, <4>2 DEF FaultsFirst
    <3>2. CASE Collect
      <4>1. sid \in open'
        <5>1. pc # "opened"
          BY <2>3, StageReads
        <5>. QED BY <2>3, <3>2, <5>1 DEF Collect, Garbage, Undisturbed
      <4>2. Undisturbed'
        BY <2>3, <3>2, <4>1, ElsewhereUndisturbed DEF Collect, Undisturbed, locals, gateway
      <4>. QED BY <1>0, <2>1, <4>2 DEF FaultsFirst
    <3>3. CASE Idle \/ UNCHANGED vars
      <4>1. Undisturbed'
        BY <2>3, <3>3, ElsewhereUndisturbed
        DEF Idle, vars, device, locals, gateway, Undisturbed
      <4>. QED BY <1>0, <2>1, <4>1 DEF FaultsFirst
    <3>4. CASE GatewayStep
      <4>1. PICK s \in Sessions : GwRecv(s) \/ GwCommand(s) \/ GwSeesClose(s)
        BY <3>4 DEF GatewayStep
      <4>2. CASE s = sid
        <5>1. ~GwSeesClose(s)
          BY <2>3, <4>2 DEF GwSeesClose, Undisturbed
        <5>2. Undisturbed'
          BY <2>3, <4>1, <4>2, <5>1, GwRecvUndisturbed, GwCommandUndisturbed
        <5>. QED BY <1>0, <2>1, <5>2 DEF FaultsFirst
      <4>3. CASE s # sid
        <5>1. /\ UNCHANGED <<device, out, rIn>> /\ shut' \subseteq shut \cup {s}
              /\ \A t \in Sessions :
                   t # s => /\ in'[t] = in[t] /\ rOut'[t] = rOut[t]
                            /\ phase'[t] = phase[t] /\ gwKey'[t] = gwKey[t]
          BY <4>1, GatewayTouches
        <5>2. Undisturbed'
          BY <2>3, <4>3, <5>1, ElsewhereUndisturbed DEF Undisturbed, device, locals
        <5>. QED BY <1>0, <2>1, <5>2 DEF FaultsFirst
      <4>. QED BY <4>2, <4>3
    <3>. QED BY <1>3, <3>1, <3>2, <3>3, <3>4
  <2>. QED BY <2>2, <2>3 DEF FaultsFirst
<1>. QED
  BY <1>1, <1>2, <1>3 DEF Next, FaultStep, DeviceStep

\* The agent never gives up a connection of its own accord: a connection that
\* follows another follows a fault, and no fault explains two of them
\* (elink.lua:99-114, 549-577).
THEOREM EveryConnectionExplained == Spec => []ConnectionsExplained
<1>1. Init => TypeInv /\ KeyInv /\ SealInv /\ Untouched /\ FaultsFirst
  BY InitTypeInv, InitKeyInv, InitSealInv, InitFaultsFirst
<1>2. TypeInv /\ KeyInv /\ SealInv /\ Untouched /\ FaultsFirst /\ [Next]_vars
        => (TypeInv /\ KeyInv /\ SealInv /\ Untouched /\ FaultsFirst)'
  BY NextTypeInv, NextKeyInv, NextSealInv, NextUntouched, NextFaultsFirst
<1>3. FaultsFirst => ConnectionsExplained
  BY DEF FaultsFirst, ConnectionsExplained
<1>. QED
  BY <1>1, <1>2, <1>3, PTL DEF Spec

-----------------------------------------------------------------------------
(***************************************************************************)
(* Answers.  The answers of a connection and the commands it owes them are *)
(* paired by rank.  A command joins its set when it is read and is then    *)
(* the last of it; its answer joins when the handler is done, and is the   *)
(* last as well: so the pairs stay, if the two sets are of one size        *)
(* whenever the agent reads.                                               *)
(***************************************************************************)

LEMMA RankType ==
  ASSUME NEW S, IsFiniteSet(S), NEW n \in Nat
  PROVE  Rank(S, n) \in Nat /\ Cardinality(S) \in Nat /\ Rank(S, n) <= Cardinality(S)
<1> DEFINE T == {m \in S : m <= n}
<1>1. T \in SUBSET S
  OBVIOUS
<1> HIDE DEF T
<1>2. IsFiniteSet(T) /\ Cardinality(T) <= Cardinality(S)
  BY <1>1, FS_Subset
<1> QED
  BY <1>2, FS_CardinalityType DEF Rank, T

\* A place beyond all others is the last, and changes no other rank.
LEMMA RankLast ==
  ASSUME NEW S \in SUBSET Nat, IsFiniteSet(S), NEW l \in Nat, \A m \in S : m < l
  PROVE  /\ Cardinality(S \cup {l}) = Cardinality(S) + 1
         /\ Rank(S \cup {l}, l) = Cardinality(S) + 1
         /\ \A n \in S : Rank(S \cup {l}, n) = Rank(S, n)
<1>1. l \notin S
  OBVIOUS
<1>2. Cardinality(S \cup {l}) = Cardinality(S) + 1
  BY <1>1, FS_AddElement
<1>3. {m \in S \cup {l} : m <= l} = S \cup {l}
  <2>1. \A m \in S \cup {l} : m <= l
    OBVIOUS
  <2>. QED BY <2>1, Zenon
<1>4. \A n \in S : {m \in S \cup {l} : m <= n} = {m \in S : m <= n}
  OBVIOUS
<1> QED
  BY <1>2, <1>3, <1>4 DEF Rank

LEMMA PlacesType ==
  ASSUME TypeInv, NEW s \in Sessions
  PROVE  /\ Answers(s) \in SUBSET Nat /\ IsFiniteSet(Answers(s))
         /\ Answerable(s) \in SUBSET Nat /\ IsFiniteSet(Answerable(s))
<1>1. Len(out[s]) \in Nat /\ rIn[s] \in Nat
  BY DEF TypeInv, TypeOK
<1>2. ASSUME NEW n \in Nat, NEW S \in SUBSET (1 .. n)
      PROVE  S \in SUBSET Nat /\ IsFiniteSet(S)
  <2>1. IsFiniteSet(1 .. n)
    BY FS_Interval
  <2>2. IsFiniteSet(S)
    BY <2>1, FS_Subset
  <2>3. S \in SUBSET Nat
    OBVIOUS
  <2>. QED BY <2>2, <2>3
<1>3. Answers(s) \in SUBSET (1 .. Len(out[s]))
  BY DEF Answers
<1>4. Answerable(s) \in SUBSET (1 .. rIn[s])
  BY DEF Answerable
<1> QED
  BY <1>1, <1>2, <1>3, <1>4

Owed(s)     == Cardinality(Answerable(s))
Answered(s) == Cardinality(Answers(s))

Paired(s) ==
  \A k \in Answerable(s), i \in Answers(s) :
    Rank(Answerable(s), k) = Rank(Answers(s), i) => Answers1(in[s][k], out[s][i])

\* While a handler is at work, its command is the one that is owed an answer.
Balance ==
  /\ \A s \in Sessions : Owed(s) \in {Answered(s), Answered(s) + 1}
  /\ pc \in {"reg", "run"} => Owed(sid) = Answered(sid)
  /\ pc \in {"apply", "answer"} =>
       Owed(sid) = IF rIn[sid] \in Answerable(sid) THEN Answered(sid) + 1 ELSE Answered(sid)

\* A command that raised is not answered.
HandRuns == pc = "answer" => ~Raises(Command)

\* No command comes in clear, where reg would pass over it.
CommandsSealed ==
  \A s \in Sessions : \A k \in 1 .. Len(in[s]) :
    in[s][k].type \in CmdTypes => in[s][k].key # NoKey

AnswerInv == (\A s \in Sessions : Paired(s)) /\ Balance /\ HandRuns /\ CommandsSealed

LEMMA InitAnswerInv == Init => AnswerInv
<1> SUFFICES ASSUME Init PROVE AnswerInv
  OBVIOUS
<1>1. pc = "dead" /\ \A s \in Sessions : out[s] = <<>> /\ in[s] = <<>> /\ rIn[s] = 0
  BY DEF Init
<1>2. \A s \in Sessions : Answers(s) = {} /\ Answerable(s) = {}
  BY <1>1 DEF Answers, Answerable
<1>3. \A s \in Sessions : Owed(s) = 0 /\ Answered(s) = 0
  BY <1>2, FS_EmptySet DEF Owed, Answered
<1> QED
  BY <1>1, <1>2, <1>3 DEF AnswerInv, Paired, Balance, HandRuns, CommandsSealed

\* What a log of the agent gains.
LEMMA SendAnswers ==
  ASSUME TypeInv, NEW s \in Sessions, NEW f \in OutFrame, Send(s, f)
  PROVE  /\ \A t \in Sessions : t # s => Answers(t)' = Answers(t)
         /\ Answers(s)' = IF f.type \in AnswerTypes THEN Answers(s) \cup {Len(out[s]) + 1}
                                                    ELSE Answers(s)
         /\ \A t \in Sessions : \A i \in Answers(t) : out'[t][i] = out[t][i]
<1>1. /\ \A t \in Sessions : t # s => out'[t] = out[t]
      /\ Len(out[s]) \in Nat /\ Len(out'[s]) = Len(out[s]) + 1
      /\ \A i \in 1 .. Len(out[s]) : out'[s][i] = out[s][i]
      /\ out'[s][Len(out[s]) + 1] = f
  BY SendShape
<1>2. \A t \in Sessions : t # s => Answers(t)' = Answers(t)
  BY <1>1 DEF Answers
<1>3. 1 .. Len(out'[s]) = (1 .. Len(out[s])) \cup {Len(out[s]) + 1}
  BY <1>1
<1>4. Answers(s)' = IF f.type \in AnswerTypes THEN Answers(s) \cup {Len(out[s]) + 1}
                                              ELSE Answers(s)
  BY <1>1, <1>3 DEF Answers
<1>5. \A t \in Sessions : \A i \in Answers(t) : out'[t][i] = out[t][i]
  BY <1>1 DEF Answers
<1> QED
  BY <1>2, <1>4, <1>5

\* What the agent reads.
LEMMA ReadAnswerable ==
  ASSUME TypeInv, sid \in Sessions, Readable, Read, UNCHANGED <<in, sid>>
  PROVE  /\ \A t \in Sessions : t # sid => Answerable(t)' = Answerable(t)
         /\ rIn[sid] \in Nat /\ rIn'[sid] = rIn[sid] + 1
         /\ Answerable(sid)' = IF DeservesAnswer(Pending) THEN Answerable(sid) \cup {rIn[sid] + 1}
                                                          ELSE Answerable(sid)
<1>1. rIn \in [Sessions -> Nat] /\ rIn[sid] \in Nat /\ rIn'[sid] = rIn[sid] + 1
  BY ReadTypes DEF TypeInv, TypeOK
<1>2. \A t \in Sessions : t # sid => rIn'[t] = rIn[t]
  BY <1>1 DEF Read
<1>3. \A t \in Sessions : t # sid => Answerable(t)' = Answerable(t)
  BY <1>2 DEF Answerable
<1>4. 1 .. rIn'[sid] = (1 .. rIn[sid]) \cup {rIn[sid] + 1}
  BY <1>1
<1>5. Answerable(sid)' = IF DeservesAnswer(Pending) THEN Answerable(sid) \cup {rIn[sid] + 1}
                                                    ELSE Answerable(sid)
  <2>1. Answerable(sid) = {k \in 1 .. rIn[sid] : DeservesAnswer(in[sid][k])}
    BY DEF Answerable
  <2>2. Answerable(sid)'
          = {k \in (1 .. rIn[sid]) \cup {rIn[sid] + 1} : DeservesAnswer(in[sid][k])}
    BY <1>4 DEF Answerable
  <2>3. Pending = in[sid][rIn[sid] + 1]
    BY DEF Pending
  <2> DEFINE I == 1 .. rIn[sid]
             l == rIn[sid] + 1
             P(k) == DeservesAnswer(in[sid][k])
  <2>4. {k \in I \cup {l} : P(k)} = IF P(l) THEN {k \in I : P(k)} \cup {l} ELSE {k \in I : P(k)}
    <3> HIDE DEF I, l, P
    <3>1. CASE P(l)
      BY <3>1, Zenon
    <3>2. CASE ~P(l)
      BY <3>2, Zenon
    <3>. QED BY <3>1, <3>2
  <2>. QED BY <2>1, <2>2, <2>3, <2>4
<1> QED
  BY <1>1, <1>3, <1>5

\* Frames in place keep what they deserve.
LEMMA SamePairs ==
  ASSUME NEW s \in Sessions, Paired(s),
         Answerable(s)' = Answerable(s), Answers(s)' = Answers(s),
         \A k \in Answerable(s) : in'[s][k] = in[s][k],
         \A i \in Answers(s) : out'[s][i] = out[s][i]
  PROVE  Paired(s)'
  BY DEF Paired

\* A command that is read is paired with no answer yet.
LEMMA ReadPairs ==
  ASSUME TypeInv, NEW s \in Sessions, Paired(s), Owed(s) = Answered(s), NEW l \in Nat,
         \A k \in Answerable(s) : k < l,
         Answerable(s)' = Answerable(s) \cup {l}, Answers(s)' = Answers(s),
         \A k \in Answerable(s) : in'[s][k] = in[s][k],
         \A i \in Answers(s) : out'[s][i] = out[s][i]
  PROVE  Paired(s)' /\ Owed(s)' = Answered(s)' + 1 /\ Answered(s)' = Answered(s)
<1> DEFINE A == Answerable(s)
           B == Answers(s)
<1>1. /\ A \in SUBSET Nat /\ IsFiniteSet(A) /\ B \in SUBSET Nat /\ IsFiniteSet(B)
  BY PlacesType
<1>2. /\ Cardinality(A \cup {l}) = Cardinality(A) + 1
      /\ Rank(A \cup {l}, l) = Cardinality(A) + 1
      /\ \A n \in A : Rank(A \cup {l}, n) = Rank(A, n)
  BY <1>1, RankLast
<1>3. \A i \in B : Rank(B, i) \in Nat /\ Cardinality(B) \in Nat /\ Rank(B, i) <= Cardinality(B)
  BY <1>1, RankType
<1>4. Cardinality(A) = Cardinality(B)
  BY DEF Owed, Answered
<1> SUFFICES ASSUME NEW k \in A \cup {l}, NEW i \in B, Rank(A \cup {l}, k) = Rank(B, i)
             PROVE  Answers1(in'[s][k], out'[s][i])
  BY <1>2, <1>4 DEF Paired, Owed, Answered
<1>5. k # l
  <2>1. Rank(B, i) # Cardinality(A) + 1
    BY <1>3, <1>4
  <2>. QED BY <1>2, <2>1
<1>6. k \in A /\ Rank(A, k) = Rank(B, i)
  BY <1>2, <1>5
<1> QED
  BY <1>6 DEF Paired

\* The answer to the command that was read last is paired with it.
LEMMA AnswerPairs ==
  ASSUME TypeInv, NEW s \in Sessions, Paired(s), Owed(s) = Answered(s) + 1,
         NEW l \in Nat, \A i \in Answers(s) : i < l,
         NEW last \in Answerable(s), \A k \in Answerable(s) : k <= last,
         Answerable(s)' = Answerable(s), Answers(s)' = Answers(s) \cup {l},
         \A k \in Answerable(s) : in'[s][k] = in[s][k],
         \A i \in Answers(s) : out'[s][i] = out[s][i],
         Answers1(in[s][last], out'[s][l])
  PROVE  Paired(s)' /\ Owed(s)' = Answered(s)'
<1> DEFINE A == Answerable(s)
           B == Answers(s)
           R == A \ {last}
<1>1. A \in SUBSET Nat /\ IsFiniteSet(A) /\ B \in SUBSET Nat /\ IsFiniteSet(B)
  BY PlacesType
<1>2. R \in SUBSET Nat /\ IsFiniteSet(R) /\ A = R \cup {last} /\ last \in Nat
      /\ \A m \in R : m < last
  <2>1. IsFiniteSet(R)
    BY <1>1, FS_RemoveElement
  <2>2. R \in SUBSET Nat /\ A = R \cup {last} /\ last \in Nat
    BY <1>1
  <2>3. \A m \in R : m \in A /\ m # last
    OBVIOUS
  <2> HIDE DEF R
  <2>4. \A m \in R : m < last
    BY <2>2, <2>3
  <2>. QED BY <2>1, <2>2, <2>4
<1>3. /\ Cardinality(B \cup {l}) = Cardinality(B) + 1
      /\ Rank(B \cup {l}, l) = Cardinality(B) + 1
      /\ \A n \in B : Rank(B \cup {l}, n) = Rank(B, n)
  BY <1>1, RankLast
<1> HIDE DEF R
<1>4. /\ Cardinality(A) = Cardinality(R) + 1 /\ Cardinality(R) \in Nat
      /\ \A n \in R : Rank(A, n) = Rank(R, n) /\ Rank(R, n) <= Cardinality(R) /\ Rank(R, n) \in Nat
  <2>1. /\ Cardinality(R \cup {last}) = Cardinality(R) + 1
        /\ \A n \in R : Rank(R \cup {last}, n) = Rank(R, n)
    BY <1>2, RankLast
  <2>2. Cardinality(R) \in Nat
    BY <1>2, FS_CardinalityType
  <2>3. \A n \in R : Rank(R, n) <= Cardinality(R) /\ Rank(R, n) \in Nat
    BY <1>2, RankType
  <2>. QED BY <1>2, <2>1, <2>2, <2>3
<1>5. Rank(A, last) = Cardinality(A)
  BY <1>2, <1>4, RankLast
<1>6. \A n \in B : Rank(B, n) \in Nat /\ Rank(B, n) <= Cardinality(B)
  BY <1>1, RankType
<1>7. Cardinality(B) \in Nat /\ Cardinality(A) = Cardinality(B) + 1
  BY <1>1, FS_CardinalityType DEF Owed, Answered
<1> SUFFICES ASSUME NEW k \in A, NEW i \in B \cup {l}, Rank(A, k) = Rank(B \cup {l}, i)
             PROVE  Answers1(in'[s][k], out'[s][i])
  BY <1>3, <1>7 DEF Paired, Owed, Answered
<1>8. CASE i = l
  <2>1. Rank(A, k) = Cardinality(R) + 1
    BY <1>3, <1>4, <1>7, <1>8
  <2>2. k \notin R
    BY <1>4, <2>1
  <2>. QED BY <1>2, <1>8, <2>2
<1>9. CASE i # l
  <2>1. i \in B /\ Rank(A, k) = Rank(B, i)
    BY <1>3, <1>9
  <2>. QED BY <2>1 DEF Paired
<1> QED
  BY <1>8, <1>9

\* A step that adds to neither set.
SameSets ==
  \A t \in Sessions :
    /\ Answerable(t)' = Answerable(t) /\ Answers(t)' = Answers(t)
    /\ \A k \in Answerable(t) : in'[t][k] = in[t][k]
    /\ \A i \in Answers(t) : out'[t][i] = out[t][i]

LEMMA SameSetsPairs ==
  ASSUME AnswerInv, SameSets
  PROVE  \A s \in Sessions : /\ Paired(s)' /\ Owed(s)' = Owed(s) /\ Answered(s)' = Answered(s)
<1> SUFFICES ASSUME NEW s \in Sessions
             PROVE  Paired(s)' /\ Owed(s)' = Owed(s) /\ Answered(s)' = Answered(s)
  OBVIOUS
<1>1. Paired(s)'
  BY SamePairs DEF SameSets, AnswerInv
<1> QED
  BY <1>1 DEF SameSets, Owed, Answered

LEMMA SameSetsStep ==
  ASSUME TypeInv, AnswerInv, SameSets, UNCHANGED sid, HandRuns', CommandsSealed',
         pc' \in {"reg", "run"} => pc \in {"reg", "run"},
         pc' \in {"apply", "answer"} =>
           pc \in {"apply", "answer"} /\ rIn'[sid] = rIn[sid]
  PROVE  AnswerInv'
<1>1. \A s \in Sessions : /\ Paired(s)' /\ Owed(s)' = Owed(s) /\ Answered(s)' = Answered(s)
  BY SameSetsPairs
<1>2. pc \in {"reg", "run", "apply", "answer"} => sid \in Sessions
  BY DEF TypeInv, InUse
<1>3. Balance
  BY DEF AnswerInv
<1>4. \A s \in Sessions : Owed(s)' \in {Answered(s)', Answered(s)' + 1}
  BY <1>1, <1>3 DEF Balance
<1>5. pc' \in {"reg", "run"} => Owed(sid)' = Answered(sid)'
  <2> SUFFICES ASSUME pc' \in {"reg", "run"} PROVE Owed(sid)' = Answered(sid)'
    OBVIOUS
  <2>1. sid \in Sessions /\ sid' = sid /\ Owed(sid) = Answered(sid)
    BY <1>2, <1>3 DEF Balance
  <2>. QED BY <1>1, <2>1 DEF Owed, Answered
<1>6. pc' \in {"apply", "answer"} =>
        Owed(sid)' = IF rIn'[sid] \in Answerable(sid)' THEN Answered(sid)' + 1 ELSE Answered(sid)'
  <2> SUFFICES ASSUME pc' \in {"apply", "answer"}
               PROVE  Owed(sid)' = IF rIn'[sid] \in Answerable(sid)' THEN Answered(sid)' + 1
                                                                     ELSE Answered(sid)'
    OBVIOUS
  <2>1. /\ sid \in Sessions /\ sid' = sid /\ rIn'[sid] = rIn[sid]
        /\ Owed(sid) = IF rIn[sid] \in Answerable(sid) THEN Answered(sid) + 1 ELSE Answered(sid)
    BY <1>2, <1>3 DEF Balance
  <2>2. Answerable(sid)' = Answerable(sid)
    BY <2>1 DEF SameSets, Answerable
  <2>3. Owed(sid)' = Owed(sid) /\ Answered(sid)' = Answered(sid)
    BY <1>1, <2>1 DEF Owed, Answered, Answerable, Answers
  <2>. QED BY <2>1, <2>2, <2>3
<1>7. Balance'
  BY <1>4, <1>5, <1>6 DEF Balance
<1> QED
  BY <1>1, <1>7 DEF AnswerInv

\* Nothing is sent that answers, and nothing read that deserves an answer.
LEMMA NothingOwed ==
  ASSUME TypeInv, UNCHANGED <<sid, in>>, sid \in Sessions,
         UNCHANGED out \/ \E f \in OutFrame : Send(sid, f) /\ f.type \notin AnswerTypes,
         UNCHANGED rIn \/ (Readable /\ Read /\ ~DeservesAnswer(Pending))
  PROVE  SameSets
<1>1. ASSUME NEW t \in Sessions PROVE Answerable(t)' = Answerable(t)
  <2>1. CASE UNCHANGED rIn
    BY <2>1 DEF Answerable
  <2>2. CASE Readable /\ Read /\ ~DeservesAnswer(Pending)
    <3>1. \A u \in Sessions : u # sid => Answerable(u)' = Answerable(u)
      BY <2>2, ReadAnswerable
    <3>2. CASE t = sid
      <4>1. Answerable(sid)' = Answerable(sid)
        BY <2>2, ReadAnswerable
      <4>. QED BY <3>2, <4>1 DEF Answerable
    <3>. QED BY <3>1, <3>2
  <2>. QED BY <2>1, <2>2
<1>2. ASSUME NEW t \in Sessions
      PROVE  Answers(t)' = Answers(t) /\ \A i \in Answers(t) : out'[t][i] = out[t][i]
  <2>1. CASE UNCHANGED out
    BY <2>1 DEF Answers
  <2>2. CASE \E f \in OutFrame : Send(sid, f) /\ f.type \notin AnswerTypes
    <3>1. PICK f \in OutFrame : Send(sid, f) /\ f.type \notin AnswerTypes
      BY <2>2
    <3>2. /\ \A u \in Sessions : u # sid => Answers(u)' = Answers(u)
          /\ Answers(sid)' = Answers(sid)
          /\ \A u \in Sessions : \A i \in Answers(u) : out'[u][i] = out[u][i]
      BY <3>1, SendAnswers
    <3>3. Answers(t)' = Answers(t)
      <4>1. CASE t = sid
        BY <3>2, <4>1 DEF Answers
      <4>. QED BY <3>2, <4>1
    <3>. QED BY <3>2, <3>3
  <2>. QED BY <2>1, <2>2
<1>. QED
  BY <1>1, <1>2 DEF SameSets

\* Steps that send and read nothing.
LEMMA SilentAnswerInv ==
  ASSUME TypeInv, AnswerInv, UNCHANGED <<sid, in, out, rIn>>,
         pc' \in {"reg", "run"} => pc \in {"reg", "run"},
         pc' \in {"apply", "answer"} => pc \in {"apply", "answer"},
         pc' = "answer" => pc = "answer" \/ ~Raises(Command)
  PROVE  AnswerInv'
<1>1. SameSets
  BY DEF SameSets, Answerable, Answers
<1>2. HandRuns'
  BY DEF AnswerInv, HandRuns, Command
<1>3. CommandsSealed'
  BY DEF AnswerInv, CommandsSealed
<1>. QED
  BY <1>1, <1>2, <1>3, SameSetsStep

\* Steps of a connection that owe and answer nothing.
LEMMA QuietAnswerInv ==
  ASSUME TypeInv, AnswerInv, UNCHANGED <<sid, in>>, pc \in {"reg", "run"},
         pc' \notin {"apply", "answer"},
         UNCHANGED out \/ \E f \in OutFrame : Send(sid, f) /\ f.type \notin AnswerTypes,
         UNCHANGED rIn \/ (Readable /\ Read /\ ~DeservesAnswer(Pending))
  PROVE  AnswerInv'
<1>1. SameSets
  BY NothingOwed DEF TypeInv, InUse
<1>2. HandRuns'
  BY DEF HandRuns
<1>3. CommandsSealed'
  BY DEF AnswerInv, CommandsSealed
<1>. QED
  BY <1>1, <1>2, <1>3, SameSetsStep

\* A command that deserves an answer is read.
LEMMA CommandOwed ==
  ASSUME TypeInv, AnswerInv, UNCHANGED <<sid, in>>, pc \in {"reg", "run"},
         UNCHANGED out \/ \E f \in OutFrame : Send(sid, f) /\ f.type \notin AnswerTypes,
         Readable, Read, DeservesAnswer(Pending), NEW s \in Sessions
  PROVE  /\ Paired(s)'
         /\ s # sid => Owed(s)' = Owed(s) /\ Answered(s)' = Answered(s)
         /\ s = sid => Owed(s)' = Answered(s)' + 1 /\ rIn'[s] \in Answerable(s)'
<1>1. sid \in Sessions
  BY DEF TypeInv, InUse
<1>2. /\ \A t \in Sessions : t # sid => Answerable(t)' = Answerable(t)
      /\ rIn[sid] \in Nat /\ rIn'[sid] = rIn[sid] + 1
      /\ Answerable(sid)' = Answerable(sid) \cup {rIn[sid] + 1}
  BY <1>1, ReadAnswerable
<1>3. ASSUME NEW t \in Sessions
      PROVE  Answers(t)' = Answers(t) /\ \A i \in Answers(t) : out'[t][i] = out[t][i]
  <2>1. CASE UNCHANGED out
    BY <2>1 DEF Answers
  <2>2. CASE \E f \in OutFrame : Send(sid, f) /\ f.type \notin AnswerTypes
    <3>1. PICK f \in OutFrame : Send(sid, f) /\ f.type \notin AnswerTypes
      BY <2>2
    <3>2. /\ \A u \in Sessions : u # sid => Answers(u)' = Answers(u)
          /\ Answers(sid)' = Answers(sid)
          /\ \A u \in Sessions : \A i \in Answers(u) : out'[u][i] = out[u][i]
      BY <1>1, <3>1, SendAnswers
    <3>3. Answers(t)' = Answers(t)
      <4>1. CASE t = sid
        BY <3>2, <4>1 DEF Answers
      <4>. QED BY <3>2, <4>1
    <3>. QED BY <3>2, <3>3
  <2>. QED BY <2>1, <2>2
<1>4. Paired(s)
  BY DEF AnswerInv
<1>5. CASE s # sid
  <2>1. Answerable(s)' = Answerable(s)
    BY <1>2, <1>5
  <2>2. Paired(s)'
    BY <1>3, <1>4, <2>1, SamePairs
  <2>. QED BY <1>3, <1>5, <2>1, <2>2 DEF Owed, Answered
<1>6. CASE s = sid
  <2> DEFINE l == rIn[s] + 1
  <2>1. Answerable(s)' = Answerable(s) \cup {l} /\ l \in Nat /\ rIn'[s] = l
    BY <1>2, <1>6 DEF Answerable
  <2>2. \A k \in Answerable(s) : k < l
    BY <1>2, <1>6 DEF Answerable
  <2>3. Owed(s) = Answered(s)
    BY <1>6 DEF AnswerInv, Balance
  <2> HIDE DEF l
  <2>4. Paired(s)' /\ Owed(s)' = Answered(s)' + 1
    BY <1>3, <1>4, <2>1, <2>2, <2>3, ReadPairs
  <2>. QED BY <1>6, <2>1, <2>4
<1>. QED
  BY <1>5, <1>6

LEMMA CommandOwedAnswerInv ==
  ASSUME TypeInv, AnswerInv, UNCHANGED <<sid, in>>, pc \in {"reg", "run"},
         UNCHANGED out \/ \E f \in OutFrame : Send(sid, f) /\ f.type \notin AnswerTypes,
         Readable, Read, DeservesAnswer(Pending), pc' \in {"dead", "apply"}
  PROVE  AnswerInv'
<1>1. \A s \in Sessions :
        /\ Paired(s)'
        /\ s # sid => Owed(s)' = Owed(s) /\ Answered(s)' = Answered(s)
        /\ s = sid => Owed(s)' = Answered(s)' + 1 /\ rIn'[s] \in Answerable(s)'
  BY CommandOwed
<1>2. sid \in Sessions
  BY DEF TypeInv, InUse
<1>3. \A s \in Sessions : Owed(s)' \in {Answered(s)', Answered(s)' + 1}
  BY <1>1 DEF AnswerInv, Balance
<1>4. Owed(sid)' = Answered(sid)' + 1 /\ rIn'[sid] \in Answerable(sid)'
  BY <1>1, <1>2 DEF Owed, Answered, Answerable, Answers
<1>5. Balance'
  BY <1>3, <1>4 DEF Balance
<1>6. HandRuns' /\ CommandsSealed'
  BY DEF HandRuns, AnswerInv, CommandsSealed
<1>. QED
  BY <1>1, <1>5, <1>6 DEF AnswerInv

\* A command is read, silent, raising or not.
LEMMA RecvRunAnswerInv ==
  ASSUME TypeInv, AnswerInv, RecvRun
  PROVE  AnswerInv'
<1> DEFINE f == Sealed("dev_report", sequence)
<1>1. f \in OutFrame /\ f.type \notin AnswerTypes
  BY FrameTypes DEF TypeInv, TypeOK, OutTypes, Sealed, AnswerTypes
<1>2. /\ sid \in Sessions /\ UNCHANGED <<sid, in>> /\ pc = "run" /\ Readable /\ Read /\ Send(sid, f)
      /\ pc' = IF Pending.type \in CmdTypes THEN "apply" ELSE "run"
  BY DEF TypeInv, InUse, RecvRun
<1>3. \E g \in OutFrame : Send(sid, g) /\ g.type \notin AnswerTypes
  BY <1>1, <1>2
<1> HIDE DEF f
<1>4. CASE DeservesAnswer(Pending)
  BY <1>2, <1>3, <1>4, CommandOwedAnswerInv DEF DeservesAnswer
<1>5. CASE ~DeservesAnswer(Pending) /\ Pending.type \notin CmdTypes
  BY <1>2, <1>3, <1>5, QuietAnswerInv
<1>6. CASE ~DeservesAnswer(Pending) /\ Pending.type \in CmdTypes
  <2>1. SameSets
    BY <1>2, <1>3, <1>6, NothingOwed
  <2>2. \A s \in Sessions : /\ Paired(s)' /\ Owed(s)' = Owed(s) /\ Answered(s)' = Answered(s)
    BY <2>1, SameSetsPairs
  <2>3. Owed(sid)' = Owed(sid) /\ Answered(sid)' = Answered(sid)
    BY <1>2, <2>2 DEF Owed, Answered, Answerable, Answers
  <2>4. Owed(sid) = Answered(sid)
    BY <1>2 DEF AnswerInv, Balance
  <2>5. rIn'[sid] \notin Answerable(sid)'
    <3>1. rIn'[sid] = rIn[sid] + 1
      BY <1>2, ReadAnswerable
    <3>2. in'[sid'][rIn'[sid]] = Pending
      BY <1>2, <3>1 DEF Pending
    <3>. QED BY <1>6, <3>2 DEF Answerable
  <2>6. Balance'
    <3>1. \A s \in Sessions : Owed(s)' \in {Answered(s)', Answered(s)' + 1}
      BY <2>2 DEF AnswerInv, Balance
    <3>2. Owed(sid)' = Answered(sid)' /\ pc' = "apply"
      BY <1>2, <1>6, <2>3, <2>4
    <3>. QED BY <1>2, <2>5, <3>1, <3>2 DEF Balance
  <2>7. HandRuns' /\ CommandsSealed'
    BY <1>2, <1>6 DEF HandRuns, AnswerInv, CommandsSealed
  <2>. QED BY <2>2, <2>6, <2>7 DEF AnswerInv
<1>. QED
  BY <1>4, <1>5, <1>6

\* A frame of a connection nobody registered on is no command, as no command
\* comes in clear; one that kills the agent may be.
LEMMA RegAnswerInv ==
  ASSUME TypeInv, AnswerInv,
         RecvKeyngack \/ RecvDh \/ RecvShortDh \/ RegIgnores \/ RegError \/ RunError \/ ReportError
  PROVE  AnswerInv'
<1>1. /\ sid \in Sessions /\ UNCHANGED <<sid, in>> /\ pc \in {"reg", "run"} /\ Readable /\ Read
  BY DEF TypeInv, InUse, RecvKeyngack, RecvDh, RecvShortDh, Derive, RegIgnores, RegError, RunError,
     ReportError, InReg, Die, device
<1>2. CASE RegError \/ RunError \/ ReportError
  <2>1. pc' = "dead" /\ UNCHANGED out
    BY <1>2 DEF RegError, RunError, ReportError, Die
  <2>2. CASE DeservesAnswer(Pending)
    BY <1>1, <2>1, <2>2, CommandOwedAnswerInv
  <2>3. CASE ~DeservesAnswer(Pending)
    BY <1>1, <2>1, <2>3, QuietAnswerInv
  <2>. QED BY <2>2, <2>3
<1>3. CASE RegIgnores
  <2>1. pc' = pc /\ UNCHANGED out /\ Pending.key = NoKey
    BY <1>3 DEF RegIgnores, device
  <2>2. rIn[sid] + 1 \in 1 .. Len(in[sid])
    BY <1>1 DEF Readable, TypeInv, TypeOK
  <2>3. ~DeservesAnswer(Pending)
    BY <1>1, <2>1, <2>2 DEF AnswerInv, CommandsSealed, Pending, DeservesAnswer
  <2>. QED BY <1>1, <2>1, <2>3, QuietAnswerInv
<1>4. CASE RecvKeyngack
  <2>1. Plain("dh", sequence, gen + 1) \in OutFrame
    BY FrameTypes DEF TypeInv, TypeOK, OutTypes
  <2>2. \E f \in OutFrame : Send(sid, f) /\ f.type \notin AnswerTypes
    BY <1>4, <2>1 DEF RecvKeyngack, Plain, AnswerTypes
  <2>3. pc' = pc /\ ~DeservesAnswer(Pending)
    BY <1>4 DEF RecvKeyngack, DeservesAnswer, CmdTypes
  <2>. QED BY <1>1, <2>2, <2>3, QuietAnswerInv
<1>5. CASE RecvDh \/ RecvShortDh
  <2>1. PICK x \in BOOLEAN : Derive(x)
    BY <1>5, Zenon DEF RecvDh, RecvShortDh
  <2> DEFINE f == [type |-> "dev_reg", key |-> secret', num |-> sequence, pub |-> 0]
  <2>2. Pending \in InFrame
    BY <1>1, ReadTypes DEF TypeInv
  <2>3. secret' \in Keys
    BY <2>1, <2>2 DEF TypeInv, TypeOK, Derive, Keys, InFrame
  <2>4. f \in OutFrame /\ f.type \notin AnswerTypes /\ Send(sid, f)
    BY <2>1, <2>3 DEF TypeInv, TypeOK, OutFrame, OutTypes, AnswerTypes, Derive
  <2>5. pc' = "run" /\ ~DeservesAnswer(Pending)
    BY <2>1 DEF Derive, DeservesAnswer, CmdTypes
  <2> HIDE DEF f
  <2>. QED BY <1>1, <2>4, <2>5, QuietAnswerInv
<1>. QED
  BY <1>2, <1>3, <1>4, <1>5

LEMMA WaitAnswerInv ==
  ASSUME TypeInv, AnswerInv, KeepAlive \/ RecvFails
  PROVE  AnswerInv'
<1>1. /\ UNCHANGED <<sid, in>> /\ pc \in {"reg", "run"} /\ sid \in Sessions
  BY DEF TypeInv, InUse, KeepAlive, RecvFails, Waiting, EndSession
<1>2. CASE KeepAlive
  <2>1. Sealed("keepalive", sequence) \in OutFrame
    BY FrameTypes DEF TypeInv, TypeOK, OutTypes
  <2>2. \E f \in OutFrame : Send(sid, f) /\ f.type \notin AnswerTypes
    BY <1>2, <2>1 DEF KeepAlive, Sealed, AnswerTypes
  <2>3. pc' = pc /\ UNCHANGED rIn
    BY <1>2 DEF KeepAlive
  <2>. QED BY <1>1, <2>2, <2>3, QuietAnswerInv
<1>3. CASE RecvFails
  <2>1. pc' = "opened" /\ UNCHANGED out
    BY <1>3 DEF RecvFails, EndSession
  <2>2. UNCHANGED rIn \/ (Readable /\ Read /\ ~DeservesAnswer(Pending))
    BY <1>3 DEF RecvFails, DeservesAnswer, CmdTypes
  <2>. QED BY <1>1, <2>1, <2>2, QuietAnswerInv
<1>. QED
  BY <1>2, <1>3

\* The handler is done, and its answer is that to the command in hand.
LEMMA AnswerMatches ==
  ASSUME Command.type \in CmdTypes
  PROVE  Answers1(Command, AnswerTo(Command))
<1>1. CASE Command.type \in {"cfg", "deassociation"}
  BY <1>1 DEF Answers1, AnswerTo, Sealed
<1>2. CASE Command.type = "get_status"
  BY <1>2 DEF Answers1, AnswerTo, Sealed
<1>3. CASE Command.type = "getrssiinfo"
  BY <1>3 DEF Answers1, AnswerTo, Sealed
<1>. QED
  BY <1>1, <1>2, <1>3 DEF CmdTypes

LEMMA AnswerAnswerInv ==
  ASSUME TypeInv, AnswerInv, Answer
  PROVE  AnswerInv'
<1>1. /\ sid \in Sessions /\ Command \in InFrame /\ Command.type \in CmdTypes
      /\ UNCHANGED <<sid, in, rIn>> /\ pc = "answer" /\ pc' = "run"
      /\ rIn[sid] \in 1 .. Len(in[sid]) /\ rIn[sid] \in Nat
      /\ Command = in[sid][rIn[sid]] /\ ~Raises(Command)
  BY DEF TypeInv, TypeOK, InUse, Answer, Command, AnswerInv, HandRuns
<1>2. HandRuns' /\ CommandsSealed'
  BY <1>1 DEF HandRuns, AnswerInv, CommandsSealed
<1>3. CASE Silent(Command)
  <2>1. UNCHANGED out
    BY <1>3 DEF Answer
  <2>2. SameSets
    BY <1>1, <2>1, NothingOwed
  <2>3. \A s \in Sessions : /\ Paired(s)' /\ Owed(s)' = Owed(s) /\ Answered(s)' = Answered(s)
    BY <2>2, SameSetsPairs
  <2>4. Owed(sid) = Answered(sid)
    <3>1. rIn[sid] \notin Answerable(sid)
      BY <1>1, <1>3 DEF Answerable, DeservesAnswer
    <3>. QED BY <1>1, <3>1 DEF AnswerInv, Balance
  <2>5. Owed(sid)' = Answered(sid)'
    <3>1. Owed(sid)' = Owed(sid) /\ Answered(sid)' = Answered(sid)
      BY <1>1, <2>3 DEF Owed, Answered, Answerable, Answers
    <3>. QED BY <2>4, <3>1
  <2>6. Balance'
    BY <1>1, <2>3, <2>5 DEF AnswerInv, Balance
  <2>. QED BY <1>2, <2>3, <2>6 DEF AnswerInv
<1>4. CASE ~Silent(Command)
  <2> DEFINE f == AnswerTo(Command)
             l == Len(out[sid]) + 1
  <2>1. f \in OutFrame /\ f.type \in AnswerTypes /\ Answers1(Command, f)
    BY <1>1, AnswerToType, AnswerMatches
  <2>2. Send(sid, f)
    BY <1>4 DEF Answer
  <2>3. Len(out[sid]) \in Nat /\ l \in Nat
    BY <1>1 DEF TypeInv, TypeOK
  <2> HIDE DEF f
  <2>4. out'[sid][l] = f
    BY <1>1, <2>1, <2>2, SendShape
  <2>5. /\ \A t \in Sessions : t # sid => Answers(t)' = Answers(t)
        /\ Answers(sid)' = Answers(sid) \cup {l}
        /\ \A t \in Sessions : \A i \in Answers(t) : out'[t][i] = out[t][i]
    BY <1>1, <2>1, <2>2, SendAnswers
  <2>6. \A t \in Sessions : Answerable(t)' = Answerable(t)
    BY <1>1 DEF Answerable
  <2>7. rIn[sid] \in Answerable(sid)
    BY <1>1, <1>4 DEF Answerable, DeservesAnswer
  <2>8. Owed(sid) = Answered(sid) + 1
    BY <1>1, <2>7 DEF AnswerInv, Balance
  <2>9. \A i \in Answers(sid) : i < l
    BY <2>3 DEF Answers
  <2>10. \A k \in Answerable(sid) : k <= rIn[sid]
    BY <1>1 DEF Answerable
  <2> HIDE DEF l
  <2>11. ASSUME NEW s \in Sessions, s = sid
         PROVE  Paired(s)' /\ Owed(s)' = Answered(s)'
    <3>1. Answers(s)' = Answers(s) \cup {l}
      BY <1>1, <2>5, <2>11 DEF Answers
    <3>2. Paired(s)
      BY DEF AnswerInv
    <3>3. Answers1(in[s][rIn[sid]], out'[s][l])
      BY <1>1, <2>1, <2>4, <2>11
    <3>. QED BY <1>1, <2>3, <2>5, <2>6, <2>7, <2>8, <2>9, <2>10, <2>11, <3>1, <3>2, <3>3, AnswerPairs
  <2>12. ASSUME NEW s \in Sessions, s # sid
         PROVE  Paired(s)' /\ Owed(s)' = Owed(s) /\ Answered(s)' = Answered(s)
    <3>1. Answers(s)' = Answers(s) /\ Answerable(s)' = Answerable(s) /\ Paired(s)
      BY <2>5, <2>6, <2>12 DEF AnswerInv
    <3>2. Paired(s)'
      BY <1>1, <2>5, <3>1, SamePairs
    <3>. QED BY <3>1, <3>2 DEF Owed, Answered
  <2>13. Owed(sid)' = Answered(sid)'
    BY <1>1, <2>11 DEF Owed, Answered, Answerable, Answers
  <2>14. \A s \in Sessions : Owed(s)' \in {Answered(s)', Answered(s)' + 1}
    BY <2>11, <2>12 DEF AnswerInv, Balance
  <2>15. Balance'
    BY <1>1, <2>13, <2>14 DEF Balance
  <2>. QED BY <1>2, <2>11, <2>12, <2>15 DEF AnswerInv
<1>. QED
  BY <1>3, <1>4

\* A new connection owes nothing.
LEMMA ConnectAnswerInv ==
  ASSUME TypeInv, Untouched, AnswerInv, Connect
  PROVE  AnswerInv'
<1> DEFINE f == Plain("keyngreq", sequence, 0)
<1>0. PICK n \in Sessions : n = sid + 1 /\ n > sid
  BY BoundsAssumption DEF TypeInv, TypeOK, Connect, Sessions, MaxSession
<1>1. sid' = n /\ pc' = "reg" /\ UNCHANGED <<in, rIn>>
  BY <1>0 DEF Connect
<1>2. f \in OutFrame /\ f.type \notin AnswerTypes /\ Send(n, f)
  BY <1>0, FrameTypes DEF TypeInv, TypeOK, OutTypes, Plain, AnswerTypes, Connect
<1>3. out[n] = <<>> /\ rIn[n] = 0
  BY <1>0 DEF Untouched
<1> HIDE DEF f
<1>4. ASSUME NEW s \in Sessions PROVE s = n => Answers(s) = {} /\ Answerable(s) = {}
  BY <1>3 DEF Answers, Answerable
<1>5. /\ \A t \in Sessions : t # n => Answers(t)' = Answers(t)
      /\ Answers(n)' = Answers(n)
      /\ \A t \in Sessions : \A i \in Answers(t) : out'[t][i] = out[t][i]
  BY <1>1, <1>2, SendAnswers
<1>6. ASSUME NEW s \in Sessions PROVE Answers(s)' = Answers(s)
  <2>1. CASE s = n
    BY <1>1, <1>5, <2>1 DEF Answers
  <2>. QED BY <1>5, <2>1
<1>7. SameSets
  BY <1>1, <1>5, <1>6 DEF SameSets, Answerable
<1>8. \A s \in Sessions : /\ Paired(s)' /\ Owed(s)' = Owed(s) /\ Answered(s)' = Answered(s)
  BY <1>7, SameSetsPairs
<1>9. ASSUME NEW s \in Sessions, s = n PROVE Owed(s)' = Answered(s)'
  BY <1>4, <1>8, <1>9 DEF Owed, Answered
<1>10. Owed(sid)' = Answered(sid)'
  BY <1>1, <1>9 DEF Owed, Answered, Answerable, Answers
<1>11. Balance'
  BY <1>1, <1>8, <1>10 DEF AnswerInv, Balance
<1>12. HandRuns' /\ CommandsSealed'
  BY <1>1 DEF HandRuns, AnswerInv, CommandsSealed
<1>. QED
  BY <1>8, <1>11, <1>12 DEF AnswerInv

\* The gateway says no command in clear.
LEMMA SayCommandsSealed ==
  ASSUME TypeInv, CommandsSealed, NEW s \in Sessions, NEW f \in InFrame,
         Say(s, f) \/ UNCHANGED in, f.type \in CmdTypes => f.key # NoKey
  PROVE  CommandsSealed'
<1>1. CASE UNCHANGED in
  BY <1>1 DEF CommandsSealed
<1>2. CASE Say(s, f)
  <2>1. /\ \A t \in Sessions : t # s => in'[t] = in[t]
        /\ Len(in[s]) \in Nat /\ Len(in'[s]) = Len(in[s]) + 1
        /\ \A i \in 1 .. Len(in[s]) : in'[s][i] = in[s][i]
        /\ in'[s][Len(in[s]) + 1] = f
    BY <1>2, SayShape
  <2>2. 1 .. Len(in'[s]) = (1 .. Len(in[s])) \cup {Len(in[s]) + 1}
    BY <2>1
  <2>. QED BY <2>1, <2>2 DEF CommandsSealed
<1>. QED
  BY <1>1, <1>2

LEMMA GatewayCommandsSealed ==
  ASSUME TypeInv, KeyInv, CommandsSealed, NEW s \in Sessions,
         \/ GwRecv(s) \/ GwCommand(s) \/ GwBadCommand(s)
         \/ GwSeesClose(s) \/ GwStrays(s) \/ Disconnect(s)
  PROVE  CommandsSealed'
<1>1. CASE GwCommand(s) \/ GwBadCommand(s)
  <2>1. PICK k \in CmdKinds :
          /\ phase[s] = "registered"
          /\ Say(s, GwFrame(k.type, gwKey[s], IF k.numbered THEN Sent(s) + 1 ELSE 0, 0, k.full))
    BY <1>1 DEF GwCommand, GwBadCommand, GwIssues
  <2> DEFINE f == GwFrame(k.type, gwKey[s], IF k.numbered THEN Sent(s) + 1 ELSE 0, 0, k.full)
  <2>2. f \in InFrame /\ f.key = gwKey[s]
    BY IssuedType DEF GwFrame
  <2>3. gwKey[s].gw = s /\ s # 0
    BY <2>1 DEF KeyInv, GwKeyOrigin, Sessions
  <2>4. gwKey[s] # NoKey
    BY <2>3 DEF NoKey
  <2> HIDE DEF f
  <2>. QED BY <2>1, <2>2, <2>4, SayCommandsSealed DEF f
<1>2. CASE GwRecv(s)
  <2>1. out[s][rOut[s] + 1] \in OutFrame /\ gwKey[s] \in Keys
    <3>1. rOut[s] \in Nat /\ out[s] \in Seq(OutFrame) /\ gwKey[s] \in Keys
      BY DEF TypeInv, TypeOK
    <3>2. rOut[s] < Len(out[s])
      BY <1>2 DEF GwRecv
    <3> QED
      BY <3>1, <3>2
  <2> DEFINE f == out[s][rOut[s] + 1]
             a == GwFrame("keyngack", NoKey, f.num, 0, TRUE)
             b == GwFrame("dh", NoKey, f.num, s, TRUE)
             c == GwFrame("ack", gwKey[s], f.num, 0, TRUE)
  <2>2. UNCHANGED in \/ Say(s, a) \/ Say(s, b) \/ Say(s, c)
    BY <1>2 DEF GwRecv, GwAcks
  <2>3. f.num \in Nat /\ s \in Nat
    BY <2>1 DEF OutFrame, Sessions
  <2> HIDE DEF f
  <2>4. /\ a \in InFrame /\ b \in InFrame /\ c \in InFrame
        /\ a.type \notin CmdTypes /\ b.type \notin CmdTypes /\ c.type \notin CmdTypes
    BY <2>1, <2>3, NoKeyType, GwFrameTypes DEF InTypes, GwFrame, CmdTypes
  <2> HIDE DEF a, b, c
  <2>. QED BY <2>2, <2>4, SayCommandsSealed
<1>3. CASE GwStrays(s)
  <2>1. PICK t \in {"keyngack", "dh", "ack", "garbage"} : Say(s, GwFrame(t, NoKey, 0, s, TRUE))
    BY <1>3 DEF GwStrays
  <2> DEFINE f == GwFrame(t, NoKey, 0, s, TRUE)
  <2>2. t \in InTypes /\ s \in Nat /\ t \notin CmdTypes
    BY DEF InTypes, Sessions, CmdTypes
  <2>3. f \in InFrame /\ f.type \notin CmdTypes
    BY <2>2, NoKeyType, GwFrameTypes DEF GwFrame
  <2> HIDE DEF f
  <2>. QED BY <2>1, <2>3, SayCommandsSealed DEF f
<1>4. CASE GwSeesClose(s)
  BY <1>4 DEF GwSeesClose, CommandsSealed
<1>5. CASE Disconnect(s)
  <2> SUFFICES ASSUME NEW t \in Sessions, NEW k \in 1 .. Len(in'[t]), in'[t][k].type \in CmdTypes
               PROVE  in'[t][k].key # NoKey
    BY DEF CommandsSealed
  <2>1. in'[t][k].type # "cut"
    BY DEF CmdTypes
  <2>2. k \in 1 .. Len(in[t]) /\ in'[t][k] = in[t][k]
    BY <1>5, <2>1, CutTypes
  <2>. QED BY <2>2 DEF CommandsSealed
<1>. QED
  BY <1>1, <1>2, <1>3, <1>4, <1>5

LEMMA GatewayAnswerInv ==
  ASSUME TypeInv, TypeInv', KeyInv, AnswerInv, NEW s \in Sessions,
         \/ GwRecv(s) \/ GwCommand(s) \/ GwBadCommand(s)
         \/ GwSeesClose(s) \/ GwStrays(s) \/ Disconnect(s)
  PROVE  AnswerInv'
<1>1. UNCHANGED <<pc, sid, rIn, out>> /\ ReadsOn
  BY GatewayStepsReadOn DEF device
<1>2. SameSets
  BY <1>1 DEF SameSets, Answerable, Answers, ReadsOn
<1>3. HandRuns'
  <2> SUFFICES ASSUME pc = "answer" PROVE ~Raises(Command')
    BY <1>1 DEF HandRuns
  <2>1. sid \in Sessions /\ rIn[sid] \in 1 .. rIn[sid]
    BY DEF TypeInv, TypeOK, InUse
  <2>2. Command' = Command
    BY <1>1, <2>1 DEF ReadsOn, Command
  <2>. QED BY <2>2 DEF AnswerInv, HandRuns
<1>4. CommandsSealed'
  BY GatewayCommandsSealed DEF AnswerInv
<1>. QED
  BY <1>1, <1>2, <1>3, <1>4, SameSetsStep

LEMMA NextAnswerInv ==
  TypeInv /\ TypeInv' /\ KeyInv /\ Untouched /\ AnswerInv /\ [Next]_vars => AnswerInv'
<1> SUFFICES ASSUME TypeInv, TypeInv', KeyInv, Untouched, AnswerInv, [Next]_vars
             PROVE  AnswerInv'
  OBVIOUS
<1>1. CASE \/ Start \/ Collect \/ ConnectFails \/ BuildError \/ TimesOut \/ Apply \/ ApplyError
           \/ Idle \/ UNCHANGED vars
  <2>1. UNCHANGED <<sid, in, out, rIn>>
    BY <1>1 DEF Start, Collect, ConnectFails, BuildError, TimesOut, Apply, ApplyError, Idle, vars,
       device, gateway, Die, EndSession
  <2>2. /\ pc' \in {"reg", "run"} => pc \in {"reg", "run"}
        /\ pc' \in {"apply", "answer"} => pc \in {"apply", "answer"}
        /\ pc' = "answer" => pc = "answer" \/ ~Raises(Command)
    BY <1>1 DEF Start, Collect, ConnectFails, BuildError, TimesOut, Apply, ApplyError, Idle, vars,
       device, Die, EndSession
  <2>. QED BY <2>1, <2>2, SilentAnswerInv
<1>2. CASE Connect
  BY <1>2, ConnectAnswerInv
<1>3. CASE RecvKeyngack \/ RecvDh \/ RecvShortDh \/ RegIgnores \/ RegError \/ RunError \/ ReportError
  BY <1>3, RegAnswerInv
<1>4. CASE KeepAlive \/ RecvFails
  BY <1>4, WaitAnswerInv
<1>5. CASE RecvRun
  BY <1>5, RecvRunAnswerInv
<1>6. CASE Answer
  BY <1>6, AnswerAnswerInv
<1>7. CASE \E s \in Sessions : \/ GwRecv(s) \/ GwCommand(s) \/ GwBadCommand(s)
                               \/ GwSeesClose(s) \/ GwStrays(s) \/ Disconnect(s)
  BY <1>7, GatewayAnswerInv
<1>. QED
  BY <1>1, <1>2, <1>3, <1>4, <1>5, <1>6, <1>7 DEF Next, DeviceStep, GatewayStep, FaultStep

LEMMA AnswerInvInOrder == TypeInv /\ AnswerInv => AnswersInOrder
<1> SUFFICES ASSUME TypeInv, AnswerInv, NEW s \in Sessions
             PROVE  /\ Cardinality(Answerable(s)) - Cardinality(Answers(s)) \in {0, 1}
                    /\ Paired(s)
  BY DEF AnswersInOrder, Paired
<1>1. Owed(s) \in Nat /\ Answered(s) \in Nat
  BY PlacesType, FS_CardinalityType DEF Owed, Answered
<1>2. Owed(s) \in {Answered(s), Answered(s) + 1} /\ Paired(s)
  BY DEF AnswerInv, Balance
<1>. QED
  BY <1>1, <1>2 DEF Owed, Answered

\* The i-th answer on a connection is the answer to the i-th of its commands
\* that deserves one, and at most the last of them is unanswered, however many
\* commands and connections there are and whatever handlers raise
\* (elink.lua:494-534).
THEOREM AnsweredInOrder == Spec => []AnswersInOrder
<1>1. Init => TypeInv /\ KeyInv /\ Untouched /\ AnswerInv
  BY InitTypeInv, InitKeyInv, InitFaultsFirst, InitAnswerInv
<1>2. TypeInv /\ KeyInv /\ Untouched /\ AnswerInv /\ [Next]_vars
        => (TypeInv /\ KeyInv /\ Untouched /\ AnswerInv)'
  BY NextTypeInv, NextKeyInv, NextUntouched, NextAnswerInv
<1>3. TypeInv /\ AnswerInv => AnswersInOrder
  BY AnswerInvInOrder
<1>. QED
  BY <1>1, <1>2, <1>3, PTL DEF Spec

-----------------------------------------------------------------------------
(***************************************************************************)
(* The service.  A step of the session is a step of CommandService, or     *)
(* none, because the commands a connection brings are understood by the    *)
(* agent that reads them: the gateway issues them under the secret the     *)
(* agent registered with, and only then.                                   *)
(***************************************************************************)

LEMMA NumberSkip ==
  ASSUME NEW q, NEW n \in Nat, NEW T, q[n + 1].type \notin T
  PROVE  Number(q, n + 1, T) = Number(q, n, T)
<1>1. {i \in 1 .. n + 1 : q[i].type \in T} = {i \in 1 .. n : q[i].type \in T}
  OBVIOUS
<1> QED
  BY <1>1 DEF Number

LEMMA NumberFewer ==
  ASSUME NEW p, NEW m \in Nat, NEW q, NEW n \in Nat, NEW T,
         \A i \in 1 .. m : p[i].type \in T => i \in 1 .. n /\ q[i].type \in T
  PROVE  Number(p, m, T) <= Number(q, n, T)
<1> DEFINE A == {i \in 1 .. m : p[i].type \in T}
           B == {i \in 1 .. n : q[i].type \in T}
<1>1. A \subseteq B
  OBVIOUS
<1>2. IsFiniteSet(B)
  BY NumberType
<1> HIDE DEF A, B
<1>3. Cardinality(A) <= Cardinality(B)
  BY <1>1, <1>2, FS_Subset
<1> QED
  BY <1>3 DEF Number, A, B

\* The gateway registered the agent under a secret the agent registered with.
Confirmed ==
  \A s \in Sessions : phase[s] = "registered" =>
    \E i \in Registration(s) : out[s][i].key = gwKey[s]

CommandsKeyed ==
  \A s \in Sessions : \A k \in 1 .. Len(in[s]) :
    in[s][k].type \in CmdTypes => phase[s] = "registered" /\ in[s][k].key = gwKey[s]

FewCommands == \A s \in Sessions : Sent(s) <= MaxCmd

AppliedRead ==
  \A n \in 1 .. Len(applied) :
    /\ applied[n][1] \in Sessions
    /\ applied[n][2] \in 1 .. rIn[applied[n][1]]

ServeInv == Confirmed /\ CommandsKeyed /\ FewCommands /\ AppliedRead

LEMMA InitServeInv == Init => ServeInv
<1> SUFFICES ASSUME Init PROVE ServeInv
  OBVIOUS
<1>1. applied = <<>> /\ \A s \in Sessions : in[s] = <<>> /\ phase[s] = "new"
  BY DEF Init
<1>2. FewCommands
  <2> SUFFICES ASSUME NEW s \in Sessions PROVE Sent(s) <= MaxCmd
    BY DEF FewCommands
  <2>1. {i \in 1 .. Len(in[s]) : in[s][i].type \in CmdTypes} = {}
    BY <1>1
  <2>2. Sent(s) = 0
    BY <2>1, FS_EmptySet DEF Sent, Number
  <2> QED
    BY <2>2, BoundsAssumption
<1> QED
  BY <1>1, <1>2 DEF ServeInv, Confirmed, CommandsKeyed, AppliedRead

\* What the gateway does to the commands of its log: it keeps them where they
\* are or loses them, or issues one more.
LostOrKept ==
  \A t \in Sessions : \A k \in 1 .. Len(in'[t]) :
    in'[t][k].type \in CmdTypes => k \in 1 .. Len(in[t]) /\ in'[t][k] = in[t][k]

Issues(s, f) ==
  /\ Say(s, f) /\ f \in InFrame /\ f.type \in CmdTypes /\ f.key = gwKey[s]
  /\ phase[s] = "registered" /\ Sent(s) < MaxCmd
  /\ UNCHANGED <<phase, gwKey>>

LEMMA SayLostOrKept ==
  ASSUME TypeInv, NEW s \in Sessions, NEW f \in InFrame, f.type \notin CmdTypes, Say(s, f)
  PROVE  LostOrKept
<1>1. /\ \A t \in Sessions : t # s => in'[t] = in[t]
      /\ Len(in[s]) \in Nat /\ Len(in'[s]) = Len(in[s]) + 1
      /\ \A i \in 1 .. Len(in[s]) : in'[s][i] = in[s][i]
      /\ in'[s][Len(in[s]) + 1] = f
  BY SayShape
<1>2. 1 .. Len(in'[s]) = (1 .. Len(in[s])) \cup {Len(in[s]) + 1}
  BY <1>1
<1> QED
  BY <1>1, <1>2 DEF LostOrKept

LEMMA GatewayCommands ==
  ASSUME TypeInv, NEW s \in Sessions,
         \/ GwRecv(s) \/ GwCommand(s) \/ GwBadCommand(s)
         \/ GwSeesClose(s) \/ GwStrays(s) \/ Disconnect(s)
  PROVE  LostOrKept \/ \E f \in InFrame : Issues(s, f)
<1>1. CASE GwCommand(s) \/ GwBadCommand(s)
  <2>1. PICK k \in CmdKinds :
          /\ phase[s] = "registered" /\ Sent(s) < MaxCmd /\ UNCHANGED <<phase, gwKey>>
          /\ Say(s, GwFrame(k.type, gwKey[s], IF k.numbered THEN Sent(s) + 1 ELSE 0, 0, k.full))
    BY <1>1 DEF GwCommand, GwBadCommand, GwIssues, gateway
  <2> DEFINE f == GwFrame(k.type, gwKey[s], IF k.numbered THEN Sent(s) + 1 ELSE 0, 0, k.full)
  <2>2. k.type \in CmdTypes
    BY BoundsAssumption DEF CmdKind
  <2>3. f \in InFrame /\ f.key = gwKey[s] /\ f.type \in CmdTypes
    BY <2>2, IssuedType DEF GwFrame
  <2>4. Say(s, f)
    BY <2>1
  <2> HIDE DEF f
  <2> QED
    BY <2>1, <2>3, <2>4 DEF Issues
<1>2. CASE GwRecv(s)
  <2>1. out[s][rOut[s] + 1] \in OutFrame /\ gwKey[s] \in Keys
    <3>1. rOut[s] \in Nat /\ out[s] \in Seq(OutFrame) /\ gwKey[s] \in Keys
      BY DEF TypeInv, TypeOK
    <3>2. rOut[s] < Len(out[s])
      BY <1>2 DEF GwRecv
    <3> QED
      BY <3>1, <3>2
  <2> DEFINE f == out[s][rOut[s] + 1]
             a == GwFrame("keyngack", NoKey, f.num, 0, TRUE)
             b == GwFrame("dh", NoKey, f.num, s, TRUE)
             c == GwFrame("ack", gwKey[s], f.num, 0, TRUE)
  <2>2. UNCHANGED in \/ Say(s, a) \/ Say(s, b) \/ Say(s, c)
    BY <1>2 DEF GwRecv, GwAcks
  <2>3. f.num \in Nat /\ s \in Nat
    BY <2>1 DEF OutFrame, Sessions
  <2> HIDE DEF f
  <2>4. /\ a \in InFrame /\ b \in InFrame /\ c \in InFrame
        /\ a.type \notin CmdTypes /\ b.type \notin CmdTypes /\ c.type \notin CmdTypes
    BY <2>1, <2>3, NoKeyType, GwFrameTypes DEF InTypes, GwFrame, CmdTypes
  <2> HIDE DEF a, b, c
  <2>5. CASE UNCHANGED in
    BY <2>5 DEF LostOrKept
  <2>. QED BY <2>2, <2>4, <2>5, SayLostOrKept
<1>3. CASE GwStrays(s)
  <2>1. PICK t \in {"keyngack", "dh", "ack", "garbage"} : Say(s, GwFrame(t, NoKey, 0, s, TRUE))
    BY <1>3 DEF GwStrays
  <2> DEFINE f == GwFrame(t, NoKey, 0, s, TRUE)
  <2>2. t \in InTypes /\ s \in Nat /\ t \notin CmdTypes
    BY DEF InTypes, Sessions, CmdTypes
  <2>3. f \in InFrame /\ f.type \notin CmdTypes
    BY <2>2, NoKeyType, GwFrameTypes DEF GwFrame
  <2> HIDE DEF f
  <2>. QED BY <2>1, <2>3, SayLostOrKept DEF f
<1>4. CASE GwSeesClose(s)
  BY <1>4 DEF GwSeesClose, LostOrKept
<1>5. CASE Disconnect(s)
  <2> SUFFICES ASSUME NEW t \in Sessions, NEW k \in 1 .. Len(in'[t]), in'[t][k].type \in CmdTypes
               PROVE  k \in 1 .. Len(in[t]) /\ in'[t][k] = in[t][k]
    BY DEF LostOrKept
  <2>1. in'[t][k].type # "cut"
    BY DEF CmdTypes
  <2>. QED BY <1>5, <2>1, CutTypes
<1>. QED
  BY <1>1, <1>2, <1>3, <1>4, <1>5

\* A registration stands, and so does what is known of it.
LEMMA GatewayPhase ==
  ASSUME TypeInv, NEW s \in Sessions,
         \/ GwRecv(s) \/ GwCommand(s) \/ GwBadCommand(s)
         \/ GwSeesClose(s) \/ GwStrays(s) \/ Disconnect(s)
  PROVE  /\ \A t \in Sessions : phase[t] = "registered" =>
              phase'[t] = "registered" /\ gwKey'[t] = gwKey[t]
         /\ \A t \in Sessions : phase[t] # "registered" /\ phase'[t] = "registered" =>
              \E i \in Registration(t) : out[t][i].key = gwKey'[t]
<1>1. CASE UNCHANGED <<phase, gwKey>>
  BY <1>1
<1>2. CASE GwRecv(s)
  <2>1. /\ phase \in [Sessions -> Phases] /\ gwKey \in [Sessions -> Keys]
        /\ rOut[s] \in Nat /\ out[s] \in Seq(OutFrame)
    BY DEF TypeInv, TypeOK
  <2>2. rOut[s] < Len(out[s])
    BY <1>2 DEF GwRecv
  <2>3. rOut[s] + 1 \in 1 .. Len(out[s])
    BY <2>1, <2>2
  <2> DEFINE f == out[s][rOut[s] + 1]
  <2>4. \/ /\ phase[s] # "registered"
           /\ \/ phase' = [phase EXCEPT ![s] = "greeted"]
              \/ phase' = [phase EXCEPT ![s] = "keyed"]
           /\ \A t \in Sessions : t # s => gwKey'[t] = gwKey[t]
        \/ /\ phase[s] # "registered" /\ phase' = [phase EXCEPT ![s] = "registered"]
           /\ f.type = "dev_reg" /\ f.key = gwKey[s] /\ gwKey' = gwKey
        \/ UNCHANGED <<phase, gwKey>>
    BY <1>2, <2>1 DEF GwRecv
  <2>5. f.type = "dev_reg" => rOut[s] + 1 \in Registration(s)
    BY <2>3 DEF Registration
  <2>. QED BY <2>1, <2>4, <2>5
<1>. QED
  BY <1>1, <1>2 DEF GwCommand, GwBadCommand, GwIssues, GwSeesClose, GwStrays, Disconnect, gateway

LEMMA GatewayServeInv ==
  ASSUME TypeInv, TypeInv', KeyInv, ServeInv, NEW s \in Sessions,
         \/ GwRecv(s) \/ GwCommand(s) \/ GwBadCommand(s)
         \/ GwSeesClose(s) \/ GwStrays(s) \/ Disconnect(s)
  PROVE  ServeInv'
<1>1. UNCHANGED <<applied, rIn, out>>
  BY GatewayStepsReadOn DEF device
<1>2. /\ \A t \in Sessions : phase[t] = "registered" =>
           phase'[t] = "registered" /\ gwKey'[t] = gwKey[t]
      /\ \A t \in Sessions : phase[t] # "registered" /\ phase'[t] = "registered" =>
           \E i \in Registration(t) : out[t][i].key = gwKey'[t]
  BY GatewayPhase
<1>3. Confirmed'
  <2> SUFFICES ASSUME NEW t \in Sessions, phase'[t] = "registered"
               PROVE  \E i \in Registration(t)' : out'[t][i].key = gwKey'[t]
    BY DEF Confirmed
  <2>1. Registration(t)' = Registration(t)
    BY <1>1 DEF Registration
  <2>2. CASE phase[t] = "registered"
    BY <1>1, <1>2, <2>1, <2>2 DEF ServeInv, Confirmed
  <2>. QED BY <1>1, <1>2, <2>1, <2>2
<1>4. AppliedRead'
  BY <1>1 DEF ServeInv, AppliedRead
<1>5. ASSUME NEW t \in Sessions PROVE Len(in[t]) \in Nat /\ Len(in'[t]) \in Nat
  <2>1. in[t] \in Seq(InFrame) /\ in'[t] \in Seq(InFrame)
    BY DEF TypeInv, TypeOK
  <2>. QED BY <2>1
<1>6. CASE LostOrKept
  <2>1. CommandsKeyed'
    BY <1>2, <1>6 DEF ServeInv, CommandsKeyed, LostOrKept
  <2>2. FewCommands'
    <3> SUFFICES ASSUME NEW t \in Sessions PROVE Sent(t)' <= MaxCmd
      BY DEF FewCommands
    <3> DEFINE p == in'[t]
               m == Len(in'[t])
               q == in[t]
               n == Len(in[t])
    <3>1. /\ m \in Nat /\ n \in Nat
          /\ \A i \in 1 .. m : p[i].type \in CmdTypes => i \in 1 .. n /\ q[i].type \in CmdTypes
      BY <1>5, <1>6 DEF LostOrKept
    <3> HIDE DEF p, m, q, n
    <3>2. Number(p, m, CmdTypes) <= Number(q, n, CmdTypes)
      BY <3>1, NumberFewer
    <3>3. Number(p, m, CmdTypes) \in Nat /\ Number(q, n, CmdTypes) \in Nat
      BY <3>1, NumberType
    <3>4. Sent(t)' = Number(p, m, CmdTypes) /\ Sent(t) = Number(q, n, CmdTypes)
      BY DEF Sent, p, m, q, n
    <3>5. Sent(t) <= MaxCmd /\ MaxCmd \in Nat
      BY BoundsAssumption DEF ServeInv, FewCommands
    <3>. QED BY <3>2, <3>3, <3>4, <3>5
  <2>. QED BY <1>3, <1>4, <2>1, <2>2 DEF ServeInv
<1>7. ASSUME NEW f \in InFrame, Issues(s, f)
      PROVE  CommandsKeyed' /\ FewCommands'
  <2>1. /\ \A t \in Sessions : t # s => in'[t] = in[t]
        /\ Len(in[s]) \in Nat /\ Len(in'[s]) = Len(in[s]) + 1
        /\ \A i \in 1 .. Len(in[s]) : in'[s][i] = in[s][i]
        /\ in'[s][Len(in[s]) + 1] = f
    BY <1>7, SayShape DEF Issues
  <2>2. 1 .. Len(in'[s]) = (1 .. Len(in[s])) \cup {Len(in[s]) + 1}
    BY <2>1
  <2>3. /\ f.type \in CmdTypes /\ f.key = gwKey[s] /\ phase[s] = "registered"
        /\ Sent(s) < MaxCmd /\ phase' = phase /\ gwKey' = gwKey
    BY <1>7 DEF Issues
  <2>4. CommandsKeyed'
    <3> SUFFICES ASSUME NEW t \in Sessions, NEW k \in 1 .. Len(in'[t]), in'[t][k].type \in CmdTypes
                 PROVE  phase[t] = "registered" /\ in'[t][k].key = gwKey[t]
      BY <2>3 DEF CommandsKeyed
    <3>1. CASE t # s
      BY <2>1, <3>1 DEF ServeInv, CommandsKeyed
    <3>2. CASE t = s
      BY <2>1, <2>2, <2>3, <3>2 DEF ServeInv, CommandsKeyed
    <3>. QED BY <3>1, <3>2
  <2>5. Sent(s)' = Sent(s) + 1
    <3> DEFINE p == in'[s]
               q == in[s]
               n == Len(in[s])
    <3>1. /\ n \in Nat /\ \A i \in 1 .. n : p[i] = q[i]
          /\ p[n + 1].type \in CmdTypes /\ Len(p) = n + 1
      BY <2>1, <2>3
    <3>2. Sent(s)' = Number(p, Len(p), CmdTypes) /\ Sent(s) = Number(q, n, CmdTypes)
      BY DEF Sent
    <3> HIDE DEF p, q, n
    <3>3. Number(p, n, CmdTypes) = Number(q, n, CmdTypes)
      BY <3>1, NumberSame
    <3>4. Number(p, n + 1, CmdTypes) = Number(p, n, CmdTypes) + 1
      BY <3>1, NumberStep
    <3>. QED BY <3>1, <3>2, <3>3, <3>4
  <2>6. Sent(s) \in Nat
    BY <2>1, NumberType DEF Sent
  <2>7. \A t \in Sessions : t # s => Sent(t)' = Sent(t)
    BY <2>1 DEF Sent
  <2>8. FewCommands'
    BY <2>3, <2>5, <2>6, <2>7, BoundsAssumption DEF ServeInv, FewCommands
  <2>. QED BY <2>4, <2>8
<1>. QED
  BY <1>3, <1>4, <1>6, <1>7, GatewayCommands DEF ServeInv

\* What the agent sends and reads is added to what it sent and read.
LEMMA AgentGrows ==
  ASSUME TypeInv, TypeInv',
         \/ DeviceStep \/ Collect \/ ConnectFails \/ BuildError \/ RecvShortDh \/ TimesOut
         \/ ReportError \/ ApplyError
  PROVE  /\ UNCHANGED <<in, phase, gwKey>>
         /\ \A t \in Sessions : /\ rIn[t] <= rIn'[t]
                              /\ \A i \in 1 .. Len(out[t]) :
                                   i \in 1 .. Len(out'[t]) /\ out'[t][i] = out[t][i]
         /\ \/ applied' = applied
            \/ /\ pc = "apply" /\ applied' = Append(applied, <<sid, rIn[sid]>>)
               /\ UNCHANGED rIn
<1>1. UNCHANGED <<in, phase, gwKey>>
  BY DEF DeviceStep, Start, Collect, Connect, ConnectFails, BuildError, RecvKeyngack, RecvDh,
     RecvShortDh, Derive, RegIgnores, RegError, KeepAlive, Idle, RecvFails, TimesOut, RecvRun,
     RunError, ReportError, Apply, ApplyError, Answer, gateway, vars
<1>2. UNCHANGED out \/ \E u \in Sessions : \E f : Send(u, f)
  <2>1. CASE Connect
    <3>1. sid + 1 \in Sessions
      BY <2>1, BoundsAssumption DEF Connect, TypeInv, TypeOK, Sessions, MaxSession
    <3>. QED BY <2>1, <3>1 DEF Connect
  <2>2. CASE RecvKeyngack \/ RecvDh \/ RecvShortDh \/ KeepAlive \/ RecvRun \/ Answer
    <3>1. sid \in Sessions
      BY <2>2 DEF TypeInv, InUse, RecvKeyngack, RecvDh, RecvShortDh, Derive, InReg, KeepAlive, Waiting,
         RecvRun, Answer
    <3>. QED BY <2>2, <3>1 DEF RecvKeyngack, RecvDh, RecvShortDh, Derive, KeepAlive, RecvRun, Answer
  <2>3. CASE ~(Connect \/ RecvKeyngack \/ RecvDh \/ RecvShortDh \/ KeepAlive \/ RecvRun \/ Answer)
    BY <2>3 DEF DeviceStep, Start, Collect, ConnectFails, BuildError,
       RegIgnores, RegError, Idle, RecvFails, TimesOut,
       RunError, ReportError, Apply, ApplyError, Die, EndSession, device, vars
  <2>. QED BY <2>1, <2>2, <2>3
<1>3. \A t \in Sessions : \A i \in 1 .. Len(out[t]) :
         i \in 1 .. Len(out'[t]) /\ out'[t][i] = out[t][i]
  <2>1. out \in [Sessions -> Seq(OutFrame)] /\ out' \in [Sessions -> Seq(OutFrame)]
    BY DEF TypeInv, TypeOK
  <2>2. \A t \in Sessions : out'[t] = out[t] \/ \E f : out'[t] = Append(out[t], f)
    BY <1>2, <2>1 DEF Send
  <2> SUFFICES ASSUME NEW t \in Sessions, NEW i \in 1 .. Len(out[t])
               PROVE  i \in 1 .. Len(out'[t]) /\ out'[t][i] = out[t][i]
    OBVIOUS
  <2>3. out[t] \in Seq(OutFrame) /\ out'[t] \in Seq(OutFrame)
    BY <2>1
  <2>. QED BY <2>2, <2>3
<1>4. \A t \in Sessions : rIn[t] <= rIn'[t]
  <2>1. UNCHANGED rIn \/ Read
    BY DEF DeviceStep, Start, Collect, Connect, ConnectFails, BuildError, RecvKeyngack, RecvDh,
       RecvShortDh, Derive, RegIgnores, RegError, KeepAlive, Idle, RecvFails, TimesOut, RecvRun,
       RunError, ReportError, Apply, ApplyError, Answer, gateway, vars
  <2>2. rIn \in [Sessions -> Nat]
    BY DEF TypeInv, TypeOK
  <2>. QED BY <2>1, <2>2 DEF Read
<1>5. \/ applied' = applied
      \/ /\ pc = "apply" /\ applied' = Append(applied, <<sid, rIn[sid]>>)
         /\ UNCHANGED rIn
  BY DEF DeviceStep, Start, Collect, Connect, ConnectFails, BuildError, RecvKeyngack, RecvDh,
     RecvShortDh, Derive, RegIgnores, RegError, KeepAlive, Idle, RecvFails, TimesOut, RecvRun,
     RunError, ReportError, Apply, ApplyError, Answer, Die, EndSession, device, vars
<1>. QED
  BY <1>1, <1>3, <1>4, <1>5

LEMMA AgentServeInv ==
  ASSUME TypeInv, TypeInv', ServeInv,
         \/ DeviceStep \/ Collect \/ ConnectFails \/ BuildError \/ RecvShortDh \/ TimesOut
         \/ ReportError \/ ApplyError
  PROVE  ServeInv'
<1>1. /\ UNCHANGED <<in, phase, gwKey>>
      /\ \A t \in Sessions : /\ rIn[t] <= rIn'[t]
                           /\ \A i \in 1 .. Len(out[t]) :
                                i \in 1 .. Len(out'[t]) /\ out'[t][i] = out[t][i]
      /\ \/ applied' = applied
         \/ /\ pc = "apply" /\ applied' = Append(applied, <<sid, rIn[sid]>>)
            /\ UNCHANGED rIn
  BY AgentGrows
<1>2. Confirmed'
  <2>1. \A t \in Sessions : \A i \in Registration(t) :
          i \in Registration(t)' /\ out'[t][i] = out[t][i]
    BY <1>1 DEF Registration
  <2>. QED BY <1>1, <2>1 DEF ServeInv, Confirmed
<1>3. CommandsKeyed'
  BY <1>1 DEF ServeInv, CommandsKeyed
<1>4. FewCommands'
  BY <1>1 DEF ServeInv, FewCommands, Sent
<1>5. \A t \in Sessions : rIn[t] \in Nat /\ rIn'[t] \in Nat
  BY DEF TypeInv, TypeOK
<1>6. CASE applied' = applied
  <2>1. AppliedRead'
    BY <1>1, <1>5, <1>6 DEF ServeInv, AppliedRead
  <2>. QED BY <1>2, <1>3, <1>4, <2>1 DEF ServeInv
<1>7. CASE /\ pc = "apply" /\ applied' = Append(applied, <<sid, rIn[sid]>>)
           /\ UNCHANGED rIn
  <2> DEFINE e == <<sid, rIn[sid]>>
  <2>1. sid \in Sessions /\ rIn[sid] \in 1 .. rIn[sid] /\ rIn[sid] \in Nat
    BY <1>7 DEF TypeInv, TypeOK, InUse
  <2>2. e \in Sessions \X Nat /\ e[1] = sid /\ e[2] = rIn[sid]
    BY <2>1
  <2>3. applied \in Seq(Sessions \X Nat) /\ applied' = Append(applied, e)
    BY <1>7 DEF TypeInv, TypeOK
  <2> HIDE DEF e
  <2>4. /\ Len(applied') = Len(applied) + 1 /\ Len(applied) \in Nat
        /\ \A i \in 1 .. Len(applied) : applied'[i] = applied[i]
        /\ applied'[Len(applied) + 1] = e
    BY <2>2, <2>3, AppendFacts
  <2>5. AppliedRead'
    <3> SUFFICES ASSUME NEW n \in 1 .. Len(applied')
                 PROVE  /\ applied'[n][1] \in Sessions
                        /\ applied'[n][2] \in 1 .. rIn[applied'[n][1]]
      BY <1>7 DEF AppliedRead
    <3>1. CASE n \in 1 .. Len(applied)
      BY <2>4, <3>1 DEF ServeInv, AppliedRead
    <3>2. CASE n = Len(applied) + 1
      BY <2>1, <2>2, <2>4, <3>2
    <3>. QED BY <2>4, <3>1, <3>2
  <2>. QED BY <1>2, <1>3, <1>4, <2>5 DEF ServeInv
<1>. QED
  BY <1>1, <1>6, <1>7

LEMMA NextServeInv == TypeInv /\ TypeInv' /\ KeyInv /\ ServeInv /\ [Next]_vars => ServeInv'
<1> SUFFICES ASSUME TypeInv, TypeInv', KeyInv, ServeInv, [Next]_vars PROVE ServeInv'
  OBVIOUS
<1>1. CASE DeviceStep \/ Collect \/ ConnectFails \/ BuildError \/ RecvShortDh
             \/ TimesOut \/ ReportError \/ ApplyError
  BY <1>1, AgentServeInv
<1>2. CASE \E s \in Sessions : \/ GwRecv(s) \/ GwCommand(s) \/ GwBadCommand(s)
                               \/ GwSeesClose(s) \/ GwStrays(s) \/ Disconnect(s)
  BY <1>2, GatewayServeInv
<1>3. CASE UNCHANGED vars
  BY <1>3 DEF vars, device, gateway, ServeInv, Confirmed, Registration, CommandsKeyed, FewCommands,
     Sent, AppliedRead
<1>. QED
  BY <1>1, <1>2, <1>3 DEF Next, FaultStep, GatewayStep

\* How the commands taken, carried out and answered follow the logs.
LEMMA TakenKept ==
  ASSUME TypeInv, ReadsOn, UNCHANGED rIn
  PROVE  CommandsTaken' = CommandsTaken
<1>1. ASSUME NEW s \in Sessions
      PROVE  Number(in'[s], rIn'[s], CmdTypes) = Number(in[s], rIn[s], CmdTypes)
  <2> DEFINE p == in'[s]
             q == in[s]
             n == rIn[s]
  <2>1. n \in Nat /\ \A i \in 1 .. n : p[i] = q[i]
    BY DEF TypeInv, TypeOK, ReadsOn
  <2> HIDE DEF p, q, n
  <2>2. Number(p, n, CmdTypes) = Number(q, n, CmdTypes)
    BY <2>1, NumberSame
  <2>. QED BY <2>2 DEF p, q, n
<1>. QED
  BY <1>1 DEF CommandsTaken, Place

LEMMA TakenRead ==
  ASSUME TypeInv, sid \in Sessions, Readable, Read, UNCHANGED in
  PROVE  CommandsTaken' = IF Pending.type \in CmdTypes
                          THEN [CommandsTaken EXCEPT ![sid] = @ + 1] ELSE CommandsTaken
<1> DEFINE q == in[sid]
           n == rIn[sid]
<1>1. n \in Nat /\ rIn'[sid] = n + 1 /\ \A s \in Sessions : s # sid => rIn'[s] = rIn[s]
  BY DEF TypeInv, TypeOK, Read
<1>2. Pending = q[n + 1]
  BY DEF Pending
<1> HIDE DEF q, n
<1>3. Number(q, n + 1, CmdTypes)
        = IF Pending.type \in CmdTypes THEN Number(q, n, CmdTypes) + 1 ELSE Number(q, n, CmdTypes)
  BY <1>1, <1>2, NumberStep, NumberSkip
<1>4. CommandsTaken'[sid] = Number(q, n + 1, CmdTypes) /\ CommandsTaken[sid] = Number(q, n, CmdTypes)
  BY <1>1 DEF CommandsTaken, Place, q, n
<1>5. \A s \in Sessions : s # sid => CommandsTaken'[s] = CommandsTaken[s]
  BY <1>1 DEF CommandsTaken, Place
<1>6. /\ CommandsTaken = [s \in Sessions |-> CommandsTaken[s]]
      /\ CommandsTaken' = [s \in Sessions |-> CommandsTaken'[s]]
  BY DEF CommandsTaken
<1> HIDE DEF CommandsTaken
<1>. QED
  BY <1>3, <1>4, <1>5, <1>6

LEMMA AnswersSentSend ==
  ASSUME TypeInv, NEW s \in Sessions, NEW f \in OutFrame, Send(s, f)
  PROVE  AnswersSent' = IF f.type \in AnswerTypes
                        THEN [AnswersSent EXCEPT ![s] = @ + 1] ELSE AnswersSent
<1> DEFINE q == out[s]
           p == out'[s]
           n == Len(out[s])
<1>1. /\ n \in Nat /\ Len(p) = n + 1 /\ p[n + 1] = f
      /\ \A i \in 1 .. n : p[i] = q[i]
      /\ \A t \in Sessions : t # s => out'[t] = out[t]
  BY SendShape
<1>2. AnswersSent'[s] = Number(p, Len(p), AnswerTypes) /\ AnswersSent[s] = Number(q, n, AnswerTypes)
  BY DEF AnswersSent
<1> HIDE DEF p, q, n
<1>3. Number(p, n, AnswerTypes) = Number(q, n, AnswerTypes)
  BY <1>1, NumberSame
<1>4. Number(p, n + 1, AnswerTypes) = IF f.type \in AnswerTypes THEN Number(p, n, AnswerTypes) + 1
                                                               ELSE Number(p, n, AnswerTypes)
  BY <1>1, NumberStep, NumberSkip
<1>5. \A t \in Sessions : t # s => AnswersSent'[t] = AnswersSent[t]
  BY <1>1 DEF AnswersSent
<1>6. /\ AnswersSent = [t \in Sessions |-> AnswersSent[t]]
      /\ AnswersSent' = [t \in Sessions |-> AnswersSent'[t]]
  BY DEF AnswersSent
<1> HIDE DEF AnswersSent
<1>. QED
  BY <1>1, <1>2, <1>3, <1>4, <1>5, <1>6

LEMMA CarriedOutKept ==
  ASSUME TypeInv, AppliedRead, ReadsOn, UNCHANGED applied
  PROVE  CarriedOut' = CarriedOut
<1>1. ASSUME NEW n \in 1 .. Len(applied)
      PROVE  Number(in'[applied[n][1]], applied[n][2], CmdTypes)
               = Number(in[applied[n][1]], applied[n][2], CmdTypes)
  <2> DEFINE s == applied[n][1]
             k == applied[n][2]
             p == in'[s]
             q == in[s]
  <2>1. s \in Sessions /\ k \in 1 .. rIn[s] /\ rIn[s] \in Nat
    BY DEF AppliedRead, TypeInv, TypeOK
  <2>2. k \in Nat /\ \A i \in 1 .. k : p[i] = q[i]
    BY <2>1 DEF ReadsOn
  <2> HIDE DEF s, k, p, q
  <2>3. Number(p, k, CmdTypes) = Number(q, k, CmdTypes)
    BY <2>2, NumberSame
  <2>. QED BY <2>3 DEF p, q, s, k
<1>. QED
  BY <1>1 DEF CarriedOut, Place

\* No command is taken for something else.
LEMMA CommandUnderstood ==
  ASSUME TypeInv, KeyInv, SealInv, ServeInv, sid \in Sessions, pc \in {"reg", "run"},
         Readable, Pending.type \in CmdTypes
  PROVE  pc = "run" /\ Understood
<1>1. rIn[sid] + 1 \in 1 .. Len(in[sid])
  <2>1. rIn[sid] \in Nat /\ in[sid] \in Seq(InFrame)
    BY DEF TypeInv, TypeOK
  <2>. QED BY <2>1 DEF Readable
<1>2. phase[sid] = "registered" /\ Pending.key = gwKey[sid]
  BY <1>1 DEF ServeInv, CommandsKeyed, Pending
<1>3. PICK i \in Registration(sid) : out[sid][i].key = gwKey[sid]
  BY <1>2 DEF ServeInv, Confirmed
<1>4. pc = "run"
  BY <1>3 DEF KeyInv, NotRegistered, RegAt, Registration
<1>5. secret = gwKey[sid]
  BY <1>3, <1>4 DEF SealInv, SecretKept, Registered
<1>. QED
  BY <1>2, <1>4, <1>5 DEF Understood, CmdTypes

RefineInv == TypeInv /\ KeyInv /\ SealInv /\ Untouched /\ ServeInv

\* A step that takes, carries out and answers nothing.
LEMMA ServiceStutters ==
  ASSUME TypeInv, CommandsTaken' = CommandsTaken, CarriedOut' = CarriedOut,
         AnswersSent' = AnswersSent,
         \/ UNCHANGED <<pc, sid>>
         \/ pc \notin {"apply", "answer"} /\ pc' \notin {"apply", "answer"}
  PROVE  UNCHANGED Service!vars
<1>1. GoneThrough' = GoneThrough
  BY Zenon DEF GoneThrough
<1>2. InHand' = InHand
  <2>1. CASE pc \notin {"apply", "answer"} /\ pc' \notin {"apply", "answer"}
    BY <2>1 DEF InHand
  <2>2. CASE UNCHANGED <<pc, sid>> /\ pc \in {"apply", "answer"}
    <3>1. sid \in Sessions
      BY <2>2 DEF TypeInv, InUse
    <3>2. Place(sid, rIn[sid]) = CommandsTaken[sid] /\ Place(sid, rIn[sid])' = CommandsTaken'[sid']
      BY <2>2, <3>1 DEF CommandsTaken
    <3>. QED BY <2>2, <3>2 DEF InHand
  <2>. QED BY <2>1, <2>2
<1>. QED
  BY <1>1, <1>2 DEF Service!vars

\* A command is read.
LEMMA RecvRunTakes ==
  ASSUME RefineInv, RecvRun, Pending.type \in CmdTypes
  PROVE  Service!Take(sid)
<1>1. /\ sid \in Sessions /\ pc = "run" /\ pc' = "apply" /\ Readable /\ Read
      /\ UNCHANGED <<sid, in, applied>> /\ Send(sid, Sealed("dev_report", sequence))
  BY DEF RefineInv, TypeInv, InUse, RecvRun
<1>2. TypeInv
  BY DEF RefineInv
<1>3. CommandsTaken' = [CommandsTaken EXCEPT ![sid] = @ + 1]
  BY <1>1, <1>2, TakenRead
<1>4. InHand = <<>> /\ GoneThrough' = FALSE
  BY <1>1 DEF InHand, GoneThrough
<1>5. /\ CommandsTaken[sid] = Number(in[sid], rIn[sid], CmdTypes)
      /\ rIn[sid] \in Nat /\ rIn[sid] < Len(in[sid]) /\ Len(in[sid]) \in Nat
      /\ in[sid][rIn[sid] + 1].type \in CmdTypes
  <2>1. rIn[sid] \in Nat /\ in[sid] \in Seq(InFrame)
    BY <1>1, <1>2 DEF TypeInv, TypeOK
  <2>. QED BY <1>1, <2>1 DEF CommandsTaken, Place, Readable, Pending
<1>6. InHand' = << <<sid, CommandsTaken[sid] + 1>> >>
  <2>1. Place(sid, rIn[sid])' = CommandsTaken'[sid]
    BY <1>1 DEF CommandsTaken, Place
  <2>2. CommandsTaken'[sid] = CommandsTaken[sid] + 1
    BY <1>1, <1>3 DEF CommandsTaken
  <2>. QED BY <1>1, <2>1, <2>2 DEF InHand
<1>7. CommandsTaken[sid] < MaxCmd
  <2> DEFINE q == in[sid]
             n == rIn[sid]
             m == Len(in[sid])
  <2>1. n \in Nat /\ m \in Nat /\ n + 1 \in Nat /\ n + 1 <= m /\ q[n + 1].type \in CmdTypes
    BY <1>5
  <2> HIDE DEF q, n, m
  <2>2. Number(q, n + 1, CmdTypes) = Number(q, n, CmdTypes) + 1
    BY <2>1, NumberStep
  <2>3. \A i \in 1 .. n + 1 : q[i].type \in CmdTypes => i \in 1 .. m /\ q[i].type \in CmdTypes
    BY <2>1
  <2>4. Number(q, n + 1, CmdTypes) <= Number(q, m, CmdTypes)
    BY <2>1, <2>3, NumberFewer
  <2>5. Number(q, m, CmdTypes) <= MaxCmd
    BY <1>1 DEF RefineInv, ServeInv, FewCommands, Sent, q, m
  <2>6. /\ Number(q, n, CmdTypes) \in Nat /\ Number(q, n + 1, CmdTypes) \in Nat
        /\ Number(q, m, CmdTypes) \in Nat /\ MaxCmd \in Nat
    BY <2>1, NumberType, BoundsAssumption
  <2>7. Number(q, n, CmdTypes) < MaxCmd
    BY <2>2, <2>4, <2>5, <2>6
  <2>. QED BY <1>5, <2>7 DEF q, n
<1>8. \A t \in Sessions : t > sid => CommandsTaken[t] = 0
  <2> SUFFICES ASSUME NEW t \in Sessions, t > sid PROVE CommandsTaken[t] = 0
    OBVIOUS
  <2>1. rIn[t] = 0
    BY DEF RefineInv, Untouched
  <2>2. {i \in 1 .. rIn[t] : in[t][i].type \in CmdTypes} = {}
    BY <2>1
  <2>. QED BY <2>2, FS_EmptySet DEF CommandsTaken, Place, Number
<1>9. AnswersSent' = AnswersSent
  <2>1. Sealed("dev_report", sequence) \in OutFrame
    BY <1>2, FrameTypes DEF TypeInv, TypeOK, OutTypes
  <2>2. Sealed("dev_report", sequence).type \notin AnswerTypes
    BY DEF Sealed, AnswerTypes
  <2>. QED BY <1>1, <1>2, <2>1, <2>2, AnswersSentSend
<1>10. CarriedOut' = CarriedOut
  <2>1. ReadsOn
    BY <1>1, ReadReadsOn DEF RefineInv
  <2>. QED BY <1>1, <2>1, CarriedOutKept DEF RefineInv, ServeInv
<1>. QED
  BY <1>3, <1>4, <1>6, <1>7, <1>8, <1>9, <1>10 DEF Service!Take

\* Its handler runs to the end.
LEMMA ApplyDoes ==
  ASSUME RefineInv, Apply
  PROVE  Service!Do
<1>1. /\ pc = "apply" /\ pc' = "answer" /\ sid \in Sessions /\ rIn[sid] \in Nat
      /\ UNCHANGED <<sid, in, rIn, out>>
      /\ applied' = IF Command.full THEN Append(applied, <<sid, rIn[sid]>>) ELSE applied
  BY DEF RefineInv, TypeInv, TypeOK, InUse, Apply
<1>2. /\ InHand = << <<sid, Place(sid, rIn[sid])>> >> /\ InHand' = InHand
      /\ ~GoneThrough /\ GoneThrough' = TRUE
  BY <1>1 DEF InHand, GoneThrough, Place
<1>3. CommandsTaken' = CommandsTaken /\ AnswersSent' = AnswersSent
  BY <1>1 DEF CommandsTaken, AnswersSent, Place
<1>4. CASE applied' = applied
  <2>1. CarriedOut' = CarriedOut
    BY <1>1, <1>4 DEF CarriedOut, Place
  <2>. QED BY <1>2, <1>3, <2>1 DEF Service!Do
<1>5. CASE applied' = Append(applied, <<sid, rIn[sid]>>)
  <2> DEFINE e == <<sid, rIn[sid]>>
             P(c) == <<c[1], Place(c[1], c[2])>>
  <2>1. applied \in Seq(Sessions \X Nat) /\ e \in Sessions \X Nat
    BY <1>1 DEF RefineInv, TypeInv, TypeOK
  <2>2. P(e) = <<sid, Place(sid, rIn[sid])>>
    OBVIOUS
  <2>3. CarriedOut = [n \in 1 .. Len(applied) |-> P(applied[n])]
    BY DEF CarriedOut
  <2>4. CarriedOut' = [n \in 1 .. Len(applied') |-> P(applied'[n])]
    BY <1>1 DEF CarriedOut, Place
  <2>5. applied' = Append(applied, e)
    BY <1>5
  <2> HIDE DEF e, P
  <2>6. CarriedOut' = Append(CarriedOut, P(e))
    BY <2>1, <2>3, <2>4, <2>5
  <2>7. CarriedOut' = Append(CarriedOut, InHand[1])
    BY <1>2, <2>2, <2>6
  <2>. QED BY <1>2, <1>3, <2>7 DEF Service!Do
<1>. QED
  BY <1>1, <1>4, <1>5

\* It is answered, or needs no answer.
LEMMA AnswerTells ==
  ASSUME RefineInv, Answer
  PROVE  Service!Tell
<1>1. /\ pc = "answer" /\ pc' = "run" /\ sid \in Sessions
      /\ UNCHANGED <<in, rIn, applied>>
      /\ UNCHANGED out \/ Send(sid, AnswerTo(Command))
      /\ Command \in InFrame /\ Command.type \in CmdTypes
  BY DEF RefineInv, TypeInv, TypeOK, InUse, Answer, Command
<1>2. InHand # <<>> /\ InHand[1][1] = sid /\ InHand' = <<>> /\ GoneThrough /\ GoneThrough' = FALSE
  BY <1>1 DEF InHand, GoneThrough
<1>3. CommandsTaken' = CommandsTaken /\ CarriedOut' = CarriedOut
  BY <1>1 DEF CommandsTaken, CarriedOut, Place
<1>4. AnswersSent' \in {AnswersSent, [AnswersSent EXCEPT ![sid] = @ + 1]}
  <2>1. CASE UNCHANGED out
    BY <2>1 DEF AnswersSent
  <2>2. CASE Send(sid, AnswerTo(Command))
    <3>1. AnswerTo(Command) \in OutFrame
      BY <1>1, AnswerToType DEF RefineInv
    <3>. QED BY <1>1, <2>2, <3>1, AnswersSentSend DEF RefineInv
  <2>. QED BY <1>1, <2>1, <2>2
<1>. QED
  BY <1>2, <1>3, <1>4 DEF Service!Tell

\* Its handler raises.
LEMMA ApplyErrorAbandons ==
  ASSUME RefineInv, ApplyError
  PROVE  Service!Abandon
<1>1. /\ pc = "apply" /\ pc' = "dead"
      /\ UNCHANGED <<in, rIn, out, applied>>
  BY DEF ApplyError, Die
<1>2. InHand # <<>> /\ InHand' = <<>> /\ ~GoneThrough /\ ~GoneThrough'
  BY <1>1 DEF InHand, GoneThrough
<1>3. GoneThrough' = GoneThrough
  BY <1>1 DEF GoneThrough
<1>4. CommandsTaken' = CommandsTaken /\ AnswersSent' = AnswersSent /\ CarriedOut' = CarriedOut
  BY <1>1 DEF CommandsTaken, AnswersSent, CarriedOut, Place
<1>. QED
  BY <1>2, <1>3, <1>4 DEF Service!Abandon

\* The agent's other steps.
LEMMA AgentStutters ==
  ASSUME RefineInv, UNCHANGED <<in, applied>>,
         \/ UNCHANGED <<pc, sid>>
         \/ pc \notin {"apply", "answer"} /\ pc' \notin {"apply", "answer"},
         \/ UNCHANGED rIn
         \/ sid \in Sessions /\ Readable /\ Read /\ Pending.type \notin CmdTypes,
         \/ UNCHANGED out
         \/ \E s \in Sessions : \E f \in OutFrame : Send(s, f) /\ f.type \notin AnswerTypes
  PROVE  UNCHANGED Service!vars
<1>1. ReadsOn
  BY ReadReadsOn DEF RefineInv
<1>2. CommandsTaken' = CommandsTaken
  BY <1>1, TakenKept, TakenRead DEF RefineInv
<1>3. CarriedOut' = CarriedOut
  BY <1>1, CarriedOutKept DEF RefineInv, ServeInv
<1>4. AnswersSent' = AnswersSent
  <2>1. CASE UNCHANGED out
    BY <2>1 DEF AnswersSent
  <2>2. ASSUME NEW s \in Sessions, NEW f \in OutFrame, Send(s, f), f.type \notin AnswerTypes
        PROVE  AnswersSent' = AnswersSent
    BY <2>2, AnswersSentSend DEF RefineInv
  <2>. QED BY <2>1, <2>2
<1>. QED
  BY <1>2, <1>3, <1>4, ServiceStutters DEF RefineInv

LEMMA ConnectStutters ==
  ASSUME RefineInv, Connect
  PROVE  UNCHANGED Service!vars
<1>1. Plain("keyngreq", sequence, 0) \in OutFrame
  BY FrameTypes DEF RefineInv, TypeInv, TypeOK, OutTypes
<1>2. Plain("keyngreq", sequence, 0).type \notin AnswerTypes
  BY DEF Plain, AnswerTypes
<1>3. sid + 1 \in Sessions /\ Send(sid + 1, Plain("keyngreq", sequence, 0))
  BY BoundsAssumption DEF Connect, RefineInv, TypeInv, TypeOK, Sessions, MaxSession
<1>4. /\ UNCHANGED <<in, applied, rIn>>
      /\ pc \notin {"apply", "answer"} /\ pc' \notin {"apply", "answer"}
  BY DEF Connect
<1>5. \E s \in Sessions : \E f \in OutFrame : Send(s, f) /\ f.type \notin AnswerTypes
  BY <1>1, <1>2, <1>3
<1>. QED
  BY <1>4, <1>5, AgentStutters

\* Frames that are no commands; a command is not among those it ignores or
\* fails on.
LEMMA ReadStutters ==
  ASSUME RefineInv,
         \/ RecvKeyngack \/ RecvDh \/ RecvShortDh \/ RegIgnores \/ RegError \/ RunError \/ ReportError
         \/ RecvRun /\ Pending.type \notin CmdTypes
  PROVE  UNCHANGED Service!vars
<1>1. /\ sid \in Sessions /\ pc \in {"reg", "run"} /\ Readable /\ Read
      /\ UNCHANGED <<in, applied>> /\ pc' \notin {"apply", "answer"}
  BY DEF RefineInv, TypeInv, InUse, RecvKeyngack, RecvDh, RecvShortDh, Derive, RegIgnores, RegError,
     RunError, ReportError, RecvRun, InReg, Die, device
<1>2. Pending.type \notin CmdTypes
  <2>1. CASE RecvKeyngack \/ RecvDh \/ RecvShortDh
    BY <2>1 DEF RecvKeyngack, RecvDh, RecvShortDh, Derive, CmdTypes
  <2>2. CASE RegIgnores \/ RegError \/ RunError \/ ReportError
    <3> SUFFICES ASSUME Pending.type \in CmdTypes PROVE FALSE
      OBVIOUS
    <3>1. pc = "run" /\ Understood
      BY <1>1, CommandUnderstood DEF RefineInv
    <3>. QED BY <2>2, <3>1 DEF RegIgnores, RegError, RunError, ReportError, InReg
  <2>. QED BY <2>1, <2>2
<1>3. UNCHANGED out \/ \E f \in OutFrame : Send(sid, f) /\ f.type \notin AnswerTypes
  <2>1. CASE RegIgnores \/ RegError \/ RunError \/ ReportError
    BY <2>1 DEF RegIgnores, RegError, RunError, ReportError, Die
  <2>2. CASE RecvKeyngack
    <3>1. Plain("dh", sequence, gen + 1) \in OutFrame
      BY FrameTypes DEF RefineInv, TypeInv, TypeOK, OutTypes
    <3>. QED BY <2>2, <3>1 DEF RecvKeyngack, Plain, AnswerTypes
  <2>3. CASE RecvDh \/ RecvShortDh
    <3>1. PICK x \in BOOLEAN : Derive(x)
      BY <2>3, Zenon DEF RecvDh, RecvShortDh
    <3> DEFINE f == [type |-> "dev_reg", key |-> secret', num |-> sequence, pub |-> 0]
    <3>2. Pending \in InFrame
      BY <1>1, ReadTypes DEF RefineInv, TypeInv
    <3>3. secret' \in Keys
      BY <3>1, <3>2 DEF RefineInv, TypeInv, TypeOK, Derive, Keys, InFrame
    <3>4. f \in OutFrame /\ f.type \notin AnswerTypes /\ Send(sid, f)
      BY <3>1, <3>3 DEF RefineInv, TypeInv, TypeOK, OutFrame, OutTypes, AnswerTypes, Derive
    <3> HIDE DEF f
    <3>. QED BY <3>4
  <2>4. CASE RecvRun
    <3>1. Sealed("dev_report", sequence) \in OutFrame
      BY FrameTypes DEF RefineInv, TypeInv, TypeOK, OutTypes
    <3>. QED BY <2>4, <3>1 DEF RecvRun, Sealed, AnswerTypes
  <2>. QED BY <2>1, <2>2, <2>3, <2>4
<1>4. UNCHANGED out \/ \E s \in Sessions : \E f \in OutFrame : Send(s, f) /\ f.type \notin AnswerTypes
  BY <1>1, <1>3
<1>. QED
  BY <1>1, <1>2, <1>4, AgentStutters

LEMMA WaitStutters ==
  ASSUME RefineInv,
         \/ Start \/ Collect \/ ConnectFails \/ BuildError \/ KeepAlive \/ Idle \/ RecvFails \/ TimesOut
         \/ UNCHANGED vars
  PROVE  UNCHANGED Service!vars
<1>1. UNCHANGED <<in, applied>>
  BY DEF Start, Collect, ConnectFails, BuildError, KeepAlive, Idle, RecvFails, TimesOut, Die,
     EndSession, vars, device
<1>2. \/ UNCHANGED <<pc, sid>>
      \/ pc \notin {"apply", "answer"} /\ pc' \notin {"apply", "answer"}
  BY DEF Start, Collect, ConnectFails, BuildError, KeepAlive, Idle, RecvFails, TimesOut, Die,
     EndSession, vars, device, Waiting
<1>3. \/ UNCHANGED rIn
      \/ sid \in Sessions /\ Readable /\ Read /\ Pending.type \notin CmdTypes
  BY DEF RefineInv, TypeInv, InUse, CmdTypes, Start, Collect, ConnectFails, BuildError, KeepAlive,
     Idle, RecvFails, TimesOut, vars
<1>4. UNCHANGED out \/ \E s \in Sessions : \E f \in OutFrame : Send(s, f) /\ f.type \notin AnswerTypes
  <2>1. CASE KeepAlive
    <3>1. Sealed("keepalive", sequence) \in OutFrame
      BY FrameTypes DEF RefineInv, TypeInv, TypeOK, OutTypes
    <3>2. sid \in Sessions
      BY <2>1 DEF RefineInv, TypeInv, InUse, KeepAlive, Waiting
    <3>. QED BY <2>1, <3>1, <3>2 DEF KeepAlive, Sealed, AnswerTypes
  <2>. QED
    BY <2>1 DEF Start, Collect, ConnectFails, BuildError, Idle, RecvFails, TimesOut, Die, EndSession,
       vars
<1>. QED
  BY <1>1, <1>2, <1>3, <1>4, AgentStutters

LEMMA GatewayStutters ==
  ASSUME RefineInv, TypeInv', NEW s \in Sessions,
         \/ GwRecv(s) \/ GwCommand(s) \/ GwBadCommand(s)
         \/ GwSeesClose(s) \/ GwStrays(s) \/ Disconnect(s)
  PROVE  UNCHANGED Service!vars
<1>1. UNCHANGED <<pc, sid, applied, rIn, out>> /\ ReadsOn
  BY GatewayStepsReadOn DEF RefineInv, device
<1>2. CommandsTaken' = CommandsTaken /\ CarriedOut' = CarriedOut
  BY <1>1, TakenKept, CarriedOutKept DEF RefineInv, ServeInv
<1>3. AnswersSent' = AnswersSent
  BY <1>1 DEF AnswersSent
<1>. QED
  BY <1>1, <1>2, <1>3, ServiceStutters DEF RefineInv

LEMMA InitService == Init => Service!Init
<1> SUFFICES ASSUME Init PROVE Service!Init
  OBVIOUS
<1>1. /\ pc = "dead" /\ applied = <<>>
      /\ \A s \in Sessions : out[s] = <<>> /\ rIn[s] = 0
  BY DEF Init
<1>2. ASSUME NEW s \in Sessions
      PROVE  /\ Number(in[s], rIn[s], CmdTypes) = 0
             /\ Number(out[s], Len(out[s]), AnswerTypes) = 0
  <2>1. /\ {i \in 1 .. rIn[s] : in[s][i].type \in CmdTypes} = {}
        /\ {i \in 1 .. Len(out[s]) : out[s][i].type \in AnswerTypes} = {}
    BY <1>1
  <2>. QED BY <2>1, FS_EmptySet DEF Number
<1>3. InHand = <<>>
  BY <1>1 DEF InHand
<1>4. GoneThrough = FALSE
  BY <1>1 DEF GoneThrough
<1>5. CarriedOut = <<>>
  BY <1>1 DEF CarriedOut
<1>6. /\ CommandsTaken = [s \in Sessions |-> 0]
      /\ AnswersSent = [s \in Sessions |-> 0]
  BY <1>2 DEF CommandsTaken, AnswersSent, Place
<1>. QED
  BY <1>3, <1>4, <1>5, <1>6 DEF Service!Init

LEMMA NextService == RefineInv /\ TypeInv' /\ [Next]_vars => [Service!Next]_(Service!vars)
<1> SUFFICES ASSUME RefineInv, TypeInv', [Next]_vars PROVE [Service!Next]_(Service!vars)
  OBVIOUS
<1>1. CASE RecvRun /\ Pending.type \in CmdTypes
  <2>1. sid \in Sessions
    BY <1>1 DEF RefineInv, TypeInv, InUse, RecvRun
  <2>. QED BY <1>1, <2>1, RecvRunTakes DEF Service!Next
<1>2. CASE Apply
  BY <1>2, ApplyDoes DEF Service!Next
<1>3. CASE Answer
  BY <1>3, AnswerTells DEF Service!Next
<1>4. CASE ApplyError
  BY <1>4, ApplyErrorAbandons DEF Service!Next
<1>5. CASE Connect
  BY <1>5, ConnectStutters
<1>6. CASE \/ RecvKeyngack \/ RecvDh \/ RecvShortDh \/ RegIgnores \/ RegError \/ RunError
           \/ ReportError \/ (RecvRun /\ Pending.type \notin CmdTypes)
  BY <1>6, ReadStutters
<1>7. CASE \/ Start \/ Collect \/ ConnectFails \/ BuildError \/ KeepAlive \/ Idle \/ RecvFails
           \/ TimesOut \/ UNCHANGED vars
  BY <1>7, WaitStutters
<1>8. CASE \E s \in Sessions : \/ GwRecv(s) \/ GwCommand(s) \/ GwBadCommand(s)
                               \/ GwSeesClose(s) \/ GwStrays(s) \/ Disconnect(s)
  BY <1>8, GatewayStutters
<1>. QED
  BY <1>1, <1>2, <1>3, <1>4, <1>5, <1>6, <1>7, <1>8
  DEF Next, DeviceStep, GatewayStep, FaultStep

LEMMA RefineInvHolds == Spec => []RefineInv
<1>1. Init => RefineInv
  BY InitTypeInv, InitKeyInv, InitSealInv, InitFaultsFirst, InitServeInv DEF RefineInv
<1>2. RefineInv /\ [Next]_vars => RefineInv'
  BY NextTypeInv, NextKeyInv, NextSealInv, NextUntouched, NextServeInv DEF RefineInv
<1>. QED
  BY <1>1, <1>2, PTL DEF Spec

LEMMA RefineInvTypes == RefineInv /\ [Next]_vars => TypeInv'
  BY NextTypeInv DEF RefineInv

\* Whatever connections break and whatever handlers raise, the session keeps
\* to CommandService: one command in hand at a time, gone through with or
\* given up, and answered at most once (elink.lua:494-534).
THEOREM ImplementsService == Spec => Service!Spec
<1>1. Init => Service!Init
  BY InitService
<1>2. RefineInv /\ [Next]_vars => [Service!Next]_(Service!vars)
  BY NextService, RefineInvTypes
<1>. QED
  BY <1>1, <1>2, RefineInvHolds, PTL DEF Spec, Service!Spec

\* What is proved of the service holds of the session's view of it.
Proved == INSTANCE CommandService_proofs WITH
  Conns <- Sessions, MaxTaken <- MaxCmd,
  taken <- CommandsTaken, hand <- InHand, gone <- GoneThrough,
  done <- CarriedOut, answers <- AnswersSent

LEMMA ServiceAssumed == Sessions \subseteq Nat /\ MaxCmd \in Nat
  BY BoundsAssumption DEF Sessions

LEMMA ServiceInvHolds == Spec => []Proved!ServiceInv
<1>1. Service!Init => Proved!ServiceInv
  <2>1. Service!Init => Proved!Init
    BY DEF Service!Init, Proved!Init
  <2>. QED BY <2>1, ServiceAssumed, Proved!InitServiceInv
<1>2. Proved!ServiceInv /\ [Service!Next]_(Service!vars) => Proved!ServiceInv'
  <2>1. [Service!Next]_(Service!vars) => [Proved!Next]_(Proved!vars)
    BY DEF Service!Next, Proved!Next, Service!vars, Proved!vars, Service!Take, Proved!Take,
       Service!Do, Proved!Do, Service!Tell, Proved!Tell, Service!Abandon, Proved!Abandon
  <2>. QED BY <2>1, ServiceAssumed, Proved!NextServiceInv
<1>. QED
  BY <1>1, <1>2, ImplementsService, PTL DEF Service!Spec

\* No command of any connection is carried out twice or out of order, and none
\* after a later one was read, although the connection it came on may be long
\* gone (elink.lua:496-532).
THEOREM CarriedOutInOrder == Spec => []Service!DoneInOrder
<1>1. Proved!ServiceInv => Service!DoneInOrder
  BY DEF Proved!ServiceInv, Proved!DoneInOrder, Service!DoneInOrder, Proved!Before, Service!Before
<1>. QED
  BY <1>1, ServiceInvHolds, PTL

\* The agent never sends more answers than it read commands, one less while it
\* is still at work on one (elink.lua:515-528).
THEOREM AnswersAreEarned == Spec => []Service!AnswersEarned
<1>1. Proved!ServiceInv => Service!AnswersEarned
  BY DEF Proved!ServiceInv, Proved!AnswersEarned, Service!AnswersEarned
<1>. QED
  BY <1>1, ServiceInvHolds, PTL
=============================================================================
