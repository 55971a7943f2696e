---------------------------- MODULE ElinkSession ----------------------------
(***************************************************************************)
(* One agent coroutine of elink.lua (function elinka) and its gateway.     *)
(*                                                                         *)
(* The agent connects, asks for a key (keyngreq), answers the gateway's    *)
(* keyngack with a fresh Diffie-Hellman key (dh), derives a secret from    *)
(* the gateway's dh, registers under that secret (dev_reg) and then serves *)
(* commands until the connection ends; it then closes and starts again.    *)
(* A Lua error anywhere kills the coroutine, whose locals are lost and     *)
(* whose socket stays open until the collector finds it; the scheduler     *)
(* starts another one.  The gateway is not part of the repository: its     *)
(* side is what elink.lua expects of it, plus the faults of FaultStep.     *)
(*                                                                         *)
(* A connection is a pair of logs, out (agent to gateway) and in (gateway  *)
(* to agent), with the number of frames each side has read so far.  Time   *)
(* is abstracted: a deadline may pass whenever nothing is readable.        *)
(***************************************************************************)
EXTENDS Naturals, Sequences, FiniteSets

CONSTANTS
  MaxFault,   \* how many faults (lost connections, errors, ...) may happen
  MaxCmd,     \* how many commands the gateway issues on a connection
  MaxKeep,    \* how many keepalives the agent sends on a connection
  MaxAck,     \* how many acknowledgements the gateway sends on a connection
  CmdKinds    \* the commands it issues: [type, full, numbered] records

CmdTypes == {"cfg", "get_status", "deassociation", "getrssiinfo"}

CmdKind == [type : CmdTypes, full : BOOLEAN, numbered : BOOLEAN]

ASSUME BoundsAssumption ==
  /\ MaxFault \in Nat /\ MaxCmd \in Nat /\ MaxKeep \in Nat /\ MaxAck \in Nat
  /\ CmdKinds \subseteq CmdKind

MaxSession == MaxFault + 1
Sessions   == 1 .. MaxSession

\* A secret names the two private keys it was derived from, the agent's and
\* the gateway's (the number of the connection it answered on); ~exact is a
\* shared number that lost a leading zero byte on the way (luadh1.c).
Keys  == [dev : Nat, gw : Nat, exact : BOOLEAN]
NoKey == [dev |-> 0, gw |-> 0, exact |-> TRUE]

AnswerTypes == {"ack", "status", "rssiinfo"}
OutTypes    == {"keyngreq", "dh", "dev_reg", "dev_report", "keepalive"} \cup AnswerTypes
InTypes     == {"keyngack", "dh", "ack", "cut", "garbage"} \cup CmdTypes

\* key: what the frame is encrypted under, NoKey for plain JSON; num: its
\* sequence field, 0 for none; pub: the private key its dh_key belongs to;
\* full: a command that carries its argument (set, get).
OutFrame == [type : OutTypes, key : Keys, num : Nat, pub : Nat]
InFrame  == [type : InTypes, key : Keys, num : Nat, pub : Nat, full : BOOLEAN]

VARIABLES
  pc,             \* where the coroutine is
  sid,            \* the connection it uses, or used last
  keepaliveFlag,  \* sendMsgLog.keepaliveFlag
  sequence,       \* devinfo.sequence
  privkey,        \* devinfo.privkey: which generated key, 0 for nil
  secret,         \* devinfo.secret
  identified,     \* devinfo.mac and the cached rest of devinfo are known
  open,           \* connections whose socket this process has not closed
  gen,            \* Diffie-Hellman keys generated so far
  applied,        \* the commands carried out, as <<connection, index in in>>
  out, rOut,      \* frames sent by the agent; how many the gateway has read
  in, rIn,        \* frames sent by the gateway; how many the agent has read
  phase, gwKey,   \* the gateway's view of a connection, and its secret
  shut,           \* connections the gateway holds closed
  faults          \* faults so far

locals  == <<keepaliveFlag, sequence, privkey, secret, identified>>
device  == <<pc, sid, locals, open, gen, applied>>
gateway == <<rOut, phase, gwKey, shut>>
vars    == <<device, gateway, out, in, rIn, faults>>

PCs    == {"dead", "opened", "reg", "run", "apply", "answer"}
Phases == {"new", "greeted", "keyed", "registered"}

TypeOK ==
  /\ pc \in PCs /\ sid \in 0 .. MaxSession
  /\ keepaliveFlag \in BOOLEAN /\ sequence \in Nat \ {0} /\ privkey \in Nat
  /\ secret \in Keys /\ identified \in BOOLEAN
  /\ open \subseteq Sessions /\ gen \in Nat
  /\ applied \in Seq(Sessions \X Nat)
  /\ out \in [Sessions -> Seq(OutFrame)] /\ rOut \in [Sessions -> Nat]
  /\ in \in [Sessions -> Seq(InFrame)] /\ rIn \in [Sessions -> Nat]
  /\ phase \in [Sessions -> Phases] /\ gwKey \in [Sessions -> Keys]
  /\ shut \subseteq Sessions /\ faults \in 0 .. MaxFault

Init ==
  /\ pc = "dead" /\ sid = 0
  /\ keepaliveFlag = FALSE /\ sequence = 1 /\ privkey = 0
  /\ secret = NoKey /\ identified = FALSE
  /\ open = {} /\ gen = 0 /\ applied = <<>>
  /\ out = [s \in Sessions |-> <<>>] /\ rOut = [s \in Sessions |-> 0]
  /\ in = [s \in Sessions |-> <<>>] /\ rIn = [s \in Sessions |-> 0]
  /\ phase = [s \in Sessions |-> "new"] /\ gwKey = [s \in Sessions |-> NoKey]
  /\ shut = {} /\ faults = 0

-----------------------------------------------------------------------------
(* What the handlers share.                                                *)

Plain(type, num, pub)  == [type |-> type, key |-> NoKey, num |-> num, pub |-> pub]
Sealed(type, num)      == [type |-> type, key |-> secret, num |-> num, pub |-> 0]

\* tcpSendData: whatever becomes of the frame, the sequence has moved on.
Send(s, f) ==
  /\ out' = [out EXCEPT ![s] = Append(@, f)]
  /\ sequence' = sequence + 1

Readable == rIn[sid] < Len(in[sid])
Pending    == in[sid][rIn[sid] + 1]
Read     == rIn' = [rIn EXCEPT ![sid] = @ + 1]

\* A Lua error ends the coroutine; its locals go with it, its socket does not.
Die ==
  /\ pc' = "dead"
  /\ keepaliveFlag' = FALSE /\ sequence' = 1 /\ privkey' = 0
  /\ secret' = NoKey /\ identified' = FALSE
  /\ UNCHANGED <<sid, open, gen, applied, out>>

\* reg or buildDevinfo gave up: close, collect everything, open a new socket.
EndSession ==
  /\ pc' = "opened" /\ open' = {}
  /\ UNCHANGED <<sid, locals, gen, applied, out>>

\* How many of the first n frames of a log have one of these types.
Number(log, n, types) == Cardinality({i \in 1 .. n : log[i].type \in types})

Fault == faults < MaxFault /\ faults' = faults + 1
NoFault == UNCHANGED faults

-----------------------------------------------------------------------------
(* The main loop.                                                          *)

\* The scheduler replaces a dead coroutine and runs it to its first yield.
Start ==
  /\ pc = "dead" /\ pc' = "opened"
  /\ UNCHANGED <<sid, locals, open, gen, applied, gateway, out, in, rIn, faults>>

\* The collector may close the sockets of coroutines nobody holds any more.
Garbage == IF pc = "opened" THEN open ELSE open \ {sid}

Collect ==
  /\ Garbage # {} /\ open' = open \ Garbage
  /\ UNCHANGED <<pc, sid, locals, gen, applied, gateway, out, in, rIn, faults>>

\* Mutant: keepaliveFlag is not lowered for the new connection.
ConnectKeepsFlag ==
  /\ pc = "opened" /\ sid < MaxSession
  /\ pc' = "reg" /\ sid' = sid + 1 /\ identified' = TRUE
  /\ open' = open \cup {sid + 1}
  /\ Send(sid + 1, Plain("keyngreq", sequence, 0))
  /\ UNCHANGED <<keepaliveFlag, privkey, secret, gen, applied, gateway, in, rIn, faults>>

\* buildDevinfo finds the gateway and connects; keyngreq goes out.
Connect ==
  /\ pc = "opened" /\ sid < MaxSession
  /\ pc' = "reg" /\ sid' = sid + 1
  /\ keepaliveFlag' = FALSE /\ identified' = TRUE
  /\ open' = open \cup {sid + 1}
  /\ Send(sid + 1, Plain("keyngreq", sequence, 0))
  /\ UNCHANGED <<privkey, secret, gen, applied, gateway, in, rIn, faults>>

\* buildDevinfo finds no gateway, or the connection is refused.
ConnectFails ==
  /\ pc = "opened" /\ Fault
  /\ keepaliveFlag' = FALSE /\ identified' = TRUE /\ open' = {}
  /\ UNCHANGED <<pc, sid, sequence, privkey, secret, gen, applied>>
  /\ UNCHANGED <<gateway, out, in, rIn>>

\* The first buildDevinfo of a coroutine raises when the system gives no MAC.
BuildError ==
  /\ pc = "opened" /\ ~identified /\ Fault /\ Die
  /\ UNCHANGED <<gateway, in, rIn>>

-----------------------------------------------------------------------------
(* reg: key negotiation, in plain JSON.                                    *)

InReg == pc = "reg" /\ Readable

\* Mutants: the key is generated but an earlier one is published; a key is
\* generated only by a coroutine that has none.
PublishesEarlierKey ==
  /\ InReg /\ Pending.type = "keyngack" /\ Read
  /\ gen' = gen + 1 /\ privkey' = gen + 1
  /\ Send(sid, Plain("dh", sequence, privkey))
  /\ UNCHANGED <<pc, sid, keepaliveFlag, secret, identified, open, applied>>
  /\ UNCHANGED <<gateway, in, faults>>

ReusesKey ==
  /\ InReg /\ Pending.type = "keyngack" /\ Read
  /\ IF privkey = 0 THEN gen' = gen + 1 /\ privkey' = gen + 1 ELSE UNCHANGED <<gen, privkey>>
  /\ Send(sid, Plain("dh", sequence, privkey'))
  /\ UNCHANGED <<pc, sid, keepaliveFlag, secret, identified, open, applied>>
  /\ UNCHANGED <<gateway, in, faults>>

\* A fresh key for every keyngack, whatever key devinfo holds.
RecvKeyngack ==
  /\ InReg /\ Pending.type = "keyngack" /\ Read
  /\ gen' = gen + 1 /\ privkey' = gen + 1
  /\ Send(sid, Plain("dh", sequence, gen + 1))
  /\ UNCHANGED <<pc, sid, keepaliveFlag, secret, identified, open, applied>>
  /\ UNCHANGED <<gateway, in, faults>>

Derive(exact) ==
  /\ InReg /\ Pending.type = "dh" /\ privkey # 0 /\ Read
  /\ secret' = [dev |-> privkey, gw |-> Pending.pub, exact |-> exact]
  /\ Send(sid, [type |-> "dev_reg", key |-> secret', num |-> sequence, pub |-> 0])
  /\ pc' = "run" /\ keepaliveFlag' = TRUE
  /\ UNCHANGED <<sid, privkey, identified, open, gen, applied, gateway, in>>

RecvDh      == Derive(TRUE) /\ NoFault
RecvShortDh == Derive(FALSE) /\ Fault

\* Well-formed JSON of another type is ignored; the wait goes on.
RegIgnores ==
  /\ InReg /\ Pending.key = NoKey /\ Pending.type \notin {"keyngack", "dh", "cut", "garbage"}
  /\ Read /\ UNCHANGED <<device, gateway, out, in, faults>>

\* json.decode raises on anything else, gsecret on a dh nobody asked for.
RegError ==
  /\ InReg /\ Pending.type # "cut"
  /\ \/ Pending.type = "garbage" \/ Pending.key # NoKey
     \/ Pending.type = "dh" /\ privkey = 0
  /\ Read /\ Die
  /\ UNCHANGED <<gateway, in, faults>>

-----------------------------------------------------------------------------
(* tcpRecivedData, shared by reg and keepRun.                              *)

Waiting == pc \in {"reg", "run"} /\ ~Readable

\* keepAlive, when nothing is readable and the flag is up.
KeepAlive ==
  /\ Waiting /\ sid \notin shut /\ keepaliveFlag
  /\ Number(out[sid], Len(out[sid]), {"keepalive"}) < MaxKeep
  /\ Send(sid, Sealed("keepalive", sequence))
  /\ UNCHANGED <<pc, sid, keepaliveFlag, privkey, secret, identified, open, gen, applied>>
  /\ UNCHANGED <<gateway, in, rIn, faults>>

\* Nothing to do: the coroutine yields and is resumed.
Idle == Waiting /\ sid \notin shut /\ UNCHANGED vars

\* The gateway has read everything and is not going to say more.
Stuck ==
  rOut[sid] = Len(out[sid]) /\ phase[sid] # "registered" /\ sid \notin shut

\* Mutant: a closed connection is not noticed.
RecvFailsUnlessClosed ==
  /\ \/ Waiting /\ Stuck /\ UNCHANGED rIn
     \/ pc \in {"reg", "run"} /\ Readable /\ Pending.type = "cut" /\ Read
  /\ EndSession
  /\ UNCHANGED <<gateway, in, faults>>

\* The receive fails: the peer closed, a frame was cut short, or the
\* deadline passed on a gateway that has nothing to say.
RecvFails ==
  /\ \/ Waiting /\ (sid \in shut \/ Stuck) /\ UNCHANGED rIn
     \/ pc \in {"reg", "run"} /\ Readable /\ Pending.type = "cut" /\ Read
  /\ EndSession
  /\ UNCHANGED <<gateway, in, faults>>

\* The deadline passes although the gateway has, or may have, more to say.
TimesOut ==
  /\ Waiting /\ sid \notin shut /\ Fault /\ EndSession
  /\ UNCHANGED <<gateway, in, rIn>>

-----------------------------------------------------------------------------
(* keepRun: every frame is answered with dev_report first, then handled.   *)

\* Mutant: an acknowledgement is taken for garbage.
UnderstoodButAck == Pending.key = secret /\ Pending.type \notin {"cut", "garbage", "ack"}

Understood == Pending.key = secret /\ Pending.type \notin {"cut", "garbage"}

RecvRun ==
  /\ pc = "run" /\ Readable /\ Understood /\ Read
  /\ Send(sid, Sealed("dev_report", sequence))
  /\ pc' = IF Pending.type \in CmdTypes THEN "apply" ELSE "run"
  /\ UNCHANGED <<sid, keepaliveFlag, privkey, secret, identified, open, gen, applied>>
  /\ UNCHANGED <<gateway, in, faults>>

\* What does not decrypt to JSON raises in json.decode.
RunError ==
  /\ pc = "run" /\ Readable /\ ~Understood /\ Pending.type # "cut"
  /\ Read /\ Die
  /\ UNCHANGED <<gateway, in, faults>>

\* The report raises: the stations cannot be listed, or encoded as JSON.  (Of
\* a command ApplyError says as much.)
ReportError ==
  /\ pc = "run" /\ Readable /\ Understood /\ Pending.type \notin CmdTypes
  /\ Fault /\ Read /\ Die
  /\ UNCHANGED <<gateway, in>>

Command == in[sid][rIn[sid]]

\* Without their argument setDisMac and getRssiInfo index a nil.
Raises(c) == ~c.full /\ c.type \in {"deassociation", "getrssiinfo"}

\* Mutant: a command that has no answer is taken up again.
AppliesAgain ==
  /\ pc = "apply" /\ ~Raises(Command)
  /\ pc' = IF Command.type = "get_status" THEN "apply" ELSE "answer"
  /\ applied' = IF Command.full THEN Append(applied, <<sid, rIn[sid]>>) ELSE applied
  /\ UNCHANGED <<sid, locals, open, gen, gateway, out, in, rIn, faults>>

Apply ==
  /\ pc = "apply" /\ ~Raises(Command) /\ pc' = "answer"
  /\ applied' = IF Command.full THEN Append(applied, <<sid, rIn[sid]>>) ELSE applied
  /\ UNCHANGED <<sid, locals, open, gen, gateway, out, in, rIn, faults>>

\* Mutant: the error is swallowed and the command acknowledged.
ApplySwallowsError ==
  /\ pc = "apply" /\ pc' = "answer"
  /\ IF Raises(Command) THEN NoFault ELSE Fault
  /\ UNCHANGED <<sid, locals, open, gen, applied, out, gateway, in, rIn>>

\* The handler raises: a missing argument, or (a fault) anything below it.
ApplyError ==
  /\ pc = "apply" /\ Die
  /\ IF Raises(Command) THEN NoFault ELSE Fault
  /\ UNCHANGED <<gateway, in, rIn>>

\* Mutant: the answer carries the agent's own sequence.
AnswerUnderOwnSequence(c) ==
  CASE c.type \in {"cfg", "deassociation"} -> Sealed("ack", sequence)
    [] c.type = "get_status"  -> Sealed("status", sequence)
    [] c.type = "getrssiinfo" -> Sealed("rssiinfo", sequence)

\* ACK numbers its frame with devinfo.sequence when the command has none;
\* send2GwStatus then sends nothing at all.
AnswerTo(c) ==
  CASE c.type \in {"cfg", "deassociation"} ->
         Sealed("ack", IF c.num # 0 THEN c.num ELSE sequence)
    [] c.type = "get_status"  -> Sealed("status", c.num)
    [] c.type = "getrssiinfo" -> Sealed("rssiinfo", c.num)

Silent(c) == c.type = "get_status" /\ (~c.full \/ c.num = 0)

\* Mutant: the send waits for a peer that is gone.
AnswerBlocks ==
  /\ pc = "answer" /\ pc' = "run" /\ sid \notin shut
  /\ IF Silent(Command) THEN UNCHANGED <<out, sequence>> ELSE Send(sid, AnswerTo(Command))
  /\ UNCHANGED <<sid, keepaliveFlag, privkey, secret, identified, open, gen, applied>>
  /\ UNCHANGED <<gateway, in, rIn, faults>>

Answer ==
  /\ pc = "answer" /\ pc' = "run"
  /\ IF Silent(Command) THEN UNCHANGED <<out, sequence>> ELSE Send(sid, AnswerTo(Command))
  /\ UNCHANGED <<sid, keepaliveFlag, privkey, secret, identified, open, gen, applied>>
  /\ UNCHANGED <<gateway, in, rIn, faults>>

-----------------------------------------------------------------------------
(* The gateway (not in the repository).                                    *)

Say(s, f) == in' = [in EXCEPT ![s] = Append(@, f)]

GwFrame(type, key, num, pub, full) ==
  [type |-> type, key |-> key, num |-> num, pub |-> pub, full |-> full]

MayAck(s) == Number(in[s], Len(in[s]), {"ack"}) < MaxAck

Sent(s) == Number(in[s], Len(in[s]), CmdTypes)

GwAcks(s) ==
  IF MayAck(s)
  THEN Say(s, GwFrame("ack", gwKey[s], out[s][rOut[s] + 1].num, 0, TRUE))
  ELSE UNCHANGED in

\* It answers keyngreq and dh, registers what decrypts, acknowledges reports
\* and keepalives, and drops whatever it does not understand.  (What it still
\* reads of a connection the agent has closed cannot reach the agent.)
GwRecv(s) ==
  /\ s \in open \ shut /\ rOut[s] < Len(out[s])
  /\ rOut' = [rOut EXCEPT ![s] = @ + 1]
  /\ LET f == out[s][rOut[s] + 1] IN
     \/ /\ phase[s] = "new" /\ f.type = "keyngreq"
        /\ phase' = [phase EXCEPT ![s] = "greeted"]
        /\ Say(s, GwFrame("keyngack", NoKey, f.num, 0, TRUE))
        /\ UNCHANGED gwKey
     \/ /\ phase[s] = "greeted" /\ f.type = "dh"
        /\ phase' = [phase EXCEPT ![s] = "keyed"]
        /\ gwKey' = [gwKey EXCEPT ![s] = [dev |-> f.pub, gw |-> s, exact |-> TRUE]]
        /\ Say(s, GwFrame("dh", NoKey, f.num, s, TRUE))
     \/ /\ phase[s] = "keyed" /\ f.type = "dev_reg" /\ f.key = gwKey[s]
        /\ phase' = [phase EXCEPT ![s] = "registered"]
        /\ GwAcks(s) /\ UNCHANGED gwKey
     \/ /\ phase[s] = "registered" /\ f.key = gwKey[s]
        /\ f.type \in {"dev_report", "keepalive"}
        /\ GwAcks(s) /\ UNCHANGED <<phase, gwKey>>
     \/ /\ \/ phase[s] = "new" /\ f.type # "keyngreq"
           \/ phase[s] = "greeted" /\ f.type # "dh"
           \/ phase[s] = "keyed" /\ (f.type # "dev_reg" \/ f.key # gwKey[s])
           \/ phase[s] = "registered" /\ (f.key # gwKey[s] \/ f.type \in AnswerTypes)
        /\ UNCHANGED <<phase, gwKey, in>>
  /\ UNCHANGED <<device, out, rIn, shut, faults>>

GwIssues(s, k) ==
  /\ phase[s] = "registered" /\ s \notin shut /\ Sent(s) < MaxCmd
  /\ Say(s, GwFrame(k.type, gwKey[s], IF k.numbered THEN Sent(s) + 1 ELSE 0, 0, k.full))
  /\ UNCHANGED <<device, gateway, out, rIn>>

GwCommand(s)    == \E k \in CmdKinds : ~Raises(k) /\ GwIssues(s, k) /\ NoFault
GwBadCommand(s) == \E k \in CmdKinds : Raises(k) /\ GwIssues(s, k) /\ Fault

\* It learns that the agent closed.
GwSeesClose(s) ==
  /\ s \in 1 .. sid /\ s \notin open /\ s \notin shut /\ shut' = shut \cup {s}
  /\ UNCHANGED <<device, rOut, phase, gwKey, out, in, rIn, faults>>

\* The connection is lost or closed: a suffix of what the agent has not read
\* is gone with it, and the last frame may arrive in part.
Disconnect(s) ==
  /\ s \in open \ shut /\ Fault /\ shut' = shut \cup {s}
  /\ \E n \in rIn[s] .. Len(in[s]) :
       \/ in' = [in EXCEPT ![s] = SubSeq(@, 1, n)]
       \/ /\ n < Len(in[s])
          /\ in' = [in EXCEPT ![s] = Append(SubSeq(@, 1, n),
                                       GwFrame("cut", NoKey, 0, 0, FALSE))]
  /\ UNCHANGED <<device, rOut, phase, gwKey, out, rIn>>

\* A gateway that strays from the protocol before the key is agreed: a second
\* keyngack, a dh the agent has not asked for, an acknowledgement in clear, or
\* bytes that are not JSON.
GwStrays(s) ==
  /\ s \in open \ shut /\ phase[s] \in {"new", "greeted"} /\ Fault
  /\ \E t \in {"keyngack", "dh", "ack", "garbage"} : Say(s, GwFrame(t, NoKey, 0, s, TRUE))
  /\ UNCHANGED <<device, gateway, out, rIn>>

-----------------------------------------------------------------------------
DeviceStep ==
  \/ Start \/ Connect \/ RecvKeyngack \/ RecvDh \/ RegIgnores \/ RegError
  \/ KeepAlive \/ Idle \/ RecvFails \/ RecvRun \/ RunError \/ Apply \/ Answer
  \/ ApplyError /\ NoFault

GatewayStep == \E s \in Sessions : GwRecv(s) \/ GwCommand(s) \/ GwSeesClose(s)

FaultStep ==
  \/ ConnectFails \/ BuildError \/ RecvShortDh \/ TimesOut
  \/ ReportError
  \/ ApplyError /\ Fault
  \/ \E s \in Sessions : Disconnect(s) \/ GwStrays(s) \/ GwBadCommand(s)

Next == DeviceStep \/ Collect \/ GatewayStep \/ FaultStep

Spec == Init /\ [][Next]_vars

\* The scheduler resumes the coroutine for ever; TCP delivers, and the
\* gateway reads, what was sent.  No fault is ever due.
Fairness ==
  /\ WF_vars(DeviceStep)
  /\ \A s \in Sessions : WF_vars(GwRecv(s)) /\ WF_vars(GwSeesClose(s))

FairSpec == Spec /\ Fairness

-----------------------------------------------------------------------------
(* Properties.                                                             *)

\* The registrations on s by the i-th frame of the agent.
RegisteredBy(s, i) == {j \in 1 .. i : out[s][j].type = "dev_reg"}

\* From its dev_reg on, and never before, everything the agent sends on a
\* connection is encrypted, under the one secret dev_reg used: neither a
\* keepalive sent while a later connection is still negotiating, nor a secret
\* kept from an earlier connection, breaks this (elink.lua:563, 547).
SealedFromRegistration ==
  \A s \in Sessions : \A i \in 1 .. Len(out[s]) :
    /\ out[s][i].key # NoKey <=> RegisteredBy(s, i) # {}
    /\ \A j \in RegisteredBy(s, i) : out[s][i].key = out[s][j].key

Registration(s) == {i \in 1 .. Len(out[s]) : out[s][i].type = "dev_reg"}

\* What the agent has read of a connection holds at most one keyngack.
OneKeyngack(s) ==
  \A i, j \in 1 .. rIn[s] :
    in[s][i].type = "keyngack" /\ in[s][j].type = "keyngack" => i = j

\* Unless a number lost its leading zero (luadh1.c) or the gateway asked for
\* two keys, the secret the agent registers with is the one the gateway
\* derived: whatever keys earlier connections left in devinfo, and wherever
\* the connection broke.
KeysAgree ==
  \A s \in Sessions : \A i \in Registration(s) :
    /\ phase[s] \in {"keyed", "registered"}
    /\ out[s][i].key.exact /\ OneKeyngack(s)
    => out[s][i].key = gwKey[s]

\* The gateway asked for a key before it answered with its own.
Orderly(s) ==
  \A i \in 1 .. Len(in[s]) :
    in[s][i].type = "dh" => \E j \in 1 .. i : in[s][j].type = "keyngack"

\* No private key serves two connections, although devinfo outlives them: a
\* stale one is used only when a gateway sends its dh unasked.
FreshSecrets ==
  \A s, t \in Sessions : \A i \in Registration(s), j \in Registration(t) :
    s # t /\ Orderly(s) /\ Orderly(t) => out[s][i].key.dev # out[t][j].key.dev

\* Where the answers on s are, and where the commands read on s that deserve
\* one.
Answers(s) == {i \in 1 .. Len(out[s]) : out[s][i].type \in AnswerTypes}

DeservesAnswer(c) == c.type \in CmdTypes /\ ~Raises(c) /\ ~Silent(c)

Answerable(s) == {k \in 1 .. rIn[s] : DeservesAnswer(in[s][k])}

\* How many of the places in S come no later than n: the i-th place of S
\* has rank i.
Rank(S, n) == Cardinality({m \in S : m <= n})

Answers1(c, a) ==
  /\ a.type = CASE c.type \in {"cfg", "deassociation"} -> "ack"
                [] c.type = "get_status"  -> "status"
                [] c.type = "getrssiinfo" -> "rssiinfo"
  /\ c.num # 0 => a.num = c.num

\* Commands are answered in the order they were issued, each once, under
\* their own sequence: the i-th answer is that to the i-th command that
\* deserves one, and at most the last of these is still unanswered.
AnswersInOrder ==
  \A s \in Sessions :
    /\ Cardinality(Answerable(s)) - Cardinality(Answers(s)) \in {0, 1}
    /\ \A k \in Answerable(s), i \in Answers(s) :
         Rank(Answerable(s), k) = Rank(Answers(s), i) => Answers1(in[s][k], out[s][i])

\* An acknowledgement on the wire means the command was carried out: on a
\* connection whose commands are all numbered, the gateway never sees a cfg
\* acknowledged that was not applied.
AckedIsApplied ==
  \A s \in Sessions : \A i \in 1 .. Len(out[s]), j \in 1 .. rIn[s] :
    /\ out[s][i].type = "ack" /\ in[s][j].type = "cfg" /\ in[s][j].full
    /\ in[s][j].num = out[s][i].num
    /\ \A k \in 1 .. Len(in[s]) : in[s][k].type \in CmdTypes => in[s][k].num # 0
    => \E n \in 1 .. Len(applied) : applied[n] = <<s, j>>

\* The agent never gives up a connection of its own accord: every connection
\* after the first is the consequence of a fault.
ConnectionsExplained == sid <= faults + 1

\* Once the faults are over, the agent ends up registered for good.
InService ==
  pc \in {"run", "apply", "answer"} /\ phase[sid] = "registered" /\ sid \notin shut

Recovers == <>[]InService

\* Every command that reaches the agent is dealt with, or the connection it
\* came on is given up.
Serving(s) == sid = s /\ pc \in {"reg", "run", "apply", "answer"}

CommandsRead(s) == Number(in[s], rIn[s], CmdTypes)

Settled(s, n) == CommandsRead(s) > n \/ (CommandsRead(s) = n /\ pc = "run")

CommandsSettle ==
  \A s \in Sessions : \A n \in 1 .. MaxCmd :
    Sent(s) >= n ~> Settled(s, n) \/ ~Serving(s)
=============================================================================
