------------------------------ MODULE LuaSocket ------------------------------
(***************************************************************************)
(* The socket of a session as luasocket makes it (src/lib/luasocket-master *)
(* /src): a read buffer of BufSize bytes in the process, half a second for *)
(* each call of receive or send however often it has to wait, and a select *)
(* that sees what is still in the buffer.  What comes in are the bytes of  *)
(* Framing, which this module implements; what goes out are the frames of  *)
(* tcpSendData, of OutLen bytes each.                                      *)
(***************************************************************************)
EXTENDS Framing

CONSTANTS
  BufSize,   \* BUF_SIZE of buffer.h
  StepSize,  \* STEPSIZE of buffer.c
  Block,     \* settimeout(0.5), in ticks of the clock
  SndBuf,    \* bytes the kernel takes before the gateway has read any
  OutLen,    \* the length of a frame to the gateway, header included
  MaxSends   \* how many of them are sent, at most

ASSUME LuaSocketAssumption ==
  /\ BufSize \in Nat \ {0} /\ StepSize \in Nat \ {0} /\ Block \in Nat \ {0}
  /\ SndBuf \in Nat \ {0} /\ OutLen \in Nat \ {0} /\ MaxSends \in Nat

VARIABLES
  call,         \* "receive", "send", or "lua": outside of both
  kernel,       \* bytes that arrived and are not in the buffer yet
  first, last,  \* what the read buffer holds, from and to
  got,          \* bytes this receive has collected
  spent,        \* ticks since timeout_markstart
  left,         \* ticks the select of this wait may still last, or None
  starts,       \* where in the bytes that go out each send began
  sent,         \* how many bytes the kernel has taken
  gwRead,       \* bytes the gateway has read
  starved       \* a send was given up after half a second

buffer     == <<kernel, first, last>>
clock      == <<spent, left>>
out        == <<starts, sent, gwRead, starved>>
socketVars == <<vars, call, buffer, got, clock, out>>

None == -1

MIN(x, y) == IF x < y THEN x ELSE y
MAX(x, y) == IF x > y THEN x ELSE y

SocketInit ==
  /\ Init /\ call = "lua" /\ kernel = 0 /\ first = 0 /\ last = 0 /\ got = 0
  /\ spent = 0 /\ left = None /\ starts = <<>> /\ sent = 0 /\ gwRead = 0 /\ starved = FALSE

-----------------------------------------------------------------------------
(* timeout.c and socket_waitfd of usocket.c.                               *)

\* Bytes in the buffer, and the place in the stream of the first of them.
Held  == last - first
Place == arrived - kernel - Held

\* Room in the kernel for bytes that go out.
Room == SndBuf - (sent - gwRead)

timeout_markstart == spent' = 0 /\ left' = None

\* Mutant: every wait of a call has the whole half second.
timeout_get == Block

\* What is left of half a second since the call began.
timeout_getretry == MAX(Block - spent, 0)

\* recv or send said EAGAIN.
Blocked ==
  /\ ~closed
  /\ \/ call = "receive" /\ Held = 0 /\ kernel = 0
     \/ call = "send" /\ Room = 0

Wait ==
  /\ Blocked /\ left = None /\ left' = timeout_getretry
  /\ UNCHANGED <<vars, call, buffer, got, spent, out>>

Tick ==
  /\ Blocked /\ left > 0 /\ left' = left - 1 /\ spent' = spent + 1
  /\ UNCHANGED <<vars, call, buffer, got, out>>

TimedOut == Blocked /\ left = 0

-----------------------------------------------------------------------------
(* Lua: tcpRecivedData outside of receive, and tcpSendData.                *)

Lua == call = "lua" /\ pc = "header"

\* Mutant: what is left in the buffer is not looked at.
ReadableKernel == kernel > 0 \/ closed

\* global_select with check_dirty.
Readable == Held > 0 \/ kernel > 0 \/ closed

\* receive(8).
StartReceive ==
  /\ Lua /\ Readable /\ call' = "receive" /\ got' = 0 /\ timeout_markstart
  /\ UNCHANGED <<vars, buffer, out>>

\* Nothing to read: as long as the deadline has not passed the session yields.
GiveUp ==
  /\ Lua /\ ~Readable /\ pc' = "ended" /\ paused' = TRUE
  /\ UNCHANGED <<ends, arrived, consumed, wanted, delivered, closed, torn>>
  /\ UNCHANGED <<call, buffer, got, clock, out>>

StartSend ==
  /\ Lua /\ Len(starts) < MaxSends
  /\ call' = "send" /\ starts' = Append(starts, sent) /\ timeout_markstart
  /\ UNCHANGED <<vars, buffer, got, sent, gwRead, starved>>

-----------------------------------------------------------------------------
(* buffer_meth_receive: recvraw goes round until it has what is wanted.    *)

Receiving == call = "receive"
Want      == IF pc = "header" THEN Header ELSE wanted

\* buffer_get with an empty buffer; socket_recv finds bytes.
Fill ==
  /\ Receiving /\ Held = 0 /\ kernel > 0
  /\ first' = 0 /\ last' = MIN(kernel, BufSize) /\ kernel' = kernel - last'
  /\ left' = None
  /\ UNCHANGED <<vars, call, got, spent, out>>

\* What is taken of the buffer, and where in the stream it ends.
Count == MIN(Held, Want - got)
Until == Place + Count

\* Mutant: the rest of the buffer goes with what was taken of it.
SkipAll == first' = 0 /\ last' = 0

buffer_skip ==
  IF first + Count >= last THEN first' = 0 /\ last' = 0
                           ELSE first' = first + Count /\ UNCHANGED last

Pass == Receiving /\ Held > 0 /\ buffer_skip /\ UNCHANGED kernel

TakeSome ==
  /\ Pass /\ got + Count < Want /\ got' = got + Count
  /\ UNCHANGED <<vars, call, clock, out>>

Done == got + Count >= Want /\ got' = 0

\* receive(8) returns, and receive(datalen) follows at once.
TakeHeader ==
  /\ Pass /\ Done /\ pc = "header"
  /\ pc' = "body" /\ wanted' \in Length(Until - Header) /\ consumed' = Until
  /\ timeout_markstart
  /\ UNCHANGED <<ends, arrived, delivered, closed, paused, torn, call, out>>

TakeBody ==
  /\ Pass /\ Done /\ pc = "body" /\ pc' = "header" /\ call' = "lua"
  /\ delivered' = Append(delivered, <<Until - wanted, Until>>) /\ consumed' = Until
  /\ UNCHANGED <<ends, arrived, wanted, closed, paused, torn, clock, out>>

\* An error; Lua drops the partial result.
ReceiveFails ==
  /\ call' = "lua" /\ got' = 0 /\ consumed' = Place
  /\ UNCHANGED <<ends, arrived, wanted, delivered, closed, buffer, clock, out>>

HeaderTimesOut ==
  /\ Receiving /\ pc = "header" /\ TimedOut /\ ReceiveFails
  /\ torn' = TRUE /\ paused' = TRUE /\ UNCHANGED pc

BodyTimesOut ==
  /\ Receiving /\ pc = "body" /\ TimedOut /\ ReceiveFails
  /\ pc' = "ended" /\ paused' = TRUE /\ UNCHANGED torn

\* Mutant: the end of the stream is not told from a pause.
ClosedUnnoticed == FALSE /\ UNCHANGED socketVars

\* Mutant: it is seen before what came ahead of it.
ClosedAtOnce ==
  /\ Receiving /\ closed /\ ReceiveFails
  /\ pc' = "ended" /\ UNCHANGED <<paused, torn>>

\* recv returns 0.
ReceiveClosed ==
  /\ Receiving /\ closed /\ Held = 0 /\ kernel = 0 /\ ReceiveFails
  /\ pc' = "ended" /\ UNCHANGED <<paused, torn>>

-----------------------------------------------------------------------------
(* buffer_meth_send: sendraw goes round until everything is out.           *)

Sending == call = "send"

\* What is still to go out of the frame at hand.
Rest == OutLen - (sent - starts[Len(starts)])

\* Mutant: one step is all that is sent.
SendStepOnce ==
  /\ Sending /\ Room > 0
  /\ sent' = sent + MIN(MIN(Rest, StepSize), Room)
  /\ call' = "lua" /\ left' = None
  /\ UNCHANGED <<vars, buffer, got, spent, starts, gwRead, starved>>

\* socket_send: as much of a step as there is room for.
SendStep ==
  /\ Sending /\ Room > 0
  /\ LET n == MIN(MIN(Rest, StepSize), Room) IN
       /\ sent' = sent + n
       /\ call' = IF n = Rest THEN "lua" ELSE "send"
  /\ left' = None
  /\ UNCHANGED <<vars, buffer, got, spent, starts, gwRead, starved>>

\* Mutant: a send that finds no room is tried again, for ever.
SendRetries ==
  /\ Sending /\ TimedOut /\ left' = None
  /\ UNCHANGED <<vars, call, buffer, got, spent, out>>

\* What is not out by now never goes out; tcpSendData does not look.
SendTimesOut ==
  /\ Sending /\ TimedOut /\ call' = "lua" /\ starved' = TRUE
  /\ UNCHANGED <<vars, buffer, got, clock, starts, sent, gwRead>>

\* EPIPE or another error, when the gateway is gone.
SendFails ==
  /\ Sending /\ closed /\ call' = "lua"
  /\ UNCHANGED <<vars, buffer, got, clock, out>>

-----------------------------------------------------------------------------
(* The gateway (not in the repository): Framing, and it reads.             *)

Outside ==
  /\ \/ Arrive /\ kernel' = kernel + 1
     \/ Close /\ UNCHANGED kernel
  /\ UNCHANGED <<call, first, last, got, clock, out>>

GwReads ==
  /\ gwRead < sent /\ gwRead' = gwRead + 1
  /\ UNCHANGED <<vars, call, buffer, got, clock, starts, sent, starved>>

SocketReceive ==
  \/ StartReceive \/ Fill \/ TakeSome \/ TakeHeader \/ TakeBody
  \/ HeaderTimesOut \/ BodyTimesOut \/ ReceiveClosed

SocketSend == StartSend \/ SendStep \/ SendTimesOut \/ SendFails

Process == SocketReceive \/ SocketSend \/ Wait \/ Tick

SocketNext == Process \/ GiveUp \/ Outside \/ GwReads

SocketSpec == SocketInit /\ [][SocketNext]_socketVars

\* The process runs and the clock goes on; nothing is asked of the gateway.
SocketFairSpec == SocketSpec /\ WF_socketVars(Process)

-----------------------------------------------------------------------------
(* Properties.                                                             *)

SocketTypeOK ==
  /\ call \in {"lua", "receive", "send"} /\ got \in Nat
  /\ kernel \in Nat /\ first \in Nat /\ last \in first .. BufSize
  /\ spent \in Nat /\ left \in None .. Block
  /\ starts \in Seq(Nat) /\ sent \in Nat /\ gwRead \in 0 .. sent /\ starved \in BOOLEAN

\* Buffer, select, partial reads and time-outs together take frames from the
\* stream as Framing says: no byte is skipped or read twice, and the session
\* is not given up over bytes that lie unseen in the buffer (buffer.c:187-200,
\* 249-273; select.c:57-86, 163-186).
ReceivesAsFraming == Spec

\* What can be read is read: a frame that has arrived in full is returned,
\* however it came in pieces, and a close is noticed wherever in a frame it
\* broke off (elink.lua:88, 95-97, buffer.c:187-200).
KeepsReceiving == WF_vars(Receive)

\* No receive and no send keeps the process longer than half a second, however
\* the bytes trickle, and neither gives up before (timeout.c:95-108,
\* usocket.c:46-71).
HalfSecond ==
  [][/\ spent' <= Block
     /\ call' = "lua" /\ ~closed /\ spent < Block =>
          /\ Receiving => delivered' # delivered
          /\ Sending => sent' - starts[Len(starts)] = OutLen]_socketVars

\* The gateway finds every frame where the lengths of those before it say, as
\* long as no send was given up and the connection stands: a frame that goes
\* out in pieces is completed before the next begins (elink.lua:45-49,
\* buffer.c:168-182).
SentInPlace ==
  ~starved /\ ~closed =>
    \A n \in 1 .. Len(starts) : starts[n] = (n - 1) * OutLen

\* Agent and gateway never wait for each other for ever, each with its buffers
\* full and busy sending: the agent's call returns (buffer.c:168-200).
CallsReturn == call # "lua" ~> call = "lua"
=============================================================================
