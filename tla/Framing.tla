------------------------------- MODULE Framing -------------------------------
(***************************************************************************)
(* How tcpRecivedData of elink.lua takes frames from the byte stream: eight*)
(* bytes of header, a magic number nobody looks at and a length, then that *)
(* many bytes.  A receive may give up when half a second is over; what it  *)
(* has by then is dropped.  Bytes have no content here, only places in the *)
(* stream.  LuaSocket implements this with the buffers and waits of        *)
(* luasocket.                                                              *)
(***************************************************************************)
EXTENDS Integers, Sequences

CONSTANTS
  Header,     \* the length of a header
  MaxBody,    \* the length of a body, at most
  MaxFrames,  \* how many frames the gateway sends, at most
  MaxSpelled  \* the greatest length that bytes which are no header spell

ASSUME FramingAssumption ==
  /\ Header \in Nat \ {0} /\ MaxBody \in Nat
  /\ MaxFrames \in Nat /\ MaxSpelled \in Nat

VARIABLES
  ends,       \* where in the stream each frame of the gateway ends
  arrived,    \* bytes that have arrived
  consumed,   \* bytes of them that were read
  pc,         \* "header", "body" or "ended": returned nil
  wanted,     \* datalen
  delivered,  \* what was returned: places in the stream, from and to
  closed,     \* the gateway has closed the connection
  paused,     \* half a second was over while something was waited for
  torn        \* and part of a header was lost with it

vars == <<ends, arrived, consumed, pc, wanted, delivered, closed, paused, torn>>

End(n)  == IF n = 0 THEN 0 ELSE ends[n]
Total   == End(Len(ends))
Body(n) == <<End(n - 1) + Header, End(n)>>

\* Frames follow each other, a header and up to MaxBody bytes each.
Stream ==
  \A n \in 1 .. Len(ends) :
    /\ End(n) <= End(n - 1) + Header + MaxBody
    /\ \A k \in 0 .. n - 1 : End(n) >= End(k) + Header

Init ==
  /\ \E n \in 0 .. MaxFrames : ends \in [1 .. n -> 1 .. n * (Header + MaxBody)]
  /\ Stream
  /\ arrived = 0 /\ consumed = 0 /\ pc = "header" /\ wanted = 0 /\ delivered = <<>>
  /\ closed = FALSE /\ paused = FALSE /\ torn = FALSE

-----------------------------------------------------------------------------
(* tcpRecivedData.                                                         *)

Unread == arrived - consumed

\* The length in a header; bytes that are not one may spell any length.
Length(at) ==
  LET here == {n \in 1 .. Len(ends) : at = End(n - 1)} IN
  IF here # {} THEN {End(n) - at - Header : n \in here} ELSE 0 .. MaxSpelled

\* receive(0) is no exception: it waits for a byte, and leaves it there.
Enough == Unread >= wanted /\ Unread > 0

ReadHeader ==
  /\ pc = "header" /\ Unread >= Header
  /\ pc' = "body" /\ wanted' \in Length(consumed) /\ consumed' = consumed + Header
  /\ UNCHANGED <<ends, arrived, delivered, closed, paused, torn>>

Stall == ~closed /\ paused' = TRUE

\* The part of a header that was there is gone; the wait goes on.
TearHeader ==
  /\ pc = "header" /\ Unread \in 1 .. Header - 1 /\ Stall
  /\ consumed' = arrived /\ torn' = TRUE
  /\ UNCHANGED <<ends, arrived, pc, wanted, delivered, closed>>

ReadClosed ==
  /\ pc = "header" /\ Unread < Header /\ closed
  /\ pc' = "ended" /\ consumed' = arrived
  /\ UNCHANGED <<ends, arrived, wanted, delivered, closed, paused, torn>>

Deliver ==
  /\ pc = "body" /\ Enough
  /\ pc' = "header" /\ consumed' = consumed + wanted
  /\ delivered' = Append(delivered, <<consumed, consumed + wanted>>)
  /\ UNCHANGED <<ends, arrived, wanted, closed, paused, torn>>

\* A body that does not come in time, or at all, makes reg and keepRun return.
BodyFails ==
  /\ pc = "body" /\ ~Enough /\ (Stall \/ (closed /\ UNCHANGED paused))
  /\ pc' = "ended" /\ consumed' = arrived
  /\ UNCHANGED <<ends, arrived, wanted, delivered, closed, torn>>

\* Nothing to read, and the deadline of the session has passed.
TimeOut ==
  /\ pc = "header" /\ Unread = 0 /\ Stall /\ pc' = "ended"
  /\ UNCHANGED <<ends, arrived, consumed, wanted, delivered, closed, torn>>

-----------------------------------------------------------------------------
(* The gateway and TCP (not in the repository).                            *)

Arrive ==
  /\ ~closed /\ arrived < Total /\ arrived' = arrived + 1
  /\ UNCHANGED <<ends, consumed, pc, wanted, delivered, closed, paused, torn>>

Close ==
  /\ ~closed /\ closed' = TRUE
  /\ UNCHANGED <<ends, arrived, consumed, pc, wanted, delivered, paused, torn>>

Receive == ReadHeader \/ ReadClosed \/ Deliver \/ BodyFails

Next == Receive \/ TearHeader \/ TimeOut \/ Arrive \/ Close

Spec == Init /\ [][Next]_vars

\* The coroutine is resumed, and a receive that can end does.
FairSpec == Spec /\ WF_vars(Receive)

-----------------------------------------------------------------------------
(* Properties.                                                             *)

\* As long as no pause falls into a header, what tcpRecivedData returns are
\* the bodies the gateway sent, whole, in order, each once; a pause within a
\* body costs the connection, not the frame boundaries (elink.lua:83-98).
FramesWhole ==
  ~torn =>
    /\ Len(delivered) <= Len(ends)
    /\ \A n \in 1 .. Len(delivered) : delivered[n] = Body(n)

\* A gateway that closes right after its last frame loses none of those that
\* arrived, but for an empty one at the very end: the end of the stream is
\* seen behind them (elink.lua:86-97, buffer.c:187-200).
NothingLeftBehind ==
  pc = "ended" /\ ~paused =>
    \A n \in 1 .. Len(ends) :
      End(n) <= arrived /\ (Body(n)[1] < End(n) \/ End(n) < arrived) => Len(delivered) >= n
=============================================================================
