--------------------------- MODULE LuaSocket_proofs ---------------------------
(***************************************************************************)
(* What Framing promises, that LuaSocket implements Framing, and that its  *)
(* calls last half a second at most.                                       *)
(***************************************************************************)
EXTENDS LuaSocket, TLAPS

-----------------------------------------------------------------------------
(* Framing: types.                                                         *)

FramingTypes ==
  /\ ends \in Seq(Nat) /\ arrived \in Nat /\ consumed \in Nat /\ consumed <= arrived
  /\ pc \in {"header", "body", "ended"} /\ wanted \in Nat
  /\ delivered \in Seq(Int \X Int)
  /\ closed \in BOOLEAN /\ paused \in BOOLEAN /\ torn \in BOOLEAN

LEMMA EndType ==
  ASSUME ends \in Seq(Nat), NEW n \in 0 .. Len(ends)
  PROVE  End(n) \in Nat
  BY DEF End

\* A header spells a length, whether it is one or not.
LEMMA LengthType ==
  ASSUME FramingAssumption, ends \in Seq(Nat), Stream, NEW at \in Int, NEW w \in Length(at)
  PROVE  w \in Nat
<1> DEFINE here == {n \in 1 .. Len(ends) : at = End(n - 1)}
<1>1. CASE here # {}
  <2>1. PICK n \in 1 .. Len(ends) : at = End(n - 1) /\ w = End(n) - at - Header
    BY <1>1 DEF Length
  <2>2. End(n) \in Nat /\ End(n - 1) \in Nat /\ n - 1 \in 0 .. n - 1
    BY EndType
  <2>3. End(n) >= End(n - 1) + Header
    BY <2>2 DEF Stream
  <2> QED BY <2>1, <2>2, <2>3 DEF FramingAssumption
<1>2. CASE here = {}
  BY <1>2 DEF Length, FramingAssumption
<1> QED BY <1>1, <1>2

LEMMA FramingTypesInit ==
  ASSUME FramingAssumption, Init PROVE FramingTypes
<1>1. PICK n \in 0 .. MaxFrames : ends \in [1 .. n -> 1 .. n * (Header + MaxBody)]
  BY DEF Init
<1>2. n * (Header + MaxBody) \in Int
  BY DEF FramingAssumption
<1>3. ends \in [1 .. n -> Nat]
  BY <1>1, <1>2
<1>4. ends \in Seq(Nat)
  BY <1>3
<1>5. <<>> \in Seq(Int \X Int)
  OBVIOUS
<1>6. /\ arrived = 0 /\ consumed = 0 /\ pc = "header" /\ wanted = 0 /\ delivered = <<>>
      /\ closed \in BOOLEAN /\ paused \in BOOLEAN /\ torn \in BOOLEAN
  BY Zenon DEF Init
<1> QED BY <1>4, <1>5, <1>6 DEF FramingTypes

LEMMA FramingTypesNext ==
  ASSUME FramingAssumption, FramingTypes, Stream, [Next]_vars PROVE FramingTypes'
<1> USE DEF FramingTypes, FramingAssumption
<1>1. CASE ReadHeader
  <2>1. wanted' \in Nat
    BY <1>1, LengthType DEF ReadHeader
  <2> QED BY <1>1, <2>1 DEF ReadHeader, Unread
<1>2. CASE ReadClosed BY <1>2 DEF ReadClosed
<1>3. CASE Deliver
  <2>1. Append(delivered, <<consumed, consumed + wanted>>) \in Seq(Int \X Int)
    OBVIOUS
  <2> QED BY <1>3, <2>1 DEF Deliver, Enough, Unread
<1>4. CASE BodyFails
  <2>1. paused' \in BOOLEAN BY <1>4, Zenon DEF BodyFails, Stall
  <2> QED BY <1>4, <2>1 DEF BodyFails
<1>5. CASE TearHeader BY <1>5 DEF TearHeader, Stall
<1>6. CASE TimeOut BY <1>6 DEF TimeOut, Stall
<1>7. CASE Arrive BY <1>7 DEF Arrive
<1>8. CASE Close BY <1>8 DEF Close
<1>9. CASE UNCHANGED vars BY <1>9 DEF vars
<1> QED BY <1>1, <1>2, <1>3, <1>4, <1>5, <1>6, <1>7, <1>8, <1>9 DEF Next, Receive

-----------------------------------------------------------------------------
(* Framing: where the agent stands in the stream.                          *)

\* As long as no header was torn, the agent stands between two frames, or
\* behind the header of the one it has read the length of.
Aligned ==
  ~torn =>
    /\ Len(delivered) <= Len(ends)
    /\ \A n \in 1 .. Len(delivered) : delivered[n] = Body(n)
    /\ pc = "header" => consumed = End(Len(delivered))
    /\ pc = "body" =>
         /\ Len(delivered) < Len(ends)
         /\ consumed = End(Len(delivered)) + Header
         /\ wanted = End(Len(delivered) + 1) - consumed

StreamInv == FramingTypes /\ Stream /\ arrived <= Total /\ Aligned

LEMMA StreamInit ==
  ASSUME FramingAssumption, Init PROVE StreamInv
<1>1. FramingTypes BY FramingTypesInit
<1>2. Stream BY DEF Init
<1>3. 0 <= Total
  BY <1>1, EndType DEF FramingTypes, Total
<1> QED BY <1>1, <1>2, <1>3 DEF Init, StreamInv, Aligned, End, FramingTypes

\* Ends are apart by a header at least.
LEMMA Apart ==
  ASSUME FramingAssumption, FramingTypes, Stream,
         NEW n \in 0 .. Len(ends), NEW k \in 0 .. n - 1
  PROVE  End(n) \in Nat /\ End(k) \in Nat /\ End(n) >= End(k) + Header /\ End(k) < End(n)
<1>1. End(n) \in Nat /\ End(k) \in Nat BY EndType DEF FramingTypes
<1>2. n \in 1 .. Len(ends) BY DEF FramingTypes
<1>3. End(n) >= End(k) + Header BY <1>2 DEF Stream
<1> QED BY <1>1, <1>3 DEF FramingAssumption

\* Between two frames the length read is that of the frame that follows.
LEMMA LengthHere ==
  ASSUME FramingAssumption, FramingTypes, Stream,
         NEW d \in 0 .. Len(ends), d < Len(ends), NEW w \in Length(End(d))
  PROVE  w = End(d + 1) - End(d) - Header
<1> DEFINE here == {n \in 1 .. Len(ends) : End(d) = End(n - 1)}
<1>1. d + 1 \in 1 .. Len(ends) /\ (d + 1) - 1 = d BY DEF FramingTypes
<1>2. d + 1 \in here BY <1>1
<1>3. \A n \in here : n = d + 1
  <2> SUFFICES ASSUME NEW n \in 1 .. Len(ends), End(d) = End(n - 1), n # d + 1 PROVE FALSE
    OBVIOUS
  <2>1. CASE n - 1 < d
    <3>1. n - 1 \in 0 .. d - 1 BY <2>1
    <3> QED BY <3>1, Apart
  <2>2. CASE n - 1 > d
    <3>1. d \in 0 .. (n - 1) - 1 /\ n - 1 \in 0 .. Len(ends) BY <2>2 DEF FramingTypes
    <3> QED BY <3>1, Apart
  <2> QED BY <2>1, <2>2
<1>4. PICK n \in here : w = End(n) - End(d) - Header
  BY <1>2 DEF Length
<1> QED BY <1>3, <1>4

\* If there is more to read than the agent has taken, there is another frame.
LEMMA FrameAhead ==
  ASSUME FramingTypes, arrived <= Total,
         NEW d \in 0 .. Len(ends), arrived > End(d)
  PROVE  d < Len(ends)
<1>1. Total = End(Len(ends)) /\ End(d) \in Nat BY EndType DEF Total, FramingTypes
<1>2. d # Len(ends) BY <1>1 DEF FramingTypes
<1> QED BY <1>2 DEF FramingTypes

LEMMA StreamNext ==
  ASSUME FramingAssumption, StreamInv, [Next]_vars PROVE StreamInv'
<1> USE DEF StreamInv
<1> DEFINE d == Len(delivered)
<1>a. FramingTypes' BY FramingTypesNext
<1>b. ends' = ends
  BY DEF Next, Receive, ReadHeader, ReadClosed, Deliver, BodyFails, TearHeader,
         TimeOut, Arrive, Close, vars
<1>c. Stream' BY <1>b DEF Stream, End
<1>d. d \in Nat /\ Len(ends) \in Nat BY DEF FramingTypes
<1>e. Total' = Total BY <1>b DEF Total, End
<1>f. \A n : End(n)' = End(n) /\ Body(n)' = Body(n) BY <1>b DEF Body, End
<1>1. CASE ReadHeader
  <2>1. arrived' <= Total' BY <1>1, <1>e DEF ReadHeader
  <2>2. ASSUME ~torn PROVE d < Len(ends) /\ wanted' = End(d + 1) - consumed - Header
    <3>1. d \in 0 .. Len(ends) /\ consumed = End(d) BY <1>1, <2>2, <1>d DEF ReadHeader, Aligned
    <3>2. arrived > End(d)
      BY <1>1, <3>1 DEF ReadHeader, Unread, FramingAssumption, FramingTypes
    <3>3. d < Len(ends) BY <3>1, <3>2, FrameAhead
    <3>4. wanted' \in Length(End(d)) BY <1>1, <3>1 DEF ReadHeader
    <3> HIDE DEF d
    <3>5. wanted' = End(d + 1) - End(d) - Header BY <3>1, <3>3, <3>4, LengthHere
    <3> QED BY <3>1, <3>3, <3>5
  <2>3. ASSUME ~torn PROVE End(d + 1) \in Nat
    BY <2>2, <2>3, <1>d, EndType DEF FramingTypes
  <2>4. delivered' = delivered /\ torn' = torn /\ pc' = "body" /\ consumed' = consumed + Header
    BY <1>1 DEF ReadHeader
  <2>5. ASSUME ~torn
        PROVE  consumed' = End(d) + Header /\ wanted' = End(d + 1) - consumed'
    <3>1. consumed = End(d) BY <1>1, <2>5 DEF ReadHeader, Aligned
    <3> HIDE DEF d
    <3> QED BY <2>2, <2>3, <2>4, <2>5, <3>1 DEF FramingTypes, FramingAssumption
  <2>6. Aligned' BY <1>b, <1>f, <2>2, <2>4, <2>5 DEF Aligned
  <2> QED BY <1>a, <1>c, <2>1, <2>6
<1>2. CASE Deliver
  <2>1. arrived' <= Total' BY <1>2, <1>e DEF Deliver
  <2>2. ASSUME ~torn
        PROVE /\ d < Len(ends) /\ d + 1 \in 1 .. Len(ends)
              /\ consumed + wanted = End(d + 1) /\ consumed = End(d) + Header
    <3>1. d < Len(ends) /\ consumed = End(d) + Header /\ wanted = End(d + 1) - consumed
      BY <1>2, <2>2 DEF Deliver, Aligned
    <3>2. End(d + 1) \in Nat /\ d + 1 \in 1 .. Len(ends) BY <3>1, <1>d, EndType DEF FramingTypes
    <3> QED BY <3>1, <3>2 DEF FramingTypes
  <2>3. Len(delivered') = d + 1 /\ \A n \in 1 .. d + 1 :
          delivered'[n] = IF n = d + 1 THEN <<consumed, consumed + wanted>> ELSE delivered[n]
    BY <1>2 DEF Deliver, FramingTypes
  <2>4. ASSUME ~torn, NEW n \in 1 .. d + 1 PROVE delivered'[n] = Body(n)'
    <3>1. Body(n)' = Body(n) BY <1>b DEF Body, End
    <3>2. CASE n = d + 1
      <4>1. (d + 1) - 1 = d BY <1>d
      <4> QED BY <3>1, <3>2, <2>2, <2>3, <2>4, <4>1 DEF Body
    <3>3. CASE n # d + 1
      <4>1. n \in 1 .. d BY <3>3, <1>d
      <4> QED BY <3>1, <3>3, <2>3, <2>4, <4>1 DEF Aligned
    <3> QED BY <3>2, <3>3
  <2>5. ~torn => consumed' = End(d + 1) BY <1>2, <2>2 DEF Deliver
  <2>6. torn' = torn /\ pc' = "header" BY <1>2 DEF Deliver
  <2>7. Aligned' BY <1>b, <1>d, <1>f, <2>2, <2>3, <2>4, <2>5, <2>6 DEF Aligned
  <2> QED BY <1>a, <1>c, <2>1, <2>7
<1>3. CASE ReadClosed
  BY <1>3, <1>a, <1>b, <1>c, <1>e DEF ReadClosed, Aligned, Body, End
<1>4. CASE BodyFails
  BY <1>4, <1>a, <1>b, <1>c, <1>e DEF BodyFails, Aligned, Body, End
<1>5. CASE TearHeader
  BY <1>5, <1>a, <1>b, <1>c, <1>e DEF TearHeader, Aligned
<1>6. CASE TimeOut
  BY <1>6, <1>a, <1>b, <1>c, <1>e DEF TimeOut, Aligned, Body, End
<1>7. CASE Arrive
  <2>1. Total \in Nat BY EndType DEF Total, FramingTypes
  <2>2. arrived' <= Total' BY <1>7, <1>e, <2>1 DEF Arrive, FramingTypes
  <2> QED BY <1>7, <1>a, <1>b, <1>c, <2>2 DEF Arrive, Aligned, Body, End
<1>8. CASE Close
  BY <1>8, <1>a, <1>b, <1>c, <1>e DEF Close, Aligned, Body, End
<1>9. CASE UNCHANGED vars
  BY <1>9, <1>a, <1>b, <1>c, <1>e DEF vars, Aligned, Body, End
<1> QED BY <1>1, <1>2, <1>3, <1>4, <1>5, <1>6, <1>7, <1>8, <1>9 DEF Next, Receive

THEOREM StreamInvariant == Spec => []StreamInv
<1>1. Init => StreamInv BY StreamInit, FramingAssumption
<1>2. StreamInv /\ [Next]_vars => StreamInv' BY StreamNext, FramingAssumption
<1> QED BY <1>1, <1>2, PTL DEF Spec

\* Whatever lengths the gateway's frames have: without a pause inside a header
\* they come out whole, in order, each once.
THEOREM FramesComeWhole == Spec => []FramesWhole
<1>1. StreamInv => FramesWhole BY DEF StreamInv, Aligned, FramesWhole
<1> QED BY <1>1, StreamInvariant, PTL

-----------------------------------------------------------------------------
(* Framing: what is left behind.                                           *)

\* A session that ended without a pause saw the connection closed, and a torn
\* header is a pause.
EndInv ==
  /\ torn => paused
  /\ pc = "ended" /\ ~paused => closed /\ NothingLeftBehind

LEMMA EndsWithAll ==
  ASSUME FramingAssumption, StreamInv, ~torn, closed,
         \/ pc = "header" /\ Unread < Header
         \/ pc = "body" /\ ~Enough,
         NEW n \in 1 .. Len(ends), End(n) <= arrived,
         Body(n)[1] < End(n) \/ End(n) < arrived
  PROVE  Len(delivered) >= n
<1> DEFINE d == Len(delivered)
<1> SUFFICES ASSUME d < n PROVE FALSE
  BY DEF StreamInv, FramingTypes
<1> USE DEF StreamInv
<1>1. /\ d \in Nat /\ n \in Nat /\ d + 1 \in 1 .. Len(ends) /\ d \in 0 .. (d + 1) - 1
      /\ d + 1 \in 0 .. Len(ends)
  BY DEF FramingTypes
<1>2. consumed \in Nat /\ arrived \in Nat /\ Header \in Nat /\ Header > 0
  BY DEF FramingTypes, FramingAssumption
<1> HIDE DEF d
<1>3. End(d) \in Nat /\ End(d + 1) \in Nat /\ End(d + 1) >= End(d) + Header
  BY <1>1, Apart
<1>4. n # d + 1 => End(n) \in Nat /\ End(n) >= End(d + 1) + Header
  <2> SUFFICES ASSUME n # d + 1 PROVE End(n) \in Nat /\ End(n) >= End(d + 1) + Header
    OBVIOUS
  <2>1. d + 1 \in 0 .. n - 1 /\ n \in 0 .. Len(ends) BY <1>1 DEF FramingTypes
  <2> QED BY <2>1, Apart
<1>5. CASE pc = "header" /\ Unread < Header
  <2>1. consumed = End(d) BY <1>5 DEF Aligned, d
  <2> QED BY <1>1, <1>2, <1>3, <1>4, <1>5, <2>1 DEF Unread
<1>6. CASE pc = "body" /\ ~Enough
  <2>1. consumed = End(d) + Header /\ wanted = End(d + 1) - consumed
    BY <1>6 DEF Aligned, d
  <2>2. arrived < End(d + 1) \/ arrived <= End(d) + Header
    BY <1>2, <1>3, <1>6, <2>1 DEF Enough, Unread
  <2>3. CASE n = d + 1
    <3>1. (d + 1) - 1 = d BY <1>1
    <3>2. Body(n)[1] = End(d) + Header BY <2>3, <3>1 DEF Body
    <3>3. arrived <= End(d) + Header /\ End(n) = arrived
      BY <1>2, <1>3, <2>2, <2>3
    <3> QED BY <1>2, <1>3, <2>3, <3>2, <3>3
  <2> QED BY <1>2, <1>3, <1>4, <2>2, <2>3
<1> QED BY <1>5, <1>6

LEMMA EndNext ==
  ASSUME FramingAssumption, StreamInv, EndInv, [Next]_vars PROVE EndInv'
<1>1. ASSUME pc' = "ended", pc # "ended", ~paused' PROVE closed' /\ NothingLeftBehind'
  <2>1. /\ closed /\ closed' = closed /\ paused' = paused /\ torn' = torn
        /\ ends' = ends /\ arrived' = arrived /\ delivered' = delivered
        /\ \/ pc = "header" /\ Unread < Header
           \/ pc = "body" /\ ~Enough
    <3>1. CASE ReadClosed BY <3>1, <1>1 DEF ReadClosed
    <3>2. CASE BodyFails BY <3>2, <1>1 DEF BodyFails, Stall
    <3> QED
      BY <3>1, <3>2, <1>1 DEF Next, Receive, ReadHeader, Deliver, TearHeader, TimeOut,
         Stall, Arrive, Close, vars
  <2>2. ~torn BY <1>1, <2>1 DEF EndInv
  <2>3. \A n \in 1 .. Len(ends) :
          End(n) <= arrived /\ (Body(n)[1] < End(n) \/ End(n) < arrived) => Len(delivered) >= n
    BY <2>1, <2>2, EndsWithAll
  <2>4. \A n : End(n)' = End(n) /\ Body(n)' = Body(n) BY <2>1 DEF Body, End
  <2> QED BY <2>1, <2>3, <2>4 DEF NothingLeftBehind
<1>2. ASSUME pc' = "ended", pc = "ended", ~paused' PROVE closed' /\ NothingLeftBehind'
  <2>1. ~paused /\ closed /\ UNCHANGED vars
    BY <1>2 DEF EndInv, Next, Receive, ReadHeader, ReadClosed, Deliver, BodyFails, TearHeader,
       TimeOut, Stall, Arrive, Close, vars
  <2> QED BY <1>2, <2>1 DEF EndInv, NothingLeftBehind, vars, Body, End
<1>3. torn' => paused'
  BY DEF EndInv, Next, Receive, ReadHeader, ReadClosed, Deliver, BodyFails, TearHeader,
     TimeOut, Stall, Arrive, Close, vars
<1> QED BY <1>1, <1>2, <1>3 DEF EndInv

LEMMA EndInvariant == Spec => []EndInv
<1>1. Init => EndInv BY DEF Init, EndInv
<1>2. StreamInv /\ EndInv /\ [Next]_vars => EndInv' BY EndNext, FramingAssumption
<1> QED BY <1>1, <1>2, StreamInvariant, PTL DEF Spec

\* A gateway that closes behind its last frame loses none of those that have
\* arrived, unless the very last byte was a header that announced nothing.
THEOREM NoneLeftBehind == Spec => []NothingLeftBehind
<1>1. EndInv => NothingLeftBehind BY DEF EndInv, NothingLeftBehind
<1> QED BY <1>1, EndInvariant, PTL

-----------------------------------------------------------------------------
(* LuaSocket: the calls.                                                   *)

\* Every byte that arrived is in the kernel, in the buffer, with the receive
\* under way, or was read; a receive has not yet got all it wants, and one for
\* a header was begun because there was something; half a second is what was
\* spent and what is left of it.
CallInv ==
  /\ SocketTypeOK
  /\ consumed + got + Held + kernel = arrived
  /\ Receiving => /\ pc \in {"header", "body"}
                  /\ got < Want \/ (Want = 0 /\ got = 0)
                  /\ pc = "header" => Unread > 0 \/ closed
  /\ ~Receiving => got = 0 /\ pc # "body"
  /\ spent <= Block /\ (left # None => left + spent = Block)

SocketInv == StreamInv /\ CallInv

LEMMA SocketInvInit ==
  ASSUME FramingAssumption, LuaSocketAssumption, SocketInit PROVE SocketInv
<1>1. StreamInv BY StreamInit DEF SocketInit
<1>2. <<>> \in Seq(Nat) OBVIOUS
<1>3. starved \in BOOLEAN /\ ~Receiving BY Zenon DEF SocketInit, Receiving
<1> QED
  BY <1>1, <1>2, <1>3 DEF SocketInit, Init, SocketInv, CallInv, SocketTypeOK, Held, Unread, None,
     LuaSocketAssumption

\* What a round of recvraw takes: no more than there is or is wanted; with all
\* that is wanted, exactly that.
LEMMA PassTakes ==
  ASSUME FramingAssumption, LuaSocketAssumption, SocketInv, Pass
  PROVE  /\ Count \in Nat /\ Count <= Held /\ got + Count <= Want /\ Want \in Nat
         /\ first' \in Nat /\ last' \in first' .. BufSize /\ last' - first' = Held - Count
         /\ Until = consumed + got + Count /\ got + Count <= Unread /\ Unread > 0
<1> USE DEF SocketInv, CallInv, SocketTypeOK, LuaSocketAssumption, FramingAssumption
<1>1. Want \in Nat /\ got <= Want /\ got \in Nat
  BY DEF Pass, Receiving, Want, StreamInv, FramingTypes
<1>2. Held \in Nat /\ Held > 0 /\ first \in Nat /\ last \in Nat /\ last <= BufSize
  BY DEF Pass, Held
<1>3. Count \in Nat /\ Count <= Held /\ got + Count <= Want
  BY <1>1, <1>2 DEF Count, MIN
<1>4. first' \in Nat /\ last' \in first' .. BufSize /\ last' - first' = Held - Count
  <2>1. CASE first + Count >= last
    BY <1>2, <1>3, <2>1 DEF Pass, buffer_skip, Held
  <2>2. CASE ~(first + Count >= last)
    BY <1>2, <1>3, <2>2 DEF Pass, buffer_skip, Held
  <2> QED BY <2>1, <2>2
<1>5. consumed \in Nat /\ arrived \in Nat /\ kernel \in Nat
  BY DEF StreamInv, FramingTypes
<1>6. consumed + got + Held + kernel = arrived
  OBVIOUS
<1>7. Until = consumed + got + Count /\ got + Count <= Unread /\ Unread > 0
  BY <1>1, <1>2, <1>3, <1>5, <1>6 DEF Until, Place, Unread
<1> QED BY <1>1, <1>3, <1>4, <1>7

-----------------------------------------------------------------------------
(* LuaSocket: one lemma for each step that Framing sees.                   *)

LEMMA TakeHeaderStep ==
  ASSUME FramingAssumption, LuaSocketAssumption, SocketInv, TakeHeader
  PROVE  ReadHeader
<1>1. Pass /\ Done /\ pc = "header" /\ Want = Header BY DEF TakeHeader, Want
<1>2. consumed \in Nat /\ Header \in Nat /\ got \in Nat
  BY DEF SocketInv, CallInv, SocketTypeOK, StreamInv, FramingTypes, FramingAssumption
<1>3. got + Count = Header /\ Until = consumed + Header /\ Unread >= Header
  BY <1>1, <1>2, PassTakes DEF Done
<1>4. Until - Header = consumed BY <1>2, <1>3
<1> QED BY <1>3, <1>4 DEF TakeHeader, ReadHeader

LEMMA TakeBodyStep ==
  ASSUME FramingAssumption, LuaSocketAssumption, SocketInv, TakeBody
  PROVE  Deliver
<1>1. Pass /\ Done /\ pc = "body" /\ Want = wanted BY DEF TakeBody, Want
<1>2. consumed \in Nat /\ wanted \in Nat /\ got \in Nat /\ Unread \in Int
  BY DEF SocketInv, CallInv, SocketTypeOK, StreamInv, FramingTypes, Unread
<1>3. got + Count = wanted /\ Until = consumed + wanted /\ Unread >= wanted /\ Unread > 0
  BY <1>1, <1>2, PassTakes DEF Done
<1>4. Until - wanted = consumed BY <1>2, <1>3
<1> QED BY <1>3, <1>4 DEF TakeBody, Deliver, Enough

\* A receive that finds nothing any more had all there was.
LEMMA NothingThere ==
  ASSUME FramingAssumption, SocketInv, Held = 0, kernel = 0
  PROVE  Place = arrived /\ Unread = got
BY DEF SocketInv, CallInv, SocketTypeOK, StreamInv, FramingTypes, Place, Unread

LEMMA HeaderTimesOutStep ==
  ASSUME FramingAssumption, LuaSocketAssumption, SocketInv, HeaderTimesOut
  PROVE  TearHeader
<1>1. Receiving /\ pc = "header" /\ ~closed /\ Held = 0 /\ kernel = 0
  BY DEF HeaderTimesOut, TimedOut, Blocked, Receiving
<1>2. Place = arrived /\ Unread = got BY <1>1, NothingThere
<1>3. got \in Nat /\ got < Header /\ Unread > 0
  BY <1>1 DEF SocketInv, CallInv, SocketTypeOK, Want, FramingAssumption
<1>4. Unread \in 1 .. Header - 1 BY <1>2, <1>3 DEF FramingAssumption
<1> QED BY <1>1, <1>2, <1>4 DEF HeaderTimesOut, ReceiveFails, TearHeader, Stall

LEMMA BodyFailsStep ==
  ASSUME FramingAssumption, LuaSocketAssumption, SocketInv, Receiving, pc = "body",
         Held = 0, kernel = 0
  PROVE  ~Enough /\ Place = arrived
<1>1. Place = arrived /\ Unread = got BY NothingThere
<1>2. got \in Nat /\ wanted \in Nat /\ (got < wanted \/ got = 0)
  BY DEF SocketInv, CallInv, SocketTypeOK, StreamInv, FramingTypes, Want
<1> QED BY <1>1, <1>2 DEF Enough

LEMMA BodyTimesOutStep ==
  ASSUME FramingAssumption, LuaSocketAssumption, SocketInv, BodyTimesOut
  PROVE  BodyFails
<1>1. Receiving /\ pc = "body" /\ ~closed /\ Held = 0 /\ kernel = 0
  BY DEF BodyTimesOut, TimedOut, Blocked, Receiving
<1>2. ~Enough /\ Place = arrived BY <1>1, BodyFailsStep
<1> QED BY <1>1, <1>2 DEF BodyTimesOut, ReceiveFails, BodyFails, Stall

LEMMA ReceiveClosedStep ==
  ASSUME FramingAssumption, LuaSocketAssumption, SocketInv, ReceiveClosed
  PROVE  ReadClosed \/ BodyFails
<1>1. Receiving /\ closed /\ Held = 0 /\ kernel = 0 /\ pc \in {"header", "body"}
  BY DEF ReceiveClosed, SocketInv, CallInv
<1>2. Place = arrived /\ Unread = got BY <1>1, NothingThere
<1>3. CASE pc = "header"
  <2>1. got \in Nat /\ got < Header
    BY <1>1, <1>3 DEF SocketInv, CallInv, SocketTypeOK, Want, FramingAssumption
  <2>2. Unread < Header BY <1>2, <2>1
  <2> QED BY <1>1, <1>2, <1>3, <2>2 DEF ReceiveClosed, ReceiveFails, ReadClosed
<1>4. CASE pc = "body"
  <2>1. ~Enough BY <1>1, <1>4, BodyFailsStep
  <2> QED BY <1>1, <1>2, <1>4, <2>1 DEF ReceiveClosed, ReceiveFails, BodyFails
<1> QED BY <1>1, <1>3, <1>4

LEMMA GiveUpStep ==
  ASSUME FramingAssumption, LuaSocketAssumption, SocketInv, GiveUp
  PROVE  TimeOut
<1>1. pc = "header" /\ ~closed /\ Held <= 0 /\ kernel <= 0 /\ got = 0
  BY DEF GiveUp, Lua, Readable, SocketInv, CallInv, SocketTypeOK, Receiving, Held
<1>2. Held = 0 /\ kernel = 0
  BY <1>1 DEF SocketInv, CallInv, SocketTypeOK, Held
<1>3. Unread = 0 BY <1>1, <1>2, NothingThere
<1> QED BY <1>1, <1>3 DEF GiveUp, TimeOut, Stall

\* Every step of the socket is a step of Framing, or none.
LEMMA SocketStep ==
  ASSUME FramingAssumption, LuaSocketAssumption, SocketInv, [SocketNext]_socketVars
  PROVE  [Next]_vars
<1>1. CASE TakeHeader BY <1>1, TakeHeaderStep DEF Next, Receive
<1>2. CASE TakeBody BY <1>2, TakeBodyStep DEF Next, Receive
<1>3. CASE HeaderTimesOut BY <1>3, HeaderTimesOutStep DEF Next
<1>4. CASE BodyTimesOut BY <1>4, BodyTimesOutStep DEF Next, Receive
<1>5. CASE ReceiveClosed BY <1>5, ReceiveClosedStep DEF Next, Receive
<1>6. CASE GiveUp BY <1>6, GiveUpStep DEF Next
<1>7. CASE Outside BY <1>7 DEF Outside, Next
<1>8. CASE StartReceive \/ Fill \/ TakeSome \/ SocketSend \/ Wait \/ Tick \/ GwReads
  BY <1>8 DEF StartReceive, Fill, TakeSome, SocketSend, StartSend, SendStep, SendTimesOut,
     SendFails, Wait, Tick, GwReads
<1>9. CASE UNCHANGED socketVars BY <1>9 DEF socketVars
<1> QED
  BY <1>1, <1>2, <1>3, <1>4, <1>5, <1>6, <1>7, <1>8, <1>9 DEF SocketNext, Process, SocketReceive

-----------------------------------------------------------------------------
(* LuaSocket: the invariant of the calls.                                  *)

\* A frame that goes out has begun and is not out yet; without a send that
\* was given up the frames lie one behind the other.
OutInv ==
  /\ Sending => /\ Len(starts) > 0
                /\ starts[Len(starts)] <= sent /\ sent < starts[Len(starts)] + OutLen
  /\ ~starved /\ ~closed =>
       /\ \A n \in 1 .. Len(starts) : starts[n] = (n - 1) * OutLen
       /\ ~Sending => sent = Len(starts) * OutLen

LEMMA OutInit ==
  ASSUME LuaSocketAssumption, SocketInit PROVE OutInv
BY DEF SocketInit, OutInv, Sending, LuaSocketAssumption

LEMMA Moved ==
  /\ \A c, g, k, l \in Int : c + g + l + (k - l) = c + g + k
  /\ \A l \in Int : l - 0 = l
OBVIOUS

LEMMA ReceiveKeepsCall ==
  ASSUME FramingAssumption, LuaSocketAssumption, SocketInv, StreamInv', SocketReceive
  PROVE  CallInv'
<1> USE DEF SocketInv, CallInv, SocketTypeOK, LuaSocketAssumption, FramingAssumption, None
<1>0. consumed \in Nat /\ arrived \in Nat /\ wanted \in Nat /\ consumed' \in Nat /\ wanted' \in Nat
  BY DEF StreamInv, FramingTypes
<1>1. CASE StartReceive
  <2>1. Unread > 0 \/ closed
    BY <1>0, <1>1 DEF StartReceive, Lua, Readable, Receiving, Unread, Held
  <2> QED
    BY <1>0, <1>1, <2>1 DEF StartReceive, timeout_markstart, Lua, Receiving, Want, Held, Unread,
       vars, buffer, out
<1>2. CASE Fill
  <2>1. last' \in 0 .. BufSize /\ last' \in Int /\ kernel' \in Nat
    BY <1>2 DEF Fill, MIN, Held
  <2>2. Held = 0 /\ first' = 0 /\ left' = None /\ UNCHANGED <<vars, call, got, spent, out>>
    BY <1>2 DEF Fill
  <2>3. SocketTypeOK' BY <2>1, <2>2 DEF out
  <2>4. kernel \in Nat /\ got \in Nat OBVIOUS
  <2>5. consumed' = consumed /\ got' = got /\ arrived' = arrived /\ kernel' = kernel - last'
    BY <1>2, <2>2 DEF vars, Fill
  <2>6. consumed + got + kernel = arrived
    BY <1>0, <2>2, <2>4
  <2>7. consumed + got + last' + (kernel - last') = arrived
    <3>1. consumed \in Int /\ got \in Int /\ kernel \in Int BY <1>0, <2>4
    <3>2. consumed + got + last' + (kernel - last') = consumed + got + kernel
      <4>1. \A k, l \in Int : consumed + got + l + (k - l) = consumed + got + k
        BY <3>1, Moved, Zenon
      <4> QED BY <2>1, <3>1, <4>1, Zenon
    <3> QED BY <2>6, <3>2, Zenon
  <2>8. consumed' + got' + Held' + kernel' = arrived'
    <3>1. last' - 0 = last' BY <2>1, Moved, Zenon
    <3>2. Held' = last' BY <2>2, <3>1, Zenon DEF Held
    <3> QED BY <2>5, <2>7, <3>2, Zenon
  <2> QED BY <1>0, <2>2, <2>3, <2>8 DEF Receiving, Want, Unread, vars
<1>3. CASE TakeSome
  <2>1. Pass BY <1>3 DEF TakeSome
  <2>2. kernel' = kernel BY <2>1 DEF Pass
  <2>2a. consumed + got + Held + kernel = arrived /\ got \in Nat /\ kernel \in Nat
        /\ last \in Nat /\ first \in Nat
    OBVIOUS
  <2> HIDE DEF SocketInv, CallInv, SocketTypeOK, LuaSocketAssumption, FramingAssumption
  <2>2b. Count \in Nat /\ first' \in Nat /\ last' \in first' .. BufSize /\ last' - first' = Held - Count
        /\ got + Count <= Want /\ Want \in Nat /\ Until = consumed + got + Count
    BY <2>1, PassTakes
  <2>2c. last' \in Nat /\ Held \in Int BY <2>2a, <2>2b DEF Held, LuaSocketAssumption
  <2>2d. Held' = Held - Count BY <2>2a, <2>2b, <2>2c DEF Held
  <2>3. got' \in Nat /\ first' \in Nat /\ last' \in first' .. BufSize
        /\ consumed' + got' + Held' + kernel' = arrived' /\ got' < Want'
    BY <1>0, <1>3, <2>2, <2>2a, <2>2b, <2>2c, <2>2d DEF TakeSome, vars, Want
  <2>4. UNCHANGED <<vars, call, clock, out>> BY <1>3 DEF TakeSome
  <2>5. SocketTypeOK' BY <2>2, <2>3, <2>4 DEF SocketInv, CallInv, SocketTypeOK, clock, out
  <2>6. Receiving /\ Receiving' BY <2>1, <2>4 DEF Pass, Receiving
  <2> QED BY <1>0, <2>3, <2>4, <2>5, <2>6 DEF SocketInv, CallInv, Unread, vars, clock
<1>4. CASE TakeHeader
  <2>1. Pass /\ Done /\ pc = "header" /\ Want = Header BY <1>4 DEF TakeHeader, Want
  <2>2. kernel' = kernel BY <2>1 DEF Pass
  <2>2a. consumed + got + Held + kernel = arrived /\ got \in Nat /\ kernel \in Nat
        /\ last \in Nat /\ first \in Nat
    OBVIOUS
  <2> HIDE DEF SocketInv, CallInv, SocketTypeOK, LuaSocketAssumption, FramingAssumption
  <2>2b. Count \in Nat /\ first' \in Nat /\ last' \in first' .. BufSize /\ last' - first' = Held - Count
        /\ got + Count <= Want /\ Want \in Nat /\ Until = consumed + got + Count
    BY <2>1, PassTakes
  <2>2c. last' \in Nat /\ Held \in Int BY <2>2a, <2>2b DEF Held, LuaSocketAssumption
  <2>2d. Held' = Held - Count BY <2>2a, <2>2b, <2>2c DEF Held
  <2>3. got' = 0 /\ first' \in Nat /\ last' \in first' .. BufSize
        /\ consumed' + got' + Held' + kernel' = arrived'
    BY <1>0, <1>4, <2>2, <2>2a, <2>2b, <2>2c, <2>2d DEF TakeHeader, Done
  <2>4. pc' = "body" /\ spent' = 0 /\ left' = None /\ UNCHANGED <<call, out>>
    BY <1>4 DEF TakeHeader, timeout_markstart
  <2>5. SocketTypeOK' BY <2>2, <2>3, <2>4 DEF SocketInv, CallInv, SocketTypeOK, LuaSocketAssumption, out, None
  <2>6. Receiving /\ Receiving' BY <2>1, <2>4 DEF Pass, Receiving
  <2>7. got' < Want' \/ (Want' = 0 /\ got' = 0) BY <1>0, <2>3, <2>4 DEF Want
  <2> QED BY <2>3, <2>4, <2>5, <2>6, <2>7 DEF CallInv, LuaSocketAssumption
<1>5. CASE TakeBody
  <2>1. Pass /\ Done BY <1>5 DEF TakeBody
  <2>2. kernel' = kernel BY <2>1 DEF Pass
  <2>2a. consumed + got + Held + kernel = arrived /\ got \in Nat /\ kernel \in Nat
        /\ last \in Nat /\ first \in Nat
    OBVIOUS
  <2> HIDE DEF SocketInv, CallInv, SocketTypeOK, LuaSocketAssumption, FramingAssumption
  <2>2b. Count \in Nat /\ first' \in Nat /\ last' \in first' .. BufSize /\ last' - first' = Held - Count
        /\ got + Count <= Want /\ Want \in Nat /\ Until = consumed + got + Count
    BY <2>1, PassTakes
  <2>2c. last' \in Nat /\ Held \in Int BY <2>2a, <2>2b DEF Held, LuaSocketAssumption
  <2>2d. Held' = Held - Count BY <2>2a, <2>2b, <2>2c DEF Held
  <2>3. got' = 0 /\ first' \in Nat /\ last' \in first' .. BufSize
        /\ consumed' + got' + Held' + kernel' = arrived'
    BY <1>0, <1>5, <2>2, <2>2a, <2>2b, <2>2c, <2>2d DEF TakeBody, Done
  <2>4. pc' = "header" /\ call' = "lua" /\ UNCHANGED <<clock, out>>
    BY <1>5 DEF TakeBody
  <2>5. SocketTypeOK' BY <2>2, <2>3, <2>4 DEF SocketInv, CallInv, SocketTypeOK, clock, out
  <2>6. ~Receiving' BY <2>4 DEF Receiving
  <2> QED BY <2>3, <2>4, <2>5, <2>6 DEF SocketInv, CallInv, clock
<1>6. CASE HeaderTimesOut \/ BodyTimesOut \/ ReceiveClosed
  <2>1. ReceiveFails /\ pc' \in {"header", "ended"}
    BY <1>6 DEF HeaderTimesOut, BodyTimesOut, ReceiveClosed
  <2>2. consumed' + got' + Held' + kernel' = arrived'
    BY <1>0, <2>1 DEF ReceiveFails, Place, Held, buffer
  <2> QED BY <1>0, <2>1, <2>2 DEF ReceiveFails, Receiving, buffer, clock, out
<1> QED BY <1>1, <1>2, <1>3, <1>4, <1>5, <1>6 DEF SocketReceive

\* A step of a send sends something, and no more than is left.
LEMMA SendStepSends ==
  ASSUME LuaSocketAssumption, SocketTypeOK, OutInv, SendStep
  PROVE  /\ sent' \in Nat /\ sent < sent' /\ sent' - sent <= Rest /\ Rest \in Nat
         /\ starts' = starts /\ (call' = "lua" <=> sent' - sent = Rest)
         /\ call' \in {"lua", "send"}
         /\ Len(starts) \in 1 .. Len(starts) /\ starts[Len(starts)] \in Nat
<1> DEFINE n == MIN(MIN(Rest, StepSize), Room)
<1>1. Sending /\ Room > 0 /\ sent' = sent + n /\ call' = (IF n = Rest THEN "lua" ELSE "send")
      /\ starts' = starts
  BY DEF SendStep
<1>2. Len(starts) \in 1 .. Len(starts) /\ starts[Len(starts)] \in Nat
  BY <1>1 DEF OutInv, SocketTypeOK
<1>3. Rest \in Nat /\ Rest > 0 /\ sent \in Nat
  BY <1>1, <1>2 DEF OutInv, Rest, SocketTypeOK, LuaSocketAssumption
<1>4. Room \in Int BY DEF Room, SocketTypeOK, LuaSocketAssumption
<1>5. n \in Nat /\ n > 0 /\ n <= Rest
  BY <1>1, <1>3, <1>4 DEF MIN, LuaSocketAssumption
<1> HIDE DEF n
<1> QED BY <1>1, <1>2, <1>3, <1>5

LEMMA OthersKeepCall ==
  ASSUME FramingAssumption, LuaSocketAssumption, SocketInv, OutInv, StreamInv',
         \/ SocketSend \/ Wait \/ Tick \/ GiveUp \/ Outside \/ GwReads
         \/ UNCHANGED socketVars
  PROVE  CallInv'
<1> USE DEF SocketInv, CallInv, SocketTypeOK, LuaSocketAssumption, FramingAssumption, None
<1>0. consumed \in Nat /\ arrived \in Nat /\ wanted \in Nat
  BY DEF StreamInv, FramingTypes
<1>1. CASE StartSend
  <2>1. starts' \in Seq(Nat) BY <1>1 DEF StartSend
  <2> QED
    BY <1>0, <1>1, <2>1 DEF StartSend, timeout_markstart, Lua, Receiving, Held, vars, buffer
<1>2. CASE SendStep
  <2>1. sent' \in Nat /\ gwRead' \in 0 .. sent' /\ starts' = starts /\ call' \in {"lua", "send"}
    BY <1>2, SendStepSends DEF SendStep
  <2>2. call = "send" /\ left' = None /\ UNCHANGED <<vars, buffer, got, spent, gwRead, starved>>
    BY <1>2 DEF SendStep, Sending
  <2> HIDE DEF SendStep
  <2>3. ~Receiving /\ ~Receiving' BY <2>1, <2>2 DEF Receiving
  <2> QED BY <1>0, <2>1, <2>2, <2>3 DEF Held, vars, buffer
<1>3. CASE SendTimesOut
  BY <1>0, <1>3 DEF SendTimesOut, Sending, Receiving, Held, vars, buffer, clock
<1>4. CASE SendFails
  BY <1>0, <1>4 DEF SendFails, Sending, Receiving, Held, vars, buffer, clock, out
<1>5. CASE Wait
  BY <1>0, <1>5 DEF Wait, timeout_getretry, MAX, Receiving, Want, Unread, Held, vars, buffer, out
<1>6. CASE Tick
  BY <1>0, <1>6 DEF Tick, Receiving, Want, Unread, Held, vars, buffer, out
<1>7. CASE GiveUp
  BY <1>0, <1>7 DEF GiveUp, Lua, Receiving, Held, buffer, clock, out
<1>8. CASE Outside
  <2>1. UNCHANGED <<call, first, last, got, clock, out, consumed, pc, wanted>>
    BY <1>8 DEF Outside, Arrive, Close
  <2>2. \/ arrived' = arrived + 1 /\ kernel' = kernel + 1 /\ closed' = closed
        \/ arrived' = arrived /\ kernel' = kernel /\ closed' = TRUE
    BY <1>8 DEF Outside, Arrive, Close
  <2> QED BY <1>0, <2>1, <2>2 DEF Receiving, Want, Unread, Held, clock, out
<1>9. CASE GwReads
  BY <1>0, <1>9 DEF GwReads, Receiving, Want, Unread, Held, vars, buffer, clock
<1>10. CASE UNCHANGED socketVars
  BY <1>0, <1>10 DEF socketVars, Receiving, Want, Unread, Held, vars, buffer, clock, out
<1> QED BY <1>1, <1>2, <1>3, <1>4, <1>5, <1>6, <1>7, <1>8, <1>9, <1>10 DEF SocketSend

LEMMA OutNext ==
  ASSUME LuaSocketAssumption, SocketTypeOK, OutInv, [SocketNext]_socketVars
  PROVE  OutInv'
<1> USE DEF OutInv, SocketTypeOK, LuaSocketAssumption
<1>1. CASE StartSend
  <2>1. /\ call = "lua" /\ call' = "send" /\ starts' = Append(starts, sent)
        /\ UNCHANGED <<sent, starved, closed>>
    BY <1>1 DEF StartSend, Lua, vars
  <2>2. /\ Len(starts') = Len(starts) + 1 /\ starts'[Len(starts) + 1] = sent
        /\ \A n \in 1 .. Len(starts) : starts'[n] = starts[n]
    BY <2>1
  <2>3. Sending' /\ ~Sending BY <2>1 DEF Sending
  <2>4. ASSUME ~starved, ~closed, NEW n \in 1 .. Len(starts') PROVE starts'[n] = (n - 1) * OutLen
    <3>1. CASE n = Len(starts) + 1
      <4>1. n - 1 = Len(starts) /\ sent = Len(starts) * OutLen BY <2>3, <2>4, <3>1
      <4> QED BY <2>2, <3>1, <4>1
    <3>2. CASE n # Len(starts) + 1 BY <2>2, <2>4, <3>2
    <3> QED BY <3>1, <3>2
  <2>5. sent' >= starts'[Len(starts')] /\ sent' < starts'[Len(starts')] + OutLen
    BY <2>1, <2>2
  <2> QED BY <2>1, <2>2, <2>3, <2>4, <2>5
<1>2. CASE SendStep
  <2>1. /\ sent' \in Nat /\ sent < sent' /\ sent' - sent <= Rest /\ Rest \in Nat
        /\ starts' = starts /\ (call' = "lua" <=> sent' - sent = Rest)
        /\ call' \in {"lua", "send"}
        /\ Len(starts) \in 1 .. Len(starts) /\ starts[Len(starts)] \in Nat
    BY <1>2, SendStepSends
  <2>2. Sending /\ closed' = closed /\ starved' = starved BY <1>2 DEF SendStep, vars
  <2>3. Sending' <=> sent' - sent # Rest BY <2>1 DEF Sending
  <2>4. Sending' => sent' < starts[Len(starts)] + OutLen /\ starts[Len(starts)] <= sent'
    BY <2>1, <2>2, <2>3 DEF Rest
  <2>5. ~Sending' => sent' = starts[Len(starts)] + OutLen
    <3> HIDE DEF OutInv
    <3> QED BY <2>1, <2>3 DEF Rest
  <2>6. ASSUME ~starved, ~closed, ~Sending' PROVE sent' = Len(starts) * OutLen
    <3>1. starts[Len(starts)] = (Len(starts) - 1) * OutLen BY <2>1, <2>6
    <3>2. (Len(starts) - 1) * OutLen + OutLen = Len(starts) * OutLen OBVIOUS
    <3> QED BY <2>5, <2>6, <3>1, <3>2
  <2>7. Sending' => Len(starts') > 0 /\ starts'[Len(starts')] <= sent' /\ sent' < starts'[Len(starts')] + OutLen
    BY <2>1, <2>4
  <2>8. ~starved' /\ ~closed' =>
          /\ \A n \in 1 .. Len(starts') : starts'[n] = (n - 1) * OutLen
          /\ ~Sending' => sent' = Len(starts') * OutLen
    BY <2>1, <2>2, <2>6
  <2> QED BY <2>7, <2>8
<1>3. CASE SendTimesOut BY <1>3 DEF SendTimesOut, Sending
<1>4. CASE SendFails BY <1>4 DEF SendFails, Sending, vars, out
<1>5. CASE SocketReceive \/ Wait \/ Tick \/ GiveUp \/ Outside \/ GwReads \/ UNCHANGED socketVars
  <2>1. UNCHANGED <<starts, sent, starved>> /\ (closed => closed')
    BY <1>5 DEF SocketReceive, StartReceive, Fill, TakeSome, TakeHeader, TakeBody, HeaderTimesOut,
       BodyTimesOut, ReceiveClosed, ReceiveFails, Wait, Tick, GiveUp, Outside, Arrive, Close,
       GwReads, socketVars, vars, buffer, clock, out
  <2>2. Sending' <=> Sending
    BY <1>5 DEF SocketReceive, StartReceive, Fill, TakeSome, TakeHeader, TakeBody, HeaderTimesOut,
       BodyTimesOut, ReceiveClosed, ReceiveFails, Wait, Tick, GiveUp, Outside, Sending, Receiving,
       Pass, Lua, GwReads, socketVars
  <2> QED BY <2>1, <2>2
<1> QED BY <1>1, <1>2, <1>3, <1>4, <1>5 DEF SocketNext, Process, SocketSend

LEMMA SocketInvNext ==
  ASSUME FramingAssumption, LuaSocketAssumption, SocketInv, OutInv, [SocketNext]_socketVars
  PROVE  SocketInv' /\ OutInv'
<1>1. [Next]_vars BY SocketStep
<1>2. StreamInv' BY <1>1, StreamNext DEF SocketInv
<1>3. CallInv'
  BY <1>2, ReceiveKeepsCall, OthersKeepCall DEF SocketNext, Process
<1>4. OutInv' BY OutNext DEF SocketInv, CallInv
<1> QED BY <1>2, <1>3, <1>4 DEF SocketInv

THEOREM SocketInvariant == SocketSpec => [](SocketInv /\ OutInv)
<1>1. SocketInit => SocketInv /\ OutInv
  BY SocketInvInit, OutInit, FramingAssumption, LuaSocketAssumption
<1>2. SocketInv /\ OutInv /\ [SocketNext]_socketVars => (SocketInv /\ OutInv)'
  BY SocketInvNext, FramingAssumption, LuaSocketAssumption
<1> QED BY <1>1, <1>2, PTL DEF SocketSpec

-----------------------------------------------------------------------------
(* LuaSocket: what it promises.                                            *)

\* For every size of the buffer, of the steps and of the frames: what the
\* session reads through luasocket it could have read as Framing says.
THEOREM SocketReceivesAsFraming == SocketSpec => ReceivesAsFraming
<1>1. SocketInit => Init BY DEF SocketInit
<1>2. SocketInv /\ [SocketNext]_socketVars => [Next]_vars
  BY SocketStep, FramingAssumption, LuaSocketAssumption
<1> QED BY <1>1, <1>2, SocketInvariant, PTL DEF SocketSpec, ReceivesAsFraming, Spec

\* So the frames come whole through the buffer too.
THEOREM SocketFramesWhole == SocketSpec => []FramesWhole
BY SocketReceivesAsFraming, FramesComeWhole, PTL DEF ReceivesAsFraming

\* And none that has arrived is left in it.
THEOREM SocketNothingLeftBehind == SocketSpec => []NothingLeftBehind
BY SocketReceivesAsFraming, NoneLeftBehind, PTL DEF ReceivesAsFraming

\* Without a send that was given up each frame begins where the last one ended.
THEOREM SocketSentInPlace == SocketSpec => []SentInPlace
<1>1. OutInv => SentInPlace BY DEF OutInv, SentInPlace
<1> QED BY <1>1, SocketInvariant, PTL

\* A call that has not finished its work by itself was given its half second.
LEMMA HalfSecondStep ==
  ASSUME FramingAssumption, LuaSocketAssumption, SocketInv, OutInv, SocketNext,
         call' = "lua", ~closed, spent < Block
  PROVE  /\ Receiving => delivered' # delivered
         /\ Sending => sent' - starts[Len(starts)] = OutLen
<1>1. ~TimedOut
  <2> SUFFICES ASSUME TimedOut PROVE FALSE OBVIOUS
  <2>1. left = 0 BY DEF TimedOut
  <2>2. left + spent = Block BY <2>1 DEF SocketInv, CallInv, None
  <2> QED BY <2>1, <2>2 DEF SocketInv, CallInv, SocketTypeOK, LuaSocketAssumption
<1>2. ASSUME Receiving PROVE delivered' # delivered
  <2>1. TakeBody
    BY <1>1, <1>2 DEF SocketNext, Process, SocketReceive, StartReceive, Fill, TakeSome, TakeHeader,
       HeaderTimesOut, BodyTimesOut, ReceiveClosed, SocketSend, StartSend, SendStep, SendTimesOut,
       SendFails, Wait, Tick, GiveUp, Outside, GwReads, Lua, Pass, Receiving, Sending
  <2>2. delivered \in Seq(Int \X Int) BY DEF SocketInv, StreamInv, FramingTypes
  <2>3. Len(delivered') = Len(delivered) + 1 /\ Len(delivered) \in Nat
    BY <2>1, <2>2 DEF TakeBody
  <2> QED BY <2>3
<1>3. ASSUME Sending PROVE sent' - starts[Len(starts)] = OutLen
  <2>1. SendStep
    BY <1>1, <1>3 DEF SocketNext, Process, SocketReceive, StartReceive, Fill, TakeSome, TakeHeader,
       TakeBody, HeaderTimesOut, BodyTimesOut, ReceiveClosed, SocketSend, StartSend, SendTimesOut,
       SendFails, Wait, Tick, GiveUp, Outside, GwReads, Lua, Pass, Receiving, Sending
  <2>2. SocketTypeOK BY DEF SocketInv, CallInv
  <2>3. sent' - sent = Rest /\ starts[Len(starts)] \in Nat /\ sent' \in Nat
    BY <2>1, <2>2, SendStepSends
  <2> QED BY <2>2, <2>3 DEF Rest, SocketTypeOK, LuaSocketAssumption
<1> QED BY <1>2, <1>3

\* However the bytes trickle: half a second, no more and no less.
THEOREM SocketHalfSecond == SocketSpec => HalfSecond
<1> DEFINE A == /\ spent' <= Block
                /\ call' = "lua" /\ ~closed /\ spent < Block =>
                     /\ Receiving => delivered' # delivered
                     /\ Sending => sent' - starts[Len(starts)] = OutLen
<1>1. SocketInv /\ OutInv /\ SocketInv' /\ [SocketNext]_socketVars => [A]_socketVars
  <2> SUFFICES ASSUME SocketInv, OutInv, SocketInv', SocketNext PROVE A
    OBVIOUS
  <2>1. spent' <= Block BY DEF SocketInv, CallInv
  <2> QED BY <2>1, HalfSecondStep, FramingAssumption, LuaSocketAssumption
<1> QED BY <1>1, SocketInvariant, PTL DEF SocketSpec, HalfSecond
=============================================================================
