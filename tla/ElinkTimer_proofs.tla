-------------------------- MODULE ElinkTimer_proofs --------------------------
(***************************************************************************)
(* Theorems about ElinkTimer, for every unit, gap, latency and handler     *)
(* duration that TimerAssumption and GatewayAssumption allow, and whatever *)
(* the number of frames under way.                                         *)
(***************************************************************************)
EXTENDS ElinkTimer, FiniteSetTheorems, TLAPS

\* What Append, Tail and Head do to a queue.
LEMMA QueueFacts ==
  ASSUME NEW S, NEW q \in Seq(S), NEW e \in S
  PROVE  /\ Append(q, e) \in Seq(S) /\ Len(Append(q, e)) = Len(q) + 1
         /\ \A i \in 1 .. Len(q) : Append(q, e)[i] = q[i]
         /\ Append(q, e)[Len(q) + 1] = e
         /\ q # <<>> => /\ Tail(q) \in Seq(S) /\ Len(Tail(q)) = Len(q) - 1
                        /\ \A i \in 1 .. Len(q) - 1 : Tail(q)[i] = q[i + 1]
                        /\ Head(q) \in S
  OBVIOUS

\* No deadline is shorter than Unit seconds or longer than Unit * Long.
LEMMA Deadlines ==
  ASSUME TypeOK
  PROVE  /\ Unit * timeout \in Nat /\ Unit * Long \in Nat
         /\ Unit <= Unit * timeout /\ Unit * timeout <= Unit * Long
<1>1. Unit \in Nat /\ Unit >= 1 /\ Long \in Nat /\ Long >= 1
  BY TimerAssumption
<1>2. \A m, n \in Nat : m >= 1 /\ n >= 1 => m * n \in Nat /\ m <= m * n
  OBVIOUS
<1>3. Unit * Long \in Nat /\ Unit <= Unit * Long
  BY <1>1, <1>2
<1>4. Unit * 1 = Unit
  BY <1>1
<1>. QED
  BY <1>1, <1>3, <1>4 DEF TypeOK

-----------------------------------------------------------------------------
(* Type correctness.                                                       *)

\* owed stays a queue of ages when a frame goes out.
LEMMA AwaitType ==
  ASSUME owed \in Seq(Nat), Await
  PROVE  owed' \in Seq(Nat)
<1>1. Append(owed, 0) \in Seq(Nat)
  BY QueueFacts
<1>. QED
  BY <1>1 DEF Await

\* A second more, or none, on the clock.
LEMMA OlderFacts ==
  ASSUME NEW n \in Nat
  PROVE  Older(n) \in {n, n + 1} /\ Older(n) \in Nat
  BY DEF Older

LEMMA TypeInit == Init => TypeOK
<1> SUFFICES ASSUME Init PROVE TypeOK
  OBVIOUS
<1>1. /\ mode \in {"wait", "busy", "ended"} /\ timeout \in {1, Long} /\ age \in Nat
      /\ headAge \in 0 .. KeepGap + 1 /\ silence \in Nat
      /\ inbox \in Seq({"ack", "cmd"}) /\ owed \in Seq(Nat)
  BY TimerAssumption DEF Init
<1>2. polled \in BOOLEAN /\ gwUp \in BOOLEAN
  BY Zenon DEF Init
<1>. QED
  BY <1>1, <1>2 DEF TypeOK

LEMMA TypeNext == ASSUME TypeOK, [Next]_vars PROVE TypeOK'
<1>0. KeepGap \in Nat /\ Long \in Nat
  BY TimerAssumption
<1>1. CASE Poll
  <2>1. mode' \in {"wait", "busy", "ended"} /\ timeout' \in {1, Long} /\ age' \in Nat
    BY <1>1 DEF Poll, TypeOK
  <2>2. headAge' \in 0 .. KeepGap + 1 /\ silence' \in Nat
    BY <1>0, <1>1 DEF Poll, TypeOK
  <2>3. inbox' \in Seq({"ack", "cmd"}) /\ owed' \in Seq(Nat)
    BY <1>1, AwaitType DEF Poll, TypeOK
  <2>4. polled' \in BOOLEAN /\ gwUp' \in BOOLEAN
    BY <1>1, Zenon DEF Poll, TypeOK
  <2>. QED BY <2>1, <2>2, <2>3, <2>4 DEF TypeOK
<1>2. CASE RecvAck \/ RecvCommand
  <2>1. /\ mode' \in {"wait", "busy", "ended"} /\ timeout' \in {1, Long} /\ age' \in Nat
        /\ headAge' \in 0 .. KeepGap + 1 /\ silence' \in Nat
    BY <1>0, <1>2 DEF RecvAck, RecvCommand, setTimeOut, TypeOK
  <2>2. inbox' \in Seq({"ack", "cmd"})
    BY <1>2, QueueFacts DEF RecvAck, RecvCommand, TypeOK
  <2>3. owed' \in Seq(Nat)
    BY <1>2, AwaitType DEF RecvAck, RecvCommand, Report, TypeOK
  <2>4. polled' \in BOOLEAN /\ gwUp' \in BOOLEAN
    BY <1>2, Zenon DEF RecvAck, RecvCommand, TypeOK
  <2>. QED BY <2>1, <2>2, <2>3, <2>4 DEF TypeOK
<1>3. CASE Finish
  <2>1. /\ mode' \in {"wait", "busy", "ended"} /\ timeout' \in {1, Long} /\ age' \in Nat
        /\ headAge' \in 0 .. KeepGap + 1 /\ silence' \in Nat
        /\ inbox' \in Seq({"ack", "cmd"}) /\ owed' \in Seq(Nat)
    BY <1>3 DEF Finish, TypeOK
  <2>2. polled' \in BOOLEAN /\ gwUp' \in BOOLEAN
    BY <1>3, Zenon DEF Finish, TypeOK
  <2>. QED BY <2>1, <2>2 DEF TypeOK
<1>4. CASE Reconnect
  <2>1. /\ mode' \in {"wait", "busy", "ended"} /\ timeout' \in {1, Long} /\ age' \in Nat
        /\ headAge' \in 0 .. KeepGap + 1 /\ silence' \in Nat
        /\ inbox' \in Seq({"ack", "cmd"}) /\ owed' \in Seq(Nat)
    BY <1>0, <1>4 DEF Reconnect, setTimeOut, TypeOK
  <2>2. polled' \in BOOLEAN /\ gwUp' \in BOOLEAN
    BY <1>4, Zenon DEF Reconnect
  <2>. QED BY <2>1, <2>2 DEF TypeOK
<1>5. CASE GwAck \/ GwCommand
  <2>1. /\ mode' \in {"wait", "busy", "ended"} /\ timeout' \in {1, Long} /\ age' \in Nat
        /\ headAge' \in 0 .. KeepGap + 1 /\ silence' \in Nat
    BY <1>5 DEF GwAck, GwCommand, TypeOK
  <2>2. inbox' \in Seq({"ack", "cmd"})
    BY <1>5, QueueFacts DEF GwAck, GwCommand, TypeOK
  <2>3. owed' \in Seq(Nat)
    BY <1>5, QueueFacts DEF GwAck, GwCommand, TypeOK
  <2>4. polled' \in BOOLEAN /\ gwUp' \in BOOLEAN
    BY <1>5, Zenon DEF GwAck, GwCommand, TypeOK
  <2>. QED BY <2>1, <2>2, <2>3, <2>4 DEF TypeOK
<1>6. CASE GwDies
  <2>1. /\ mode' \in {"wait", "busy", "ended"} /\ timeout' \in {1, Long} /\ age' \in Nat
        /\ headAge' \in 0 .. KeepGap + 1 /\ silence' \in Nat
        /\ inbox' \in Seq({"ack", "cmd"}) /\ owed' \in Seq(Nat)
    BY <1>6 DEF GwDies, TypeOK
  <2>2. polled' \in BOOLEAN /\ gwUp' \in BOOLEAN
    BY <1>6, Zenon DEF GwDies, TypeOK
  <2>. QED BY <2>1, <2>2 DEF TypeOK
<1>7. CASE Tick
  <2>1. mode' \in {"wait", "busy", "ended"} /\ timeout' \in {1, Long} /\ inbox' \in Seq({"ack", "cmd"})
    BY <1>7 DEF Tick, TypeOK
  <2>2. age' \in Nat /\ silence' \in Nat
    BY <1>7, OlderFacts DEF Tick, TypeOK
  <2>3. headAge' \in 0 .. KeepGap + 1
    BY <1>0, <1>7 DEF Tick, TypeOK
  <2>4. owed' \in Seq(Nat)
    BY <1>7 DEF Tick, TypeOK
  <2>5. polled' \in BOOLEAN /\ gwUp' \in BOOLEAN
    BY <1>7, Zenon DEF Tick, TypeOK
  <2>. QED BY <2>1, <2>2, <2>3, <2>4, <2>5 DEF TypeOK
<1>8. CASE UNCHANGED vars
  <2>1. /\ mode' \in {"wait", "busy", "ended"} /\ timeout' \in {1, Long} /\ age' \in Nat
        /\ headAge' \in 0 .. KeepGap + 1 /\ silence' \in Nat
        /\ inbox' \in Seq({"ack", "cmd"}) /\ owed' \in Seq(Nat)
    BY <1>8 DEF vars, TypeOK
  <2>2. polled' \in BOOLEAN /\ gwUp' \in BOOLEAN
    BY <1>8, Zenon DEF vars, TypeOK
  <2>. QED BY <2>1, <2>2 DEF TypeOK
<1>. QED
  BY <1>1, <1>2, <1>3, <1>4, <1>5, <1>6, <1>7, <1>8 DEF Next

\* The timers and the queues keep their types: no time stamp lies ahead, and
\* timeout is 1 or Long (elink.lua:22-38).
THEOREM TypeCorrect == Spec => []TypeOK
<1>1. Init => TypeOK
  BY TypeInit
<1>2. TypeOK /\ [Next]_vars => TypeOK'
  BY TypeNext
<1>. QED
  BY <1>1, <1>2, PTL DEF Spec

-----------------------------------------------------------------------------
(* A silent gateway is noticed.                                            *)

\* What a poll leaves behind until the second is over: a deadline that has
\* not passed.  Every frame read sets the deadline anew, so that silence is
\* the age of the deadline.
SilenceInv ==
  /\ TypeOK /\ SilenceBounded /\ silence = age
  /\ mode = "wait" /\ polled => age + 1 <= Unit * timeout

LEMMA SilenceNext == ASSUME SilenceInv, [Next]_vars PROVE SilenceInv'
<1> DEFINE D == Unit * timeout
           L == Unit * Long
<1>0. TypeOK /\ TypeOK'
  BY TypeNext DEF SilenceInv
<1>1. D \in Nat /\ L \in Nat /\ D <= L /\ 1 <= L /\ L' = L
  BY <1>0, Deadlines, TimerAssumption
<1>2. age \in Nat /\ MaxBusy \in Nat
  BY <1>0, TimerAssumption DEF TypeOK
<1>3. /\ silence <= L \/ silence <= MaxBusy
      /\ silence = age
      /\ mode = "wait" /\ polled => age + 1 <= D
  BY DEF SilenceInv, SilenceBounded
<1> SUFFICES /\ silence' <= L \/ silence' <= MaxBusy
             /\ silence' = age'
             /\ mode' = "wait" /\ polled' => age' + 1 <= D'
  BY <1>0 DEF SilenceInv, SilenceBounded
<1>4. CASE Poll
  <2>1. silence' = silence /\ age' = age /\ D' = D
    BY <1>4 DEF Poll
  <2>2. mode' = "wait" => age + 1 <= D
    <3>1. mode' = "wait" => ~checkTimeOut
      BY <1>4 DEF Poll
    <3>. QED BY <1>1, <1>2, <3>1 DEF checkTimeOut
  <2> HIDE DEF D, L
  <2>. QED BY <1>3, <2>1, <2>2
<1>5. CASE RecvAck
  <2>1. silence' = 0 /\ age' = 0 /\ D' = L
    BY <1>5 DEF RecvAck, setTimeOut
  <2> HIDE DEF D, L
  <2>. QED BY <1>1, <2>1
<1>6. CASE RecvCommand
  <2>1. silence' = 0 /\ age' = 0 /\ mode' = "busy"
    BY <1>6 DEF RecvCommand, setTimeOut
  <2> HIDE DEF D, L
  <2>. QED BY <1>1, <2>1
<1>7. CASE Finish
  <2>1. silence' = silence /\ age' = age /\ ~polled'
    BY <1>7 DEF Finish
  <2> HIDE DEF D, L
  <2>. QED BY <1>3, <2>1
<1>8. CASE Reconnect
  <2>1. silence' = 0 /\ age' = 0 /\ ~polled'
    BY <1>8 DEF Reconnect, setTimeOut
  <2> HIDE DEF D, L
  <2>. QED BY <1>1, <2>1
<1>9. CASE GwAck \/ GwCommand \/ GwDies \/ UNCHANGED vars
  <2>1. silence' = silence /\ age' = age /\ D' = D /\ mode' = mode /\ polled' = polled
    BY <1>9 DEF GwAck, GwCommand, GwDies, vars
  <2> HIDE DEF D, L
  <2>. QED BY <1>3, <2>1
<1>10. CASE Tick
  <2>1. silence' = Older(silence) /\ age' = Older(age) /\ ~polled'
    BY <1>10 DEF Tick
  <2>2. silence' = age' /\ age' \in {age, age + 1}
    BY <1>2, <1>3, <2>1, OlderFacts
  <2>3. (mode = "wait" /\ polled) \/ (mode = "busy" /\ age < MaxBusy)
    BY <1>0, <1>10 DEF Tick, TypeOK
  <2> HIDE DEF D, L
  <2>4. age' <= L \/ age' <= MaxBusy
    BY <1>1, <1>2, <1>3, <2>2, <2>3
  <2>. QED BY <2>1, <2>2, <2>4
<1>. QED
  BY <1>4, <1>5, <1>6, <1>7, <1>8, <1>9, <1>10 DEF Next

\* Nobody waits on a connection on which nothing was heard for longer than
\* the long deadline or the last handler (elink.lua:40-43, 99-103, 508).
THEOREM SilenceNoticed == Spec => []SilenceBounded
<1>1. Init => SilenceInv
  <2> SUFFICES ASSUME Init PROVE SilenceInv
    OBVIOUS
  <2>1. TypeOK
    BY TypeInit
  <2>2. SilenceBounded /\ silence = age /\ ~polled
    BY TimerAssumption DEF Init, SilenceBounded
  <2>. QED BY <2>1, <2>2 DEF SilenceInv
<1>2. SilenceInv /\ [Next]_vars => SilenceInv'
  BY SilenceNext
<1>3. SilenceInv => SilenceBounded
  BY DEF SilenceInv
<1>. QED
  BY <1>1, <1>2, <1>3, PTL DEF Spec

-----------------------------------------------------------------------------
(* A living gateway is not given up.                                       *)

\* The acknowledgement of the frame owed[i], however late, finds the deadline
\* still ahead.
InTime(i) ==
  IF AckReports THEN age <= owed[i] ELSE age + Latency + 1 <= Unit + owed[i]

\* The next keepalive is due before the last frame read is too old: it goes
\* out within the second in which the gap, or the handler, is over.
KeepAliveAhead ==
  \/ age <= headAge
  \/ headAge = KeepGap + 1 /\ mode = "busy"
  \/ headAge = KeepGap + 1 /\ ~polled /\ age <= MaxBusy

\* Why the gateway's next word comes in time: it is there to be read, or owed
\* for a frame that is young enough, or will be for the next keepalive.
WordComes ==
  \/ \E i \in 1 .. Len(inbox) : inbox[i] = "ack"
  \/ \E i \in 1 .. Len(owed) : InTime(i)
  \/ ~AckReports /\ KeepAliveAhead

TimelyInv ==
  /\ TypeOK /\ NoSpuriousTimeout
  /\ \A i \in 1 .. Len(owed) : owed[i] <= Latency
  /\ mode = "busy" => age <= MaxBusy
  /\ mode = "wait" /\ polled => headAge <= KeepGap
  /\ gwUp => WordComes

\* A deadline set a moment ago is met, whatever is owed besides.
LEMMA JustRead ==
  ASSUME TypeOK, TypeOK', Report, gwUp, age' = 0,
         \A i \in 1 .. Len(owed) : owed[i] <= Latency
  PROVE  /\ WordComes'
         /\ \A i \in 1 .. Len(owed') : owed'[i] <= Latency
<1>0. Latency \in Nat /\ AckReports \in BOOLEAN /\ AckReports' = AckReports
  BY TimerAssumption
<1>1. CASE AckReports
  <2>1. owed' = Append(owed, 0)
    BY <1>1 DEF Report, Await
  <2>2. /\ Len(owed') = Len(owed) + 1 /\ owed'[Len(owed) + 1] = 0
        /\ \A i \in 1 .. Len(owed) : owed'[i] = owed[i]
    BY <2>1, QueueFacts DEF TypeOK
  <2>3. Len(owed) \in Nat
    BY DEF TypeOK
  <2>4. Len(owed) + 1 \in 1 .. Len(owed') /\ age' <= owed'[Len(owed) + 1]
    BY <2>2, <2>3
  <2>5. WordComes'
    BY <1>0, <1>1, <2>4 DEF WordComes, InTime
  <2>6. \A i \in 1 .. Len(owed') : owed'[i] <= Latency
    BY <1>0, <2>2, <2>3
  <2>. QED BY <2>5, <2>6
<1>2. CASE ~AckReports
  <2>1. owed' = owed
    BY <1>2 DEF Report
  <2>2. age' <= headAge'
    BY DEF TypeOK
  <2>3. WordComes'
    BY <1>0, <1>2, <2>2 DEF WordComes, KeepAliveAhead
  <2>. QED BY <2>1, <2>3
<1>. QED
  BY <1>0, <1>1, <1>2

\* With nothing to read, a word that comes in time means no deadline passed.
LEMMA NotYet ==
  ASSUME TypeOK, gwUp, mode = "wait", inbox = <<>>, WordComes,
         \A i \in 1 .. Len(owed) : owed[i] <= Latency
  PROVE  ~checkTimeOut
<1>1. Unit <= Unit * timeout /\ Unit * timeout \in Nat /\ Unit \in Nat
  BY Deadlines, TimerAssumption
<1>2. age \in Nat /\ headAge \in 0 .. KeepGap + 1
  BY DEF TypeOK
<1>3. /\ Latency \in Nat /\ KeepGap \in Nat /\ MaxBusy \in Nat
  BY TimerAssumption
<1>4. age + 1 <= Unit
  <2>1. CASE \E i \in 1 .. Len(inbox) : inbox[i] = "ack"
    BY <2>1
  <2>2. CASE \E i \in 1 .. Len(owed) : InTime(i)
    <3>1. PICK i \in 1 .. Len(owed) : InTime(i)
      BY <2>2
    <3>2. owed[i] \in Nat /\ owed[i] <= Latency
      BY <3>1 DEF TypeOK
    <3>3. CASE AckReports
      <4>1. Latency < Unit /\ age <= owed[i]
        BY <3>1, <3>3, GatewayAssumption DEF InTime
      <4>. QED BY <1>1, <1>2, <1>3, <3>2, <4>1
    <3>4. CASE ~AckReports
      <4>1. age + Latency + 1 <= Unit + owed[i]
        BY <3>1, <3>4 DEF InTime
      <4>. QED BY <1>1, <1>2, <1>3, <3>2, <4>1
    <3>. QED BY <3>3, <3>4
  <2>3. CASE ~AckReports /\ KeepAliveAhead
    <3>1. KeepGap + 1 + Latency < Unit /\ MaxBusy + Latency < Unit
      BY <2>3, GatewayAssumption
    <3>2. age <= headAge \/ age <= MaxBusy
      BY <2>3 DEF KeepAliveAhead
    <3>. QED BY <1>1, <1>2, <1>3, <3>1, <3>2
  <2>. QED BY <2>1, <2>2, <2>3 DEF WordComes
<1>. QED
  BY <1>1, <1>2, <1>4 DEF checkTimeOut

LEMMA TimelyNext == ASSUME TimelyInv, [Next]_vars PROVE TimelyInv'
<1>0. TypeOK /\ TypeOK'
  BY TypeNext DEF TimelyInv
<1>1. /\ Latency \in Nat /\ KeepGap \in Nat /\ MaxBusy \in Nat /\ Unit \in Nat
      /\ AckReports \in BOOLEAN /\ AckReports' = AckReports
      /\ age \in Nat /\ age' \in Nat
      /\ headAge \in 0 .. KeepGap + 1 /\ headAge' \in 0 .. KeepGap + 1
      /\ Len(owed) \in Nat /\ Len(inbox) \in Nat
  BY <1>0, TimerAssumption DEF TypeOK
<1>2. /\ mode = "ended" => ~gwUp
      /\ \A i \in 1 .. Len(owed) : owed[i] <= Latency
      /\ mode = "busy" => age <= MaxBusy
      /\ mode = "wait" /\ polled => headAge <= KeepGap
      /\ gwUp => WordComes
  BY DEF TimelyInv, NoSpuriousTimeout
<1> SUFFICES /\ mode' = "ended" => ~gwUp'
             /\ \A i \in 1 .. Len(owed') : owed'[i] <= Latency
             /\ mode' = "busy" => age' <= MaxBusy
             /\ mode' = "wait" /\ polled' => headAge' <= KeepGap
             /\ gwUp' => WordComes'
  BY <1>0 DEF TimelyInv, NoSpuriousTimeout
<1>3. CASE Poll
  <2>1. /\ mode = "wait" /\ inbox = <<>> /\ gwUp' = gwUp /\ age' = age
        /\ inbox' = inbox /\ mode' \in {"wait", "ended"}
    BY <1>3 DEF Poll
  <2>2. gwUp => ~checkTimeOut
    BY <1>0, <1>2, <2>1, NotYet
  <2>3. mode' = "ended" => ~gwUp'
    BY <1>3, <2>1, <2>2 DEF Poll
  <2>4. mode' = "wait" => headAge' <= KeepGap
    BY <1>1, <1>3, <2>1 DEF Poll, KeepAliveDue
  <2>5. CASE owed' = owed /\ headAge' = headAge
    <3>1. ASSUME gwUp PROVE WordComes'
      <4>1. mode' = "wait" /\ headAge <= KeepGap
        BY <1>1, <2>1, <2>3, <2>4, <2>5, <3>1
      <4>2. WordComes
        BY <1>2, <3>1
      <4>3. ~(\E i \in 1 .. Len(inbox) : inbox[i] = "ack")
        BY <2>1
      <4>4. (\E i \in 1 .. Len(owed) : InTime(i)) \/ (~AckReports /\ age <= headAge)
        BY <1>1, <4>1, <4>2, <4>3 DEF WordComes, KeepAliveAhead
      <4>. QED BY <1>1, <2>1, <2>5, <4>4 DEF WordComes, InTime, KeepAliveAhead
    <3>. QED BY <1>2, <2>1, <2>3, <2>4, <2>5, <3>1
  <2>6. CASE Await /\ headAge' = 0 /\ KeepAliveDue
    <3>1. CASE ~gwUp
      BY <1>2, <2>1, <2>3, <2>4, <2>6, <3>1 DEF Await
    <3>2. CASE gwUp
      <4>1. owed' = Append(owed, 0)
        BY <2>6, <3>2 DEF Await
      <4>2. /\ Len(owed') = Len(owed) + 1 /\ owed'[Len(owed) + 1] = 0
            /\ \A i \in 1 .. Len(owed) : owed'[i] = owed[i]
        BY <1>0, <4>1, QueueFacts DEF TypeOK
      <4>3. \A i \in 1 .. Len(owed') : owed'[i] <= Latency
        BY <1>1, <1>2, <4>2
      <4>4. WordComes
        BY <1>2, <3>2
      <4>5. CASE \E i \in 1 .. Len(owed) : InTime(i)
        <5>1. PICK i \in 1 .. Len(owed) : InTime(i)
          BY <4>5
        <5>2. i \in 1 .. Len(owed') /\ InTime(i)'
          BY <1>1, <2>1, <4>2, <5>1 DEF InTime
        <5>3. WordComes'
          BY <5>2 DEF WordComes
        <5>. QED BY <2>1, <2>3, <2>4, <4>3, <5>3
      <4>6. CASE ~AckReports /\ KeepAliveAhead
        <5>1. KeepGap + 1 + Latency < Unit /\ MaxBusy + Latency < Unit
          BY <4>6, GatewayAssumption
        <5>2. age <= KeepGap + 1 \/ age <= MaxBusy
          BY <1>1, <2>1, <4>6 DEF KeepAliveAhead
        <5>3. age + Latency + 1 <= Unit + 0
          BY <1>1, <5>1, <5>2
        <5>4. PICK k \in Nat : k = Len(owed) + 1
          BY <1>1
        <5>5. k \in 1 .. Len(owed') /\ InTime(k)'
          BY <1>1, <2>1, <4>2, <4>6, <5>3, <5>4 DEF InTime
        <5>6. WordComes'
          BY <5>5 DEF WordComes
        <5>. QED BY <2>1, <2>3, <2>4, <4>3, <5>6
      <4>7. ~(\E i \in 1 .. Len(inbox) : inbox[i] = "ack")
        BY <2>1
      <4>. QED BY <4>4, <4>5, <4>6, <4>7 DEF WordComes
    <3>. QED BY <3>1, <3>2
  <2>. QED BY <1>3, <2>5, <2>6 DEF Poll
<1>4. CASE RecvAck \/ RecvCommand
  <2>1. /\ mode = "wait" /\ Report /\ age' = 0 /\ gwUp' = gwUp
        /\ headAge' = headAge /\ polled' = polled /\ mode' \in {"wait", "busy"}
    BY <1>4 DEF RecvAck, RecvCommand, setTimeOut
  <2>2. mode' = "wait" /\ polled' => headAge' <= KeepGap
    BY <1>2, <2>1
  <2>3. gwUp => WordComes' /\ \A i \in 1 .. Len(owed') : owed'[i] <= Latency
    <3>1. ASSUME gwUp
          PROVE  WordComes' /\ \A i \in 1 .. Len(owed') : owed'[i] <= Latency
      BY <1>0, <1>2, <2>1, <3>1, JustRead
    <3>. QED BY <3>1
  <2>4. ~gwUp => owed' = owed
    BY <1>1, <2>1 DEF Report, Await
  <2>5. \A i \in 1 .. Len(owed') : owed'[i] <= Latency
    <3>1. CASE gwUp
      BY <2>3, <3>1
    <3>2. CASE ~gwUp
      BY <1>2, <2>4, <3>2
    <3>. QED BY <3>1, <3>2
  <2>6. mode' = "busy" => age' <= MaxBusy
    BY <1>1, <2>1
  <2>. QED BY <2>1, <2>2, <2>3, <2>5, <2>6
<1>5. CASE Finish
  <2>1. /\ mode = "busy" /\ mode' = "wait" /\ ~polled' /\ gwUp' = gwUp
        /\ age' = age /\ headAge' = headAge /\ inbox' = inbox /\ owed' = owed
    BY <1>5 DEF Finish
  <2>2. WordComes => WordComes'
    BY <1>1, <1>2, <2>1 DEF WordComes, InTime, KeepAliveAhead
  <2>. QED BY <1>2, <2>1, <2>2
<1>6. CASE Reconnect
  <2>1. /\ mode' = "wait" /\ ~polled' /\ age' = 0
        /\ owed' = IF AckReports THEN <<0>> ELSE <<>>
    BY <1>6 DEF Reconnect, setTimeOut
  <2>2. \A i \in 1 .. Len(owed') : owed'[i] <= Latency
    BY <1>1, <2>1
  <2>3. CASE AckReports
    <3>1. 1 \in 1 .. Len(owed') /\ InTime(1)'
      BY <1>1, <2>1, <2>3 DEF InTime
    <3>2. WordComes'
      BY <3>1 DEF WordComes
    <3>. QED BY <2>1, <2>2, <3>2
  <2>4. CASE ~AckReports
    <3>1. age' <= headAge'
      BY <1>1, <2>1
    <3>2. WordComes'
      BY <1>1, <2>4, <3>1 DEF WordComes, KeepAliveAhead
    <3>. QED BY <2>1, <2>2, <3>2
  <2>. QED BY <2>3, <2>4
<1>7. CASE GwAck
  <2>1. /\ owed # <<>> /\ owed' = Tail(owed) /\ inbox' = Append(inbox, "ack")
        /\ UNCHANGED <<mode, age, headAge, polled, gwUp>>
    BY <1>7 DEF GwAck
  <2>2. \A i \in 1 .. Len(owed') : owed'[i] <= Latency
    <3>1. /\ Len(Tail(owed)) = Len(owed) - 1
          /\ \A i \in 1 .. Len(owed) - 1 : Tail(owed)[i] = owed[i + 1]
      BY <1>0, <2>1, QueueFacts DEF TypeOK
    <3>. QED BY <1>1, <1>2, <2>1, <3>1
  <2>3. Len(inbox') = Len(inbox) + 1 /\ inbox'[Len(inbox) + 1] = "ack"
    BY <1>0, <2>1, QueueFacts DEF TypeOK
  <2>4. WordComes'
    BY <1>1, <2>3 DEF WordComes
  <2>. QED BY <1>2, <2>1, <2>2, <2>4
<1>8. CASE GwCommand
  <2>1. /\ inbox' = Append(inbox, "cmd")
        /\ UNCHANGED <<mode, age, headAge, owed, polled, gwUp>>
    BY <1>8 DEF GwCommand
  <2>2. Len(inbox') = Len(inbox) + 1 /\ \A i \in 1 .. Len(inbox) : inbox'[i] = inbox[i]
    BY <1>0, <2>1, QueueFacts DEF TypeOK
  <2>3. WordComes => WordComes'
    BY <1>1, <2>1, <2>2 DEF WordComes, InTime, KeepAliveAhead
  <2>. QED BY <1>2, <2>1, <2>3
<1>9. CASE GwDies
  <2>1. /\ ~gwUp' /\ owed' = <<>>
        /\ UNCHANGED <<mode, age, headAge, polled>>
    BY <1>9 DEF GwDies
  <2>. QED BY <1>2, <2>1
<1>10. CASE Tick
  <2>1. /\ mode = "wait" => polled
        /\ mode = "busy" => age < MaxBusy
        /\ mode # "ended"
        /\ \A i \in 1 .. Len(owed) : owed[i] < Latency
        /\ owed' = [i \in 1 .. Len(owed) |-> owed[i] + 1]
        /\ headAge' = IF headAge <= KeepGap THEN headAge + 1 ELSE headAge
        /\ ~polled' /\ UNCHANGED <<mode, inbox, gwUp>>
    BY <1>10 DEF Tick
  <2>2. age' \in {age, age + 1}
    BY <1>1, <1>10, OlderFacts DEF Tick
  <2>3. Len(owed') = Len(owed) /\ \A i \in 1 .. Len(owed) : owed'[i] = owed[i] + 1
    BY <1>1, <2>1
  <2>4. \A i \in 1 .. Len(owed) : owed[i] \in Nat
    BY <1>0 DEF TypeOK
  <2>5. \A i \in 1 .. Len(owed') : owed'[i] <= Latency
    BY <1>1, <2>1, <2>3, <2>4
  <2>6. mode' = "busy" => age' <= MaxBusy
    BY <1>1, <2>1, <2>2
  <2>7. ASSUME WordComes PROVE WordComes'
    <3>1. CASE \E i \in 1 .. Len(inbox) : inbox[i] = "ack"
      BY <2>1, <3>1 DEF WordComes
    <3>2. CASE \E i \in 1 .. Len(owed) : InTime(i)
      <4>1. PICK i \in 1 .. Len(owed) : InTime(i)
        BY <3>2
      <4>2. owed[i] \in Nat /\ owed'[i] = owed[i] + 1
        BY <2>3, <2>4
      <4>3. InTime(i)'
        BY <1>1, <2>2, <4>1, <4>2 DEF InTime
      <4>. QED BY <2>3, <4>3 DEF WordComes
    <3>3. CASE ~AckReports /\ KeepAliveAhead
      <4>1. mode \in {"wait", "busy"}
        BY <1>0, <2>1 DEF TypeOK
      <4>2. KeepAliveAhead'
        <5>1. CASE mode = "wait"
          BY <1>1, <1>2, <2>1, <2>2, <3>3, <5>1 DEF KeepAliveAhead
        <5>2. CASE mode = "busy"
          BY <1>1, <2>1, <2>2, <3>3, <5>2 DEF KeepAliveAhead
        <5>. QED BY <4>1, <5>1, <5>2
      <4>. QED BY <1>1, <3>3, <4>2 DEF WordComes
    <3>. QED BY <2>7, <3>1, <3>2, <3>3 DEF WordComes
  <2>. QED BY <1>2, <2>1, <2>5, <2>6, <2>7
<1>11. CASE UNCHANGED vars
  <2>1. WordComes => WordComes'
    BY <1>1, <1>11 DEF vars, WordComes, InTime, KeepAliveAhead
  <2>. QED BY <1>2, <1>11, <2>1 DEF vars
<1>. QED
  BY <1>3, <1>4, <1>5, <1>6, <1>7, <1>8, <1>9, <1>10, <1>11 DEF Next

\* A gateway that keeps to GatewayAssumption is never given up, although every
\* report shortens the deadline to Unit seconds and a handler may outlast it
\* (elink.lua:40-43, 279, 502-508).
THEOREM LivingGatewayKept == Spec => []NoSpuriousTimeout
<1>1. Init => TimelyInv
  <2> SUFFICES ASSUME Init PROVE TimelyInv
    OBVIOUS
  <2>1. /\ Latency \in Nat /\ KeepGap \in Nat
        /\ mode = "wait" /\ age = 0 /\ ~polled /\ headAge \in 0 .. KeepGap + 1
        /\ owed = IF AckReports THEN <<0>> ELSE <<>>
    BY TimerAssumption DEF Init
  <2>2. \A i \in 1 .. Len(owed) : owed[i] <= Latency
    BY <2>1
  <2>3. CASE AckReports
    <3>1. 1 \in 1 .. Len(owed) /\ InTime(1)
      BY <2>1, <2>3 DEF InTime
    <3>2. WordComes
      BY <3>1 DEF WordComes
    <3>. QED BY <2>1, <2>2, <3>2, TypeInit DEF TimelyInv, NoSpuriousTimeout
  <2>4. CASE ~AckReports
    <3>1. WordComes
      BY <2>1, <2>4 DEF WordComes, KeepAliveAhead
    <3>. QED BY <2>1, <2>2, <3>1, TypeInit DEF TimelyInv, NoSpuriousTimeout
  <2>. QED BY <2>3, <2>4
<1>2. TimelyInv /\ [Next]_vars => TimelyInv'
  BY TimelyNext
<1>3. TimelyInv => NoSpuriousTimeout
  BY DEF TimelyInv
<1>. QED
  BY <1>1, <1>2, <1>3, PTL DEF Spec
-----------------------------------------------------------------------------
(* Reports beget reports.                                                  *)

\* The places of the acknowledgements in a queue: Acks is AcksIn(inbox).
AcksIn(q) == {i \in 1 .. Len(q) : q[i] = "ack"}

LEMMA AcksType ==
  ASSUME NEW S, NEW q \in Seq(S)
  PROVE  IsFiniteSet(AcksIn(q)) /\ Cardinality(AcksIn(q)) \in Nat
<1>1. IsFiniteSet(1 .. Len(q))
  BY FS_Interval
<1>2. IsFiniteSet(AcksIn(q))
  BY <1>1, FS_Subset DEF AcksIn
<1>. QED
  BY <1>2, FS_CardinalityType

LEMMA AcksAppend ==
  ASSUME NEW S, NEW q \in Seq(S), NEW e \in S
  PROVE  Cardinality(AcksIn(Append(q, e)))
           = IF e = "ack" THEN Cardinality(AcksIn(q)) + 1 ELSE Cardinality(AcksIn(q))
<1>1. Len(q) \in Nat /\ Len(q) + 1 \notin AcksIn(q)
  BY DEF AcksIn
<1>2. AcksIn(Append(q, e)) = IF e = "ack" THEN AcksIn(q) \cup {Len(q) + 1} ELSE AcksIn(q)
  BY <1>1, QueueFacts DEF AcksIn
<1>. QED
  BY <1>1, <1>2, AcksType, FS_AddElement

\* Every place moves up by one.
LEMMA AcksTail ==
  ASSUME NEW S, NEW q \in Seq(S), q # <<>>
  PROVE  Cardinality(AcksIn(q))
           = IF Head(q) = "ack" THEN Cardinality(AcksIn(Tail(q))) + 1
                                ELSE Cardinality(AcksIn(Tail(q)))
<1> DEFINE A == AcksIn(q) \ {1}
           B == AcksIn(Tail(q))
           up == [i \in A |-> i - 1]
<1>1. /\ Len(q) \in Nat /\ Len(q) >= 1 /\ Head(q) = q[1] /\ Tail(q) \in Seq(S)
      /\ Len(Tail(q)) = Len(q) - 1
      /\ \A i \in 1 .. Len(q) - 1 : Tail(q)[i] = q[i + 1]
  OBVIOUS
<1>2. \A i \in A : i \in Nat /\ i - 1 \in B
  BY <1>1 DEF AcksIn
<1>3. \A j \in B : j \in Nat /\ j + 1 \in A
  BY <1>1 DEF AcksIn
<1>4. 1 \in AcksIn(q) <=> Head(q) = "ack"
  BY <1>1 DEF AcksIn
<1>5. IsFiniteSet(AcksIn(q)) /\ IsFiniteSet(B)
  BY <1>1, AcksType
<1> HIDE DEF A, B
<1>6. ExistsBijection(A, B)
  <2>1. up \in [A -> B] /\ \A i \in A : up[i] = i - 1
    BY <1>2
  <2> HIDE DEF up
  <2>2. \A i, j \in A : up[i] = up[j] => i = j
    BY <1>2, <2>1
  <2>3. \A j \in B : \E i \in A : up[i] = j
    BY <1>3, <2>1
  <2>4. up \in Bijection(A, B)
    BY <2>1, <2>2, <2>3 DEF Bijection, Injection, Surjection, IsInjective
  <2>. QED BY <2>4 DEF ExistsBijection
<1>7. /\ IsFiniteSet(A)
      /\ Cardinality(A) = IF 1 \in AcksIn(q) THEN Cardinality(AcksIn(q)) - 1
                                             ELSE Cardinality(AcksIn(q))
  BY <1>5, FS_RemoveElement DEF A
<1>8. Cardinality(B) = Cardinality(A)
  BY <1>6, <1>7, FS_Bijection
<1>9. Cardinality(AcksIn(q)) \in Nat
  BY <1>1, AcksType
<1>. QED
  BY <1>4, <1>7, <1>8, <1>9 DEF B

\* A frame that goes out to a living gateway is one more to acknowledge.
LEMMA AwaitLength ==
  ASSUME TypeOK
  PROVE  /\ Await => Len(owed') = IF gwUp THEN Len(owed) + 1 ELSE Len(owed)
         /\ Report => Len(owed') = IF AckReports /\ gwUp THEN Len(owed) + 1 ELSE Len(owed)
<1>1. owed \in Seq(Nat) /\ Len(Append(owed, 0)) = Len(owed) + 1
  BY DEF TypeOK
<1>. QED
  BY <1>1 DEF Await, Report

LEMMA ReportsNext ==
  ASSUME TypeOK, [Next]_vars, AckReports, gwUp', mode # "ended", mode' # "ended"
  PROVE  InFlight' >= InFlight
<1> DEFINE n == Cardinality(AcksIn(inbox))
           t == Cardinality(AcksIn(Tail(inbox)))
<1>1. InFlight = Len(owed) + n /\ InFlight' = Len(owed') + n'
  BY DEF InFlight, Acks, AcksIn
<1>2. /\ inbox \in Seq({"ack", "cmd"}) /\ owed \in Seq(Nat) /\ Len(owed) \in Nat
      /\ n \in Nat
  BY AcksType DEF TypeOK
<1>3. inbox # <<>> => /\ Tail(inbox) \in Seq({"ack", "cmd"}) /\ t \in Nat
                      /\ n = IF Head(inbox) = "ack" THEN t + 1 ELSE t
  BY <1>2, AcksType, AcksTail, QueueFacts
<1>4. \A e \in {"ack", "cmd"} :
        Cardinality(AcksIn(Append(inbox, e))) = IF e = "ack" THEN n + 1 ELSE n
  BY <1>2, AcksAppend
<1>5. gwUp \/ Reconnect
  BY DEF Next, vars, Poll, RecvAck, RecvCommand, Finish, GwAck, GwCommand, GwDies, Tick
<1>6. CASE Poll
  <2>1. n' = n /\ (owed' = owed \/ Await)
    BY <1>6 DEF Poll
  <2> HIDE DEF n
  <2>. QED BY <1>1, <1>2, <2>1, AwaitLength
<1>7. CASE RecvAck
  <2>1. n' = t /\ n = t + 1 /\ t \in Nat
    BY <1>3, <1>7 DEF RecvAck
  <2>2. Len(owed') = Len(owed) + 1
    BY <1>5, <1>7, AwaitLength DEF RecvAck, Reconnect
  <2> HIDE DEF n, t
  <2>. QED BY <1>1, <1>2, <2>1, <2>2
<1>8. CASE RecvCommand
  <2>1. n' = t /\ n = t
    BY <1>3, <1>8 DEF RecvCommand
  <2>2. Len(owed') >= Len(owed)
    BY <1>2, <1>8, AwaitLength DEF RecvCommand
  <2>3. Len(owed') \in Nat
    BY <1>2, <1>8, AwaitLength DEF RecvCommand
  <2> HIDE DEF n, t
  <2>. QED BY <1>1, <1>2, <2>1, <2>2, <2>3
<1>9. CASE GwAck
  <2>1. n' = n + 1
    BY <1>4, <1>9 DEF GwAck
  <2>2. Len(owed') = Len(owed) - 1
    BY <1>2, <1>9, QueueFacts DEF GwAck
  <2> HIDE DEF n
  <2>. QED BY <1>1, <1>2, <2>1, <2>2
<1>10. CASE GwCommand
  <2>1. n' = n /\ owed' = owed
    BY <1>4, <1>10 DEF GwCommand
  <2> HIDE DEF n
  <2>. QED BY <1>1, <1>2, <2>1
<1>11. CASE Tick
  <2>1. n' = n /\ Len(owed') = Len(owed)
    BY <1>2, <1>11 DEF Tick
  <2> HIDE DEF n
  <2>. QED BY <1>1, <1>2, <2>1
<1>12. CASE Finish \/ UNCHANGED vars
  <2>1. n' = n /\ owed' = owed
    BY <1>12 DEF Finish, vars
  <2> HIDE DEF n
  <2>. QED BY <1>1, <1>2, <2>1
<1>13. ~Reconnect /\ ~GwDies
  BY DEF Reconnect, GwDies
<1>. QED
  BY <1>6, <1>7, <1>8, <1>9, <1>10, <1>11, <1>12, <1>13 DEF Next

\* While a connection lives the acknowledged frames under way never become
\* fewer, however many they are: an agent that reports on every frame it reads,
\* to a gateway that acknowledges reports, never falls silent again
\* (elink.lua:500-508).
THEOREM ReportsBegetReports == Spec => ReportsNeverDieOut
<1>1. Init => TypeOK
  BY TypeInit
<1>2. TypeOK /\ [Next]_vars => TypeOK'
  BY TypeNext
<1>3. TypeOK /\ [Next]_vars
        => [AckReports /\ gwUp' /\ mode # "ended" /\ mode' # "ended"
              => InFlight' >= InFlight]_vars
  BY ReportsNext
<1>. QED
  BY <1>1, <1>2, <1>3, PTL DEF Spec, ReportsNeverDieOut
=============================================================================
