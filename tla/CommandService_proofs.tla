------------------------ MODULE CommandService_proofs ------------------------
(***************************************************************************)
(* Theorems about CommandService, for any set of connections and any       *)
(* number of commands on each.                                             *)
(***************************************************************************)
EXTENDS CommandService, SequenceTheorems, TLAPS

\* What Append does to a log.
LEMMA LogFacts ==
  ASSUME NEW S, NEW q \in Seq(S), NEW e \in S
  PROVE  /\ Append(q, e) \in Seq(S) /\ Len(Append(q, e)) = Len(q) + 1
         /\ \A i \in 1 .. Len(q) : Append(q, e)[i] = q[i]
         /\ Append(q, e)[Len(q) + 1] = e
  OBVIOUS

LEMMA OneEntry ==
  ASSUME NEW S, NEW q \in Seq(S), q # <<>>, Len(q) <= 1
  PROVE  Len(q) = 1 /\ q[1] \in S
<1>1. Len(q) # 0 /\ Len(q) \in Nat
  BY EmptySeq
<1>. QED
  BY <1>1

\* The command in hand is the newest of its connection, which is the newest
\* connection; what was carried out had been taken, and answers were earned.
HandNewest ==
  hand # <<>> =>
    /\ hand[1][1] \in Conns /\ hand[1][2] = taken[hand[1][1]]
    /\ \A t \in Conns : t > hand[1][1] => taken[t] = 0

DoneTaken ==
  \A i \in 1 .. Len(done) :
    /\ done[i][1] \in Conns /\ done[i][2] \in Nat
    /\ 1 <= done[i][2] /\ done[i][2] <= taken[done[i][1]]

ServiceInv == TypeOK /\ HandNewest /\ DoneTaken /\ DoneInOrder /\ AnswersEarned

\* The hand holds nothing or one command.
LEMMA HandFacts ==
  ASSUME TypeOK
  PROVE  hand # <<>> => Len(hand) = 1 /\ hand[1] \in Commands
                        /\ hand[1][1] \in Conns /\ hand[1][2] \in Nat
<1>1. hand # <<>> => Len(hand) = 1 /\ hand[1] \in Commands
  BY OneEntry DEF TypeOK
<1>2. \A c \in Commands : c[1] \in Conns /\ c[2] \in Nat
  BY DEF Commands
<1>. QED
  BY <1>1, <1>2

LEMMA InitServiceInv == Init => ServiceInv
<1> SUFFICES ASSUME Init PROVE ServiceInv
  OBVIOUS
<1>1. /\ taken \in [Conns -> 0 .. MaxTaken] /\ answers \in [Conns -> Nat]
      /\ hand \in Seq(Commands) /\ Len(hand) <= 1 /\ done \in Seq(Commands)
  BY ServiceAssumption DEF Init
<1>2. gone \in BOOLEAN
  BY Zenon DEF Init
<1>3. HandNewest /\ DoneTaken /\ DoneInOrder
  BY DEF Init, HandNewest, DoneTaken, DoneInOrder
<1>4. AnswersEarned
  <2>1. hand = <<>> /\ \A s \in Conns : answers[s] = 0 /\ taken[s] = 0
    BY DEF Init
  <2> SUFFICES ASSUME NEW s \in Conns
               PROVE  answers[s] + (IF hand # <<>> /\ hand[1][1] = s THEN 1 ELSE 0) <= taken[s]
    BY DEF AnswersEarned
  <2>2. (IF hand # <<>> /\ hand[1][1] = s THEN 1 ELSE 0) = 0
    BY <2>1, Zenon
  <2>3. answers[s] = 0 /\ taken[s] = 0
    BY <2>1
  <2>4. answers[s] + 0 <= taken[s]
    BY <2>3
  <2>. QED BY <2>2, <2>4, Zenon
<1>. QED
  BY <1>1, <1>2, <1>3, <1>4 DEF ServiceInv, TypeOK

LEMMA TakeServiceInv ==
  ASSUME ServiceInv, NEW s \in Conns, Take(s)
  PROVE  ServiceInv'
<1>1. /\ TypeOK /\ s \in Nat /\ MaxTaken \in Nat
      /\ \A t \in Conns : t \in Nat /\ taken[t] \in Nat /\ answers[t] \in Nat
  BY ServiceAssumption DEF ServiceInv, TypeOK
<1>2. /\ hand = <<>> /\ taken[s] < MaxTaken
      /\ \A t \in Conns : t > s => taken[t] = 0
      /\ taken' = [taken EXCEPT ![s] = @ + 1]
      /\ hand' = << <<s, taken[s] + 1>> >> /\ gone' = FALSE
      /\ done' = done /\ answers' = answers
  BY DEF Take
<1>3. /\ hand'[1][1] = s /\ hand'[1][2] = taken[s] + 1 /\ Len(hand') = 1
      /\ hand' # <<>> /\ hand'[1] \in Commands
  BY <1>1, <1>2 DEF Commands
<1>4. \A t \in Conns : taken'[t] = IF t = s THEN taken[t] + 1 ELSE taken[t]
  BY <1>1, <1>2 DEF TypeOK
<1>5. TypeOK'
  <2>1. taken' \in [Conns -> 0 .. MaxTaken] /\ answers' \in [Conns -> Nat] /\ done' \in Seq(Commands)
    BY <1>1, <1>2 DEF TypeOK
  <2>2. hand' \in Seq(Commands) /\ Len(hand') <= 1
    BY <1>1, <1>2, <1>3 DEF Commands
  <2>3. gone' \in BOOLEAN
    BY <1>2, Zenon
  <2>. QED BY <2>1, <2>2, <2>3 DEF TypeOK
<1>6. HandNewest'
  BY <1>1, <1>2, <1>3, <1>4 DEF HandNewest
<1>7. DoneTaken'
  BY <1>1, <1>2, <1>4 DEF ServiceInv, DoneTaken
<1>8. DoneInOrder'
  <2>1. \A i \in 1 .. Len(done) : Before(done[i], hand'[1])
    <3> SUFFICES ASSUME NEW i \in 1 .. Len(done) PROVE Before(done[i], hand'[1])
      OBVIOUS
    <3>1. /\ done[i][1] \in Conns /\ done[i][2] \in Nat
          /\ 1 <= done[i][2] /\ done[i][2] <= taken[done[i][1]]
      BY DEF ServiceInv, DoneTaken
    <3>2. ~(done[i][1] > s)
      BY <1>1, <1>2, <3>1
    <3>3. done[i][1] \in Nat /\ taken[done[i][1]] \in Nat
      BY <1>1, <3>1
    <3>4. CASE done[i][1] = s
      BY <1>1, <1>3, <3>1, <3>4 DEF Before
    <3>5. CASE done[i][1] < s
      BY <1>3, <3>5 DEF Before
    <3>. QED BY <1>1, <3>2, <3>3, <3>4, <3>5
  <2>. QED BY <1>2, <2>1 DEF ServiceInv, DoneInOrder
<1>9. AnswersEarned'
  BY <1>1, <1>2, <1>3, <1>4 DEF ServiceInv, AnswersEarned
<1>. QED
  BY <1>5, <1>6, <1>7, <1>8, <1>9 DEF ServiceInv

LEMMA DoServiceInv == ASSUME ServiceInv, Do PROVE ServiceInv'
<1>1. /\ TypeOK /\ hand # <<>> /\ ~gone /\ gone' = TRUE
      /\ done' \in {done, Append(done, hand[1])}
      /\ taken' = taken /\ hand' = hand /\ answers' = answers
  BY DEF ServiceInv, Do
<1>2. Len(hand) = 1 /\ hand[1] \in Commands /\ hand[1][1] \in Conns /\ hand[1][2] \in Nat
  BY <1>1, HandFacts
<1>3. done \in Seq(Commands) /\ Len(done) \in Nat
  BY <1>1 DEF TypeOK
<1>4. HandNewest' /\ AnswersEarned'
  BY <1>1 DEF ServiceInv, HandNewest, AnswersEarned
<1>5. CASE done' = done
  <2>1. gone' \in BOOLEAN
    BY <1>1, Zenon
  <2>2. TypeOK'
    BY <1>1, <1>5, <2>1 DEF TypeOK
  <2>3. DoneTaken' /\ DoneInOrder'
    BY <1>1, <1>5 DEF ServiceInv, DoneTaken, DoneInOrder
  <2>. QED BY <1>4, <2>2, <2>3 DEF ServiceInv
<1>6. CASE done' = Append(done, hand[1])
  <2>1. /\ done' \in Seq(Commands) /\ Len(done') = Len(done) + 1
        /\ \A i \in 1 .. Len(done) : done'[i] = done[i]
        /\ done'[Len(done) + 1] = hand[1]
    BY <1>2, <1>3, <1>6, LogFacts
  <2>2. gone' \in BOOLEAN
    BY <1>1, Zenon
  <2>3. TypeOK'
    BY <1>1, <2>1, <2>2 DEF TypeOK
  <2>4. hand[1][2] = taken[hand[1][1]] /\ 1 <= hand[1][2]
    <3>1. hand[1][2] = taken[hand[1][1]]
      BY <1>1 DEF ServiceInv, HandNewest
    <3>2. answers[hand[1][1]] + 1 <= taken[hand[1][1]] /\ answers[hand[1][1]] \in Nat
      BY <1>1, <1>2 DEF ServiceInv, AnswersEarned, TypeOK
    <3>. QED BY <1>2, <3>1, <3>2
  <2>5. DoneTaken'
    <3> SUFFICES ASSUME NEW i \in 1 .. Len(done')
                 PROVE  /\ done'[i][1] \in Conns /\ done'[i][2] \in Nat
                        /\ 1 <= done'[i][2] /\ done'[i][2] <= taken'[done'[i][1]]
      BY DEF DoneTaken
    <3>1. CASE i \in 1 .. Len(done)
      BY <1>1, <2>1, <3>1 DEF ServiceInv, DoneTaken
    <3>2. CASE i = Len(done) + 1
      BY <1>1, <1>2, <2>1, <2>4, <3>2
    <3>. QED BY <1>3, <2>1, <3>1, <3>2
  <2>6. DoneInOrder'
    <3>1. ASSUME NEW i \in 1 .. Len(done'), NEW j \in 1 .. Len(done'), i < j
          PROVE  Before(done'[i], done'[j])
      <4>1. i \in 1 .. Len(done)
        BY <1>3, <2>1, <3>1
      <4>2. CASE j \in 1 .. Len(done)
        BY <2>1, <3>1, <4>1, <4>2 DEF ServiceInv, DoneInOrder
      <4>3. CASE j = Len(done) + 1
        BY <1>1, <2>1, <4>1, <4>3 DEF ServiceInv, DoneInOrder
      <4>. QED BY <1>3, <2>1, <4>2, <4>3
    <3>. QED BY <1>1, <3>1 DEF DoneInOrder
  <2>. QED BY <1>4, <2>3, <2>5, <2>6 DEF ServiceInv
<1>. QED
  BY <1>1, <1>5, <1>6

LEMMA TellServiceInv == ASSUME ServiceInv, Tell PROVE ServiceInv'
<1> DEFINE s == hand[1][1]
<1>1. /\ TypeOK /\ hand # <<>> /\ gone /\ hand' = <<>> /\ gone' = FALSE
      /\ answers' \in {answers, [answers EXCEPT ![s] = @ + 1]}
      /\ taken' = taken /\ done' = done
  BY DEF ServiceInv, Tell
<1>2. s \in Conns
  BY <1>1, HandFacts
<1>3. \A t \in Conns : taken[t] \in Nat /\ answers[t] \in Nat
  BY <1>1, ServiceAssumption DEF TypeOK
<1>4. TypeOK'
  <2>1. /\ taken' \in [Conns -> 0 .. MaxTaken]
        /\ done' \in Seq(Commands) /\ hand' \in Seq(Commands) /\ Len(hand') <= 1
    BY <1>1 DEF TypeOK
  <2>3. answers' \in [Conns -> Nat]
    <3>1. answers[s] + 1 \in Nat
      BY <1>2, <1>3
    <3> HIDE DEF s
    <3>. QED BY <1>1, <3>1 DEF TypeOK
  <2>2. gone' \in BOOLEAN
    BY <1>1, Zenon
  <2>. QED BY <2>1, <2>2, <2>3 DEF TypeOK
<1>5. HandNewest' /\ DoneTaken' /\ DoneInOrder'
  BY <1>1 DEF ServiceInv, HandNewest, DoneTaken, DoneInOrder
<1>6. AnswersEarned'
  <2> SUFFICES ASSUME NEW t \in Conns PROVE answers'[t] <= taken[t]
    BY <1>1, <1>3 DEF AnswersEarned, TypeOK
  <2>1. answers[t] + (IF s = t THEN 1 ELSE 0) <= taken[t]
    BY <1>1 DEF ServiceInv, AnswersEarned
  <2>2. answers'[t] <= answers[t] + (IF s = t THEN 1 ELSE 0)
    BY <1>1, <1>2, <1>3 DEF TypeOK
  <2>3. answers'[t] \in Nat
    BY <1>4 DEF TypeOK
  <2>. QED BY <1>3, <2>1, <2>2, <2>3
<1>. QED
  BY <1>4, <1>5, <1>6 DEF ServiceInv

LEMMA AbandonServiceInv == ASSUME ServiceInv, Abandon PROVE ServiceInv'
<1>1. /\ TypeOK /\ hand # <<>> /\ ~gone /\ hand' = <<>>
      /\ taken' = taken /\ gone' = gone /\ done' = done /\ answers' = answers
  BY DEF ServiceInv, Abandon
<1>2. \A t \in Conns : taken[t] \in Nat /\ answers[t] \in Nat
  BY <1>1, ServiceAssumption DEF TypeOK
<1>3. TypeOK'
  BY <1>1 DEF TypeOK
<1>4. HandNewest' /\ DoneTaken' /\ DoneInOrder'
  BY <1>1 DEF ServiceInv, HandNewest, DoneTaken, DoneInOrder
<1>5. AnswersEarned'
  <2> SUFFICES ASSUME NEW t \in Conns PROVE answers[t] <= taken[t]
    BY <1>1, <1>2 DEF AnswersEarned
  <2>1. answers[t] + (IF hand # <<>> /\ hand[1][1] = t THEN 1 ELSE 0) <= taken[t]
    BY DEF ServiceInv, AnswersEarned
  <2>. QED BY <1>2, <2>1
<1>. QED
  BY <1>3, <1>4, <1>5 DEF ServiceInv

LEMMA NextServiceInv == ASSUME ServiceInv, [Next]_vars PROVE ServiceInv'
<1>1. CASE UNCHANGED vars
  BY <1>1 DEF vars, ServiceInv, TypeOK, HandNewest, DoneTaken, DoneInOrder, AnswersEarned
<1>. QED
  BY <1>1, TakeServiceInv, DoServiceInv, TellServiceInv, AbandonServiceInv DEF Next

LEMMA ServiceInvHolds == Spec => []ServiceInv
<1>1. ServiceInv /\ [Next]_vars => ServiceInv'
  BY NextServiceInv
<1>. QED
  BY <1>1, InitServiceInv, PTL DEF Spec

\* The types of the service's records.
THEOREM TypeCorrect == Spec => []TypeOK
<1>1. ServiceInv => TypeOK
  BY DEF ServiceInv
<1>. QED
  BY <1>1, ServiceInvHolds, PTL

\* No command is carried out twice or out of order, and none after a later
\* one was taken in hand (elink.lua:496-532: one loop, one command).
THEOREM OnceInOrder == Spec => []DoneInOrder
<1>1. ServiceInv => DoneInOrder
  BY DEF ServiceInv
<1>. QED
  BY <1>1, ServiceInvHolds, PTL

\* Every answer was earned by a command gone through with (elink.lua:515-528).
THEOREM NoUnearnedAnswer == Spec => []AnswersEarned
<1>1. ServiceInv => AnswersEarned
  BY DEF ServiceInv
<1>. QED
  BY <1>1, ServiceInvHolds, PTL
=============================================================================
