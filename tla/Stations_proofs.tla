--------------------------- MODULE Stations_proofs ---------------------------
(***************************************************************************)
(* That the stations that stay are told of once, and when a session is lost*)
(* over the question, for any number of stations.                          *)
(***************************************************************************)
EXTENDS Stations, FiniteSetTheorems, TLAPS

\* A station at just one of the places of list, with its radio; or at none.
Once(m, t, bands) ==
  /\ radio[m] \in bands =>
       \E n \in 1 .. Len(t) :
         t[n].band = radio[m] /\ \A i \in 1 .. Len(t) : t[i].mac = m <=> i = n
  /\ radio[m] \notin bands => \A i \in 1 .. Len(t) : t[i].mac # m

\* The radios that were read.
Seen == IF pc = "second" THEN {"2.4G"} ELSE Bands

ListInv ==
  pc # "idle" => \A m \in Mac \ unsure : Once(m, list, Seen)

\* No station is listed twice for a radio.
Apart(t) ==
  \A i, j \in 1 .. Len(t) : t[i].mac = t[j].mac /\ t[i].band = t[j].band => i = j

\* Nothing is listed for a radio that was not read.
RowsInv == pc # "idle" => Apart(list) /\ \A i \in 1 .. Len(list) : list[i].band \in Seen

AnswerInv == pc \in {"answered", "raised"} => answer = Kept

RaisedInv == pc = "raised" => Sparse(answer)

StationsInv == TypeOK /\ ListInv /\ RowsInv /\ AnswerInv /\ RaisedInv

-----------------------------------------------------------------------------
(* Reading a radio.                                                        *)

LEMMA TablesType ==
  ASSUME StationsAssumption, TypeOK, NEW band \in Bands, NEW t \in Tables(band)
  PROVE  t \in Seq(Entries) /\ \A n \in 1 .. Len(t) : t[n].band = band /\ t[n].mac \in On(band)
<1>1. IsFiniteSet(On(band))
  BY FS_Subset DEF On, StationsAssumption
<1>2. Cardinality(On(band)) \in Nat
  BY <1>1, FS_CardinalityType
<1> DEFINE size == Cardinality(On(band))
<1> HIDE DEF size
<1>3. t \in [1 .. size -> [mac : On(band), band : {band}]]
  BY DEF Tables, size
<1>4. size \in Nat
  BY <1>2 DEF size
<1>5. t \in Seq([mac : On(band), band : {band}]) /\ Len(t) = size
  <2> DEFINE entry == [mac : On(band), band : {band}]
  <2>1. t \in [1 .. size -> entry]
    BY <1>3
  <2> HIDE DEF entry
  <2>2. t \in Seq(entry) /\ Len(t) = size
    BY <2>1, <1>4
  <2> QED BY <2>2 DEF entry
<1>6. On(band) \subseteq Mac
  BY DEF On
<1>7. \A n \in 1 .. Len(t) : t[n] \in [mac : On(band), band : {band}]
  BY <1>3, <1>5
<1>8. t \in Seq(Entries)
  <2>1. \A n \in 1 .. Len(t) : t[n] \in Entries
    BY <1>6, <1>7 DEF Entries
  <2> QED BY <1>3, <1>4, <1>5, <2>1
<1> QED BY <1>7, <1>8

LEMMA ReadType ==
  ASSUME StationsAssumption, TypeOK, NEW band \in Bands, NEW before \in Seq(Entries),
         NEW doubts \in SUBSET Mac, Read(band, before, doubts)
  PROVE  list' \in Seq(Entries) /\ unsure' \in SUBSET Mac /\ doubts \subseteq unsure'
<1>1. CASE \E t \in Tables(band) : list' = before \o t /\ unsure' = doubts
  <2>1. PICK t \in Tables(band) : list' = before \o t /\ unsure' = doubts
    BY <1>1
  <2>2. t \in Seq(Entries)
    BY TablesType
  <2> QED BY <2>1, <2>2
<1>2. CASE list' = before /\ unsure' = doubts \cup On(band)
  BY <1>2 DEF On
<1> QED BY <1>1, <1>2 DEF Read

\* What is read next puts its own stations behind those listed before, and
\* those only.
LEMMA ReadOnce ==
  ASSUME StationsAssumption, TypeOK, NEW band \in Bands, NEW before \in Seq(Entries),
         NEW doubts \in SUBSET Mac, Read(band, before, doubts),
         NEW bands \in SUBSET Bands, band \notin bands,
         NEW m \in Mac \ unsure', Once(m, before, bands)
  PROVE  Once(m, list', bands \cup {band})
<1>1. CASE \E t \in Tables(band) : list' = before \o t /\ unsure' = doubts
  <2>1. PICK t \in Tables(band) : list' = before \o t /\ unsure' = doubts
    BY <1>1
  <2>2. t \in Seq(Entries) /\ \A n \in 1 .. Len(t) : t[n].band = band /\ t[n].mac \in On(band)
    BY TablesType
  <2> DEFINE l == before \o t
  <2>3. /\ Len(l) = Len(before) + Len(t) /\ Len(before) \in Nat /\ Len(t) \in Nat
        /\ \A i \in 1 .. Len(before) : l[i] = before[i]
        /\ \A i \in 1 .. Len(t) : l[Len(before) + i] = t[i]
    BY <2>2
  <2>4. \A i \in 1 .. Len(l) : i \in 1 .. Len(before) \/ i - Len(before) \in 1 .. Len(t)
    BY <2>3
  <2>5. \A i \in 1 .. Len(l) : i \notin 1 .. Len(before) => l[i] = t[i - Len(before)]
    <3> SUFFICES ASSUME NEW i \in 1 .. Len(l), i \notin 1 .. Len(before)
                 PROVE  l[i] = t[i - Len(before)]
      OBVIOUS
    <3>1. i - Len(before) \in 1 .. Len(t)
      BY <2>4
    <3>2. Len(before) + (i - Len(before)) = i
      BY <2>3
    <3> QED BY <2>3, <3>1, <3>2
  <2> HIDE DEF l
  <2>6. CASE radio[m] = band
    <3>1. m \in On(band) /\ radio[m] \notin bands
      BY <2>6 DEF On
    <3>2. \A i \in 1 .. Len(before) : before[i].mac # m
      BY <3>1 DEF Once
    <3>3. DOMAIN t = 1 .. Len(t)
      BY <2>2
    <3>4. PICK n \in 1 .. Len(t) : \A i \in 1 .. Len(t) : t[i].mac = m <=> i = n
      <4>1. \A x \in On(band) : \E n \in DOMAIN t : \A i \in DOMAIN t : t[i].mac = x <=> i = n
        BY Zenon DEF Tables
      <4> QED BY <3>1, <3>3, <4>1
    <3>5. Len(before) + n \in 1 .. Len(l) /\ l[Len(before) + n].band = band
      BY <2>2, <2>3
    <3>6. ASSUME NEW i \in 1 .. Len(l) PROVE l[i].mac = m <=> i = Len(before) + n
      <4>1. CASE i \in 1 .. Len(before)
        <5>1. l[i].mac # m
          BY <4>1, <2>3, <3>2
        <5>2. i # Len(before) + n
          BY <4>1, <2>3
        <5> QED BY <5>1, <5>2
      <4>2. CASE i \notin 1 .. Len(before)
        <5>1. i - Len(before) \in 1 .. Len(t) /\ l[i] = t[i - Len(before)]
          BY <4>2, <2>4, <2>5
        <5>2. (i - Len(before) = n) <=> (i = Len(before) + n)
          BY <2>3
        <5> QED BY <5>1, <5>2, <3>4
      <4> QED BY <4>1, <4>2
    <3> QED BY <2>1, <2>6, <3>5, <3>6 DEF Once, l
  <2>7. CASE radio[m] # band
    <3>1. \A n \in 1 .. Len(t) : t[n].mac # m
      BY <2>2, <2>7 DEF On
    <3>2. ASSUME NEW i \in 1 .. Len(l), i \notin 1 .. Len(before) PROVE l[i].mac # m
      BY <3>1, <3>2, <2>4, <2>5
    <3>3. CASE radio[m] \in bands
      <4>1. PICK n \in 1 .. Len(before) : /\ before[n].band = radio[m]
              /\ \A i \in 1 .. Len(before) : before[i].mac = m <=> i = n
        BY <3>3 DEF Once
      <4>2. n \in 1 .. Len(l) /\ l[n].band = radio[m]
        BY <4>1, <2>3
      <4>3. \A i \in 1 .. Len(l) : l[i].mac = m <=> i = n
        BY <4>1, <3>2, <2>3
      <4> QED BY <2>1, <3>3, <4>2, <4>3 DEF Once, l
    <3>4. CASE radio[m] \notin bands
      <4>1. \A i \in 1 .. Len(l) : l[i].mac # m
        BY <3>2, <3>4, <2>3 DEF Once
      <4> QED BY <2>1, <2>7, <3>4, <4>1 DEF Once, l
    <3> QED BY <3>3, <3>4
  <2> QED BY <2>6, <2>7
<1>2. CASE list' = before /\ unsure' = doubts \cup On(band)
  <2>1. radio[m] # band
    BY <1>2 DEF On
  <2> QED BY <1>2, <2>1 DEF Once
<1> QED BY <1>1, <1>2 DEF Read

LEMMA TablesApart ==
  ASSUME StationsAssumption, TypeOK, NEW band \in Bands, NEW t \in Tables(band)
  PROVE  Apart(t)
<1> SUFFICES ASSUME NEW i \in 1 .. Len(t), NEW j \in 1 .. Len(t), t[i].mac = t[j].mac
             PROVE  i = j
  BY DEF Apart
<1>1. t \in Seq(Entries) /\ t[i].mac \in On(band)
  BY TablesType
<1>2. DOMAIN t = 1 .. Len(t)
  BY <1>1
<1>3. \A x \in On(band) : \E n \in DOMAIN t : \A k \in DOMAIN t : t[k].mac = x <=> k = n
  BY Zenon DEF Tables
<1> QED BY <1>1, <1>2, <1>3

LEMMA ReadApart ==
  ASSUME StationsAssumption, TypeOK, NEW band \in Bands, NEW before \in Seq(Entries),
         NEW doubts \in SUBSET Mac, Read(band, before, doubts),
         NEW bands \in SUBSET Bands, band \notin bands, Apart(before),
         \A i \in 1 .. Len(before) : before[i].band \in bands
  PROVE  Apart(list') /\ \A i \in 1 .. Len(list') : list'[i].band \in bands \cup {band}
<1>1. CASE \E t \in Tables(band) : list' = before \o t /\ unsure' = doubts
  <2>1. PICK t \in Tables(band) : list' = before \o t
    BY <1>1
  <2>2. t \in Seq(Entries) /\ Apart(t) /\ \A n \in 1 .. Len(t) : t[n].band = band
    BY TablesType, TablesApart
  <2> DEFINE l == before \o t
             size == Len(before)
  <2>3. /\ Len(l) = size + Len(t) /\ size \in Nat /\ Len(t) \in Nat
        /\ \A i \in 1 .. size : l[i] = before[i]
        /\ \A i \in 1 .. Len(t) : l[size + i] = t[i]
    BY <2>2
  <2>4. ASSUME NEW i \in 1 .. Len(l), i \notin 1 .. size
        PROVE  i - size \in 1 .. Len(t) /\ l[i] = t[i - size] /\ l[i].band = band
    <3>1. i - size \in 1 .. Len(t) /\ size + (i - size) = i
      BY <2>3, <2>4
    <3> HIDE DEF l, size
    <3> QED BY <2>2, <2>3, <3>1
  <2>5. ASSUME NEW i \in 1 .. Len(l), i \in 1 .. size
        PROVE  l[i] = before[i] /\ l[i].band \in bands
    BY <2>3, <2>5
  <2> HIDE DEF l, size
  <2>6. ASSUME NEW i \in 1 .. Len(l) PROVE l[i].band \in bands \cup {band}
    BY <2>4, <2>5
  <2>7. ASSUME NEW i \in 1 .. Len(l), NEW j \in 1 .. Len(l),
               l[i].mac = l[j].mac, l[i].band = l[j].band
        PROVE  i = j
    <3>1. CASE i \in 1 .. size
      <4>1. l[i].band # band
        BY <2>5, <3>1
      <4>2. j \in 1 .. size
        BY <2>4, <2>7, <4>1
      <4>3. before[i].mac = before[j].mac /\ before[i].band = before[j].band
        BY <2>5, <2>7, <3>1, <4>2
      <4> QED BY <3>1, <4>2, <4>3 DEF Apart, size
    <3>2. CASE i \notin 1 .. size
      <4>1. l[i].band = band
        BY <2>4, <3>2
      <4>2. j \notin 1 .. size
        BY <2>5, <2>7, <4>1
      <4>3. /\ i - size \in 1 .. Len(t) /\ j - size \in 1 .. Len(t)
            /\ t[i - size].mac = t[j - size].mac /\ t[i - size].band = t[j - size].band
        BY <2>4, <2>7, <3>2, <4>2
      <4>4. i - size = j - size
        BY <2>2, <4>3 DEF Apart
      <4> QED BY <2>3, <4>4
    <3> QED BY <3>1, <3>2
  <2> QED BY <2>1, <2>6, <2>7 DEF Apart, l
<1>2. CASE list' = before
  BY <1>2
<1> QED BY <1>1, <1>2 DEF Read

-----------------------------------------------------------------------------
(* The invariant.                                                          *)

LEMMA StationsInit == ASSUME Init PROVE StationsInv
<1>1. <<>> \in Seq(Entries)
  OBVIOUS
<1> QED BY <1>1 DEF Init, StationsInv, TypeOK, ListInv, RowsInv, AnswerInv, RaisedInv

LEMMA StationsNext == ASSUME StationsAssumption, StationsInv, [Next]_vars PROVE StationsInv'
<1> USE DEF StationsInv
<1>1. ASSUME NEW m \in Mac, Move(m) PROVE StationsInv'
  <2>1. TypeOK'
    BY <1>1 DEF Move, TypeOK
  <2>2. ListInv'
    <3> SUFFICES ASSUME pc' # "idle", NEW x \in Mac \ unsure' PROVE Once(x, list, Seen)'
      BY DEF ListInv
    <3>1. x \in Mac \ unsure /\ x # m /\ radio'[x] = radio[x] /\ pc # "idle"
      BY <1>1 DEF Move, TypeOK
    <3>2. Once(x, list, Seen)
      BY <3>1 DEF ListInv
    <3> QED BY <1>1, <3>1, <3>2 DEF Move, Once, Seen
  <2>3. RowsInv'
    BY <1>1 DEF Move, RowsInv, Apart, Seen
  <2> QED BY <1>1, <2>1, <2>2, <2>3 DEF Move, AnswerInv, RaisedInv, Kept, Sparse
<1>2. ASSUME NEW macs \in SUBSET Mac, GetRssiInfo(macs) PROVE StationsInv'
  <2>1. Read("2.4G", <<>>, {}) /\ <<>> \in Seq(Entries) /\ "2.4G" \in Bands
    BY <1>2 DEF GetRssiInfo, Bands
  <2>2. list' \in Seq(Entries) /\ unsure' \in SUBSET Mac
    <3>1. {} \in SUBSET Mac /\ TypeOK
      OBVIOUS
    <3> QED BY <2>1, <3>1, ReadType
  <2>3. TypeOK'
    BY <1>2, <2>2 DEF GetRssiInfo, TypeOK
  <2>4. ListInv'
    <3> SUFFICES ASSUME NEW x \in Mac \ unsure' PROVE Once(x, list, Seen)'
      BY DEF ListInv
    <3>1. Once(x, <<>>, {})
      BY DEF Once
    <3>2. Once(x, list', {} \cup {"2.4G"})
      BY <2>1, <3>1, ReadOnce
    <3>3. {} \cup {"2.4G"} = {"2.4G"}
      OBVIOUS
    <3>4. Seen' = {"2.4G"} /\ radio' = radio
      BY <1>2 DEF GetRssiInfo, Seen
    <3> QED BY <3>2, <3>3, <3>4 DEF Once
  <2>5. RowsInv'
    <3>1. {} \in SUBSET Bands /\ {} \in SUBSET Mac /\ TypeOK /\ "2.4G" \notin {}
      OBVIOUS
    <3>2. Apart(<<>>) /\ \A i \in 1 .. Len(<<>>) : <<>>[i].band \in {}
      BY DEF Apart
    <3>3. Apart(list') /\ \A i \in 1 .. Len(list') : list'[i].band \in {} \cup {"2.4G"}
      BY <2>1, <3>1, <3>2, ReadApart
    <3>4. Seen' = {"2.4G"}
      BY <1>2 DEF GetRssiInfo, Seen
    <3> QED BY <3>3, <3>4 DEF RowsInv, Apart
  <2> QED BY <1>2, <2>3, <2>4, <2>5 DEF GetRssiInfo, AnswerInv, RaisedInv
<1>3. CASE ReadSecond
  <2>1. Read("5G", list, unsure) /\ list \in Seq(Entries) /\ "5G" \in Bands /\ unsure \in SUBSET Mac
    BY <1>3 DEF ReadSecond, Bands, TypeOK
  <2>2. list' \in Seq(Entries) /\ unsure' \in SUBSET Mac /\ unsure \subseteq unsure'
    BY <2>1, ReadType
  <2>3. TypeOK'
    BY <1>3, <2>2 DEF ReadSecond, TypeOK
  <2>4. ListInv'
    <3> SUFFICES ASSUME NEW x \in Mac \ unsure' PROVE Once(x, list, Seen)'
      BY DEF ListInv
    <3>1. Once(x, list, {"2.4G"})
      BY <1>3, <2>2 DEF ListInv, ReadSecond, Seen
    <3>2. {"2.4G"} \in SUBSET Bands /\ "5G" \notin {"2.4G"}
      BY DEF Bands
    <3>3. Once(x, list', {"2.4G"} \cup {"5G"})
      BY <2>1, <3>1, <3>2, ReadOnce
    <3>4. {"2.4G"} \cup {"5G"} = Bands
      BY DEF Bands
    <3>5. Seen' = Bands /\ radio' = radio
      BY <1>3 DEF ReadSecond, Seen, Bands
    <3> QED BY <3>3, <3>4, <3>5 DEF Once
  <2>5. RowsInv'
    <3>1. {"2.4G"} \in SUBSET Bands /\ "5G" \notin {"2.4G"}
      BY DEF Bands
    <3>2. Apart(list) /\ \A i \in 1 .. Len(list) : list[i].band \in {"2.4G"}
      BY <1>3 DEF RowsInv, ReadSecond, Seen
    <3>3. /\ Apart(list')
          /\ \A i \in 1 .. Len(list') : list'[i].band \in {"2.4G"} \cup {"5G"}
      BY <2>1, <3>1, <3>2, ReadApart
    <3>4. {"2.4G"} \cup {"5G"} = Bands /\ Seen' = Bands
      BY <1>3 DEF Bands, ReadSecond, Seen
    <3> QED BY <3>3, <3>4 DEF RowsInv, Apart
  <2> QED BY <1>3, <2>3, <2>4, <2>5 DEF ReadSecond, AnswerInv, RaisedInv
<1>4. CASE Encode
  <2>1. TypeOK'
    BY <1>4 DEF Encode, TypeOK
  <2>2. ListInv'
    BY <1>4 DEF Encode, ListInv, Once, Seen
  <2>3. answer' = Kept /\ Kept' = Kept /\ pc' = (IF Sparse(answer') THEN "raised" ELSE "answered")
    BY <1>4 DEF Encode, Kept
  <2>4. RaisedInv'
    BY <2>3 DEF RaisedInv, Sparse
  <2>5. RowsInv'
    BY <1>4 DEF Encode, RowsInv, Apart, Seen
  <2> QED BY <2>1, <2>2, <2>3, <2>4, <2>5 DEF AnswerInv
<1>5. CASE UNCHANGED vars
  BY <1>5 DEF vars, TypeOK, ListInv, RowsInv, Apart, Once, Seen, AnswerInv, RaisedInv, Kept, Sparse
<1> QED BY <1>1, <1>2, <1>3, <1>4, <1>5 DEF Next

LEMMA StationsInvHolds == Spec => []StationsInv
<1>1. Init => StationsInv
  BY StationsInit
<1>2. StationsInv /\ [Next]_vars => StationsInv'
  BY StationsNext, StationsAssumption
<1> QED BY <1>1, <1>2, PTL DEF Spec

-----------------------------------------------------------------------------
(* What is told.                                                           *)

\* Whoever moves, joins or leaves while the radios are read: a station that
\* does not is in the answer exactly if it is connected and asked about, once
\* and with its radio (wifista.c:144-156, get.lua:90-104).
THEOREM ToldOnce == Spec => []AskedOnce
<1>1. ASSUME StationsInv, pc = "answered" PROVE AskedOnce
  <2>1. /\ answer = Kept /\ list \in Seq(Entries) /\ Seen = Bands
        /\ radio \in [Mac -> Bands \cup {"none"}] /\ asked \subseteq Mac
        /\ \A m \in Mac \ unsure : Once(m, list, Bands)
    BY <1>1 DEF StationsInv, TypeOK, ListInv, AnswerInv, Seen
  <2>2. /\ DOMAIN answer = {i \in 1 .. Len(list) : list[i].mac \in asked}
        /\ \A n \in DOMAIN answer : answer[n] = list[n]
    BY <2>1 DEF Kept
  <2>3. \A n \in DOMAIN answer : answer[n].mac \in asked
    BY <2>2
  <2>4. ASSUME NEW m \in asked \ unsure
        PROVE  LET places == {n \in DOMAIN answer : answer[n].mac = m} IN
               IF radio[m] = "none" THEN places = {}
               ELSE \E n \in places : places = {n} /\ answer[n].band = radio[m]
    <3> DEFINE places == {n \in DOMAIN answer : answer[n].mac = m}
    <3>1. m \in Mac /\ Once(m, list, Bands)
      BY <2>1
    <3>2. places = {n \in 1 .. Len(list) : list[n].mac = m}
      BY <2>2
    <3>3. CASE radio[m] = "none"
      <4>1. radio[m] \notin Bands
        BY <3>3 DEF Bands
      <4>2. places = {}
        BY <3>1, <3>2, <4>1 DEF Once
      <4> QED BY <3>3, <4>2
    <3>4. CASE radio[m] # "none"
      <4>1. radio[m] \in Bands
        BY <2>1, <3>1, <3>4
      <4>2. PICK n \in 1 .. Len(list) :
              list[n].band = radio[m] /\ \A i \in 1 .. Len(list) : list[i].mac = m <=> i = n
        BY <3>1, <4>1 DEF Once
      <4>3. places = {n} /\ n \in DOMAIN answer
        BY <3>2, <4>2
      <4>4. answer[n].band = radio[m]
        BY <2>2, <4>2, <4>3
      <4> QED BY <3>4, <4>3, <4>4
    <3> QED BY <3>3, <3>4
  <2> QED BY <2>3, <2>4 DEF AskedOnce
<1>2. StationsInv => AskedOnce
  BY <1>1 DEF AskedOnce
<1> QED BY <1>2, StationsInvHolds, PTL

\* What is listed: one row for each station that stays, two at most for any
\* other.
LEMMA RowsBounded ==
  ASSUME StationsAssumption, StationsInv, Seen = Bands, pc # "idle"
  PROVE  LET settled == {m \in Mac \ unsure : radio[m] # "none"} IN
         Len(list) <= Cardinality(settled) + 2 * Cardinality(unsure)
<1> DEFINE settled == {m \in Mac \ unsure : radio[m] # "none"}
           firm    == {p \in settled \X Bands : p[2] = radio[p[1]]}
           loose   == unsure \X Bands
           rows    == 1 .. Len(list)
<1>1. /\ list \in Seq(Entries) /\ Apart(list) /\ unsure \in SUBSET Mac
      /\ radio \in [Mac -> Bands \cup {"none"}]
      /\ \A m \in Mac \ unsure : Once(m, list, Bands)
  BY DEF StationsInv, TypeOK, RowsInv, ListInv
<1>2. /\ IsFiniteSet(settled) /\ Cardinality(settled) \in Nat
      /\ IsFiniteSet(unsure) /\ Cardinality(unsure) \in Nat
  <2>1. settled \in SUBSET Mac
    OBVIOUS
  <2>2. IsFiniteSet(settled) /\ IsFiniteSet(unsure)
    BY <1>1, <2>1, FS_Subset, StationsAssumption DEF StationsAssumption
  <2> QED BY <2>2, FS_CardinalityType
<1>3. IsFiniteSet(Bands) /\ Cardinality(Bands) = 2
  <2>1. IsFiniteSet({"5G"}) /\ Cardinality({"5G"}) = 1
    BY FS_Singleton
  <2>2. "2.4G" \notin {"5G"} /\ Bands = {"5G"} \cup {"2.4G"}
    BY DEF Bands
  <2>3. /\ IsFiniteSet({"5G"} \cup {"2.4G"})
        /\ Cardinality({"5G"} \cup {"2.4G"}) = Cardinality({"5G"}) + 1
    BY <2>1, <2>2, FS_AddElement
  <2> QED BY <2>1, <2>2, <2>3
<1>4. /\ IsFiniteSet(loose) /\ Cardinality(loose) \in Nat
      /\ Cardinality(loose) = 2 * Cardinality(unsure)
  <2>1. IsFiniteSet(loose) /\ Cardinality(loose) = Cardinality(unsure) * Cardinality(Bands)
    BY <1>2, <1>3, FS_Product
  <2> DEFINE n == Cardinality(unsure)
  <2>2. n \in Nat
    BY <1>2
  <2> HIDE DEF n
  <2>3. n * 2 = 2 * n /\ 2 * n \in Nat
    BY <2>2
  <2> QED BY <1>3, <2>1, <2>3 DEF n
<1>5. /\ IsFiniteSet(firm) /\ Cardinality(firm) \in Nat
      /\ Cardinality(firm) <= Cardinality(settled)
  <2> DEFINE of == [p \in firm |-> p[1]]
  <2>1. of \in [firm -> settled]
    OBVIOUS
  <2>2. ASSUME NEW p \in firm, NEW q \in firm, of[p] = of[q] PROVE p = q
    BY <2>2
  <2>3. of \in Injection(firm, settled)
    BY <2>1, <2>2 DEF Injection, IsInjective
  <2>4. IsFiniteSet(firm) /\ Cardinality(firm) <= Cardinality(settled)
    BY <1>2, <2>3, FS_Injection
  <2> QED BY <2>4, FS_CardinalityType
<1>6. /\ IsFiniteSet(firm \cup loose)
      /\ Cardinality(firm \cup loose) <= Cardinality(firm) + Cardinality(loose)
      /\ Cardinality(firm \cup loose) \in Nat
  <2>1. /\ IsFiniteSet(firm \cup loose)
        /\ Cardinality(firm \cup loose) =
             Cardinality(firm) + Cardinality(loose) - Cardinality(firm \cap loose)
    BY <1>4, <1>5, FS_Union
  <2>2. IsFiniteSet(firm \cap loose)
    BY <1>5, FS_Intersection
  <2>3. Cardinality(firm \cap loose) \in Nat /\ Cardinality(firm \cup loose) \in Nat
    BY <2>1, <2>2, FS_CardinalityType
  <2> HIDE DEF firm, loose
  <2> QED BY <1>4, <1>5, <2>1, <2>3
<1>7. ASSUME NEW n \in rows
      PROVE  <<list[n].mac, list[n].band>> \in firm \cup loose
  <2>1. list[n] \in Entries
    BY <1>1
  <2>2. list[n].mac \in Mac /\ list[n].band \in Bands
    BY <2>1 DEF Entries
  <2>3. CASE list[n].mac \in unsure
    BY <2>2, <2>3
  <2>4. CASE list[n].mac \notin unsure
    <3> DEFINE m == list[n].mac
    <3>1. Once(m, list, Bands)
      BY <1>1, <2>2, <2>4
    <3>2. radio[m] \in Bands
      BY <3>1 DEF Once
    <3>3. PICK k \in rows :
            list[k].band = radio[m] /\ \A i \in rows : list[i].mac = m <=> i = k
      BY <3>1, <3>2 DEF Once
    <3>4. list[n].band = radio[m]
      BY <3>3
    <3>5. radio[m] # "none"
      BY <3>2 DEF Bands
    <3> QED BY <2>2, <2>4, <3>4, <3>5
  <2> QED BY <2>3, <2>4
<1> DEFINE row == [n \in rows |-> <<list[n].mac, list[n].band>>]
<1>8. row \in Injection(rows, firm \cup loose)
  <2>1. row \in [rows -> firm \cup loose]
    BY <1>7
  <2>2. ASSUME NEW i \in rows, NEW j \in rows, row[i] = row[j] PROVE i = j
    BY <1>1, <2>2 DEF Apart
  <2> HIDE DEF row
  <2> QED BY <2>1, <2>2 DEF Injection, IsInjective
<1>9. Cardinality(rows) <= Cardinality(firm \cup loose)
  BY <1>6, <1>8, FS_Injection
<1>10. Len(list) \in Nat /\ Cardinality(rows) = Len(list)
  <2>1. Len(list) \in Nat
    BY <1>1
  <2>2. Cardinality(rows) = IF 1 > Len(list) THEN 0 ELSE Len(list) - 1 + 1
    BY <2>1, FS_Interval
  <2> QED BY <2>1, <2>2
<1> HIDE DEF settled, firm, loose, rows
<1> QED BY <1>2, <1>4, <1>5, <1>6, <1>9, <1>10 DEF settled

\* Every station that stays and is asked about has a place in the answer.
LEMMA AnswerLarge ==
  ASSUME StationsAssumption, StationsInv, pc = "raised"
  PROVE  LET settled == {m \in Mac \ unsure : radio[m] # "none"} IN
         /\ Cardinality(settled \cap asked) \in Nat /\ Cardinality(DOMAIN answer) \in Nat
         /\ Cardinality(settled \cap asked) <= Cardinality(DOMAIN answer)
<1> DEFINE settled == {m \in Mac \ unsure : radio[m] # "none"}
           known   == settled \cap asked
           places  == DOMAIN answer
<1>1. /\ answer = Kept /\ list \in Seq(Entries) /\ asked \subseteq Mac
      /\ radio \in [Mac -> Bands \cup {"none"}]
      /\ \A m \in Mac \ unsure : Once(m, list, Bands)
  BY DEF StationsInv, TypeOK, ListInv, AnswerInv, Seen
<1>2. places = {i \in 1 .. Len(list) : list[i].mac \in asked}
  BY <1>1 DEF Kept
<1>3. IsFiniteSet(places)
  <2>1. Len(list) \in Nat
    BY <1>1
  <2>2. IsFiniteSet(1 .. Len(list))
    BY <2>1, FS_Interval
  <2>3. places \in SUBSET (1 .. Len(list))
    BY <1>2
  <2> QED BY <2>2, <2>3, FS_Subset
<1>4. ASSUME NEW m \in known PROVE \E n \in places : list[n].mac = m
  <2>1. Once(m, list, Bands) /\ radio[m] \in Bands
    BY <1>1
  <2>2. PICK n \in 1 .. Len(list) : \A i \in 1 .. Len(list) : list[i].mac = m <=> i = n
    BY <2>1 DEF Once
  <2> QED BY <1>2, <2>2
<1> DEFINE place == [m \in known |-> CHOOSE n \in places : list[n].mac = m]
<1> HIDE DEF places, known
<1>5. ASSUME NEW m \in known PROVE place[m] \in places /\ list[place[m]].mac = m
  BY <1>4
<1> HIDE DEF place
<1>6. place \in [known -> places]
  BY <1>5 DEF place
<1>7. place \in Injection(known, places)
  BY <1>5, <1>6 DEF Injection, IsInjective
<1>8. IsFiniteSet(known) /\ Cardinality(known) <= Cardinality(places)
  BY <1>3, <1>7, FS_Injection
<1>9. Cardinality(known) \in Nat /\ Cardinality(places) \in Nat
  BY <1>3, <1>8, FS_CardinalityType
<1> QED BY <1>8, <1>9 DEF known, places

\* For any number of stations and any way they move between the readings: a
\* gateway that asks about enough of them, or has few, does not lose its
\* session over the answer (wifista.c:144-240, lua_cjson.c:517-528).
THEOREM LostOverFewAsked == Spec => []RefusedWhenFewAsked
<1>1. ASSUME StationsInv, pc = "raised" PROVE RefusedWhenFewAsked
  <2> DEFINE settled == {m \in Mac \ unsure : radio[m] # "none"}
             most    == Cardinality(settled) + 2 * Cardinality(unsure)
             known   == Cardinality(settled \cap asked)
             size    == Cardinality(DOMAIN answer)
  <2>1. Seen = Bands /\ pc # "idle"
    BY <1>1 DEF Seen
  <2>2. Len(list) <= most
    BY <1>1, <2>1, RowsBounded, StationsAssumption
  <2>3. known \in Nat /\ size \in Nat /\ known <= size
    BY <1>1, AnswerLarge, StationsAssumption
  <2>4. answer = Kept /\ list \in Seq(Entries) /\ Sparse(answer)
    BY <1>1 DEF StationsInv, TypeOK, AnswerInv, RaisedInv
  <2>5. PICK n \in DOMAIN answer : n > size * Ratio /\ n > Safe
    BY <2>4 DEF Sparse
  <2>6. n \in 1 .. Len(list) /\ Len(list) \in Nat
    BY <2>4 DEF Kept
  <2>7. most \in Int
    <3>1. IsFiniteSet(settled) /\ IsFiniteSet(unsure)
      <4>1. settled \in SUBSET Mac /\ unsure \in SUBSET Mac
        BY <1>1 DEF StationsInv, TypeOK
      <4> QED BY <4>1, FS_Subset, StationsAssumption DEF StationsAssumption
    <3>2. Cardinality(settled) \in Nat /\ Cardinality(unsure) \in Nat
      BY <3>1, FS_CardinalityType
    <3> HIDE DEF settled
    <3> QED BY <3>2
  <2> HIDE DEF most, known, size
  <2>8. Ratio \in Nat /\ Safe \in Nat
    BY StationsAssumption DEF StationsAssumption
  <2>9. known * Ratio <= size * Ratio /\ known * Ratio = Ratio * known
    BY <2>3, <2>8
  <2>10. size * Ratio \in Int /\ Ratio * known \in Int
    BY <2>3, <2>8
  <2>11. most > Safe /\ most > Ratio * known
    BY <2>2, <2>5, <2>6, <2>7, <2>8, <2>9, <2>10
  <2> QED BY <2>11 DEF RefusedWhenFewAsked, most, known
<1>2. StationsInv => RefusedWhenFewAsked
  BY <1>1 DEF RefusedWhenFewAsked
<1> QED BY <1>2, StationsInvHolds, PTL
=============================================================================
