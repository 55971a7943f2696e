----------------------------- MODULE Wire_proofs -----------------------------
(***************************************************************************)
(* What the frames are made of, for every length of a string, of a key and *)
(* of a message.  Base 64: a string is its letters, and comes back from    *)
(* them.  Diffie-Hellman: the number gkey drew is the one gsecret works    *)
(* with, and both sides arrive at the same secret.  AES: every frame is    *)
(* the chain CBC defines, for every cipher, and opens as it was sealed,    *)
(* for every cipher its inverse undoes.                                    *)
(***************************************************************************)
EXTENDS MCDhKeys, AesCbc, FiniteSetTheorems, TLAPS

-----------------------------------------------------------------------------
(* Induction.  The library's theorems take a predicate; what follows takes *)
(* a set instead, and rests on the pigeonhole principle: a set that leaves *)
(* out k and is closed under + 1 leaves out k - 1, k - 2, ... as well, one  *)
(* number too many to fit below k.                                         *)

LEMMA NatSets ==
  ASSUME NEW S, 0 \in S, \A n \in Nat : n \in S => n + 1 \in S
  PROVE  Nat \subseteq S
<1> SUFFICES ASSUME NEW k \in Nat, k \notin S PROVE FALSE
  OBVIOUS
<1> DEFINE T == {n \in 0 .. k : n \notin S}
           f == [n \in T |-> n - 1]
<1>1. k \in T /\ T \subseteq 0 .. k
  OBVIOUS
<1>2. ASSUME NEW n \in T PROVE n - 1 \in T \ {k}
  <2>1. n \in 0 .. k /\ n \notin S /\ n # 0
    OBVIOUS
  <2>2. n - 1 \in Nat /\ n - 1 < k /\ (n - 1) + 1 = n
    BY <2>1
  <2>3. n - 1 \notin S
    BY <2>1, <2>2
  <2>. QED BY <2>2, <2>3
<1>3. f \in [T -> T \ {k}]
  BY <1>2
<1>4. \A m, n \in T : m # n => f[m] # f[n]
  OBVIOUS
<1> HIDE DEF T, f
<1>5. IsFiniteSet(T)
  <2>1. IsFiniteSet(0 .. k)
    BY FS_Interval
  <2>. QED BY <1>1, <2>1, FS_Subset
<1>6. Cardinality(T \ {k}) = Cardinality(T) - 1 /\ Cardinality(T) \in Nat /\ IsFiniteSet(T \ {k})
  BY <1>1, <1>5, FS_RemoveElement, FS_CardinalityType
<1>7. Cardinality(T \ {k}) < Cardinality(T)
  BY <1>6
<1>. QED BY <1>3, <1>4, <1>5, <1>6, <1>7, FS_PigeonHole

(* Recursion: the values of a function computed one from the one before.   *)
Steps(step, V) == step \in [Nat -> [V -> V]]

Runs(f, V, v0, step) ==
  f \in [Nat -> V] /\ f[0] = v0 /\ \A n \in Nat : f[n + 1] = step[n][f[n]]

LEMMA RecursionRuns ==
  ASSUME NEW V, NEW v0 \in V, NEW step, Steps(step, V)
  PROVE  \E f : Runs(f, V, v0, step)
<1>0. step \in [Nat -> [V -> V]]
  BY DEF Steps
<1> DEFINE Ok(n) == {f \in [0 .. n -> V] : f[0] = v0 /\ \A i \in 0 .. n - 1 : f[i + 1] = step[i][f[i]]}
           S == {n \in Nat : Ok(n) # {} /\ \A f, g \in Ok(n) : f[n] = g[n]}
<1>1. 0 \in S
  <2>1. [i \in 0 .. 0 |-> v0] \in Ok(0)
    OBVIOUS
  <2>2. \A f \in Ok(0) : f[0] = v0
    OBVIOUS
  <2>. QED BY <2>1, <2>2
<1>2. ASSUME NEW n \in Nat, NEW c \in Ok(n + 1)
      PROVE  [i \in 0 .. n |-> c[i]] \in Ok(n) /\ c[n + 1] = step[n][c[n]] /\ c[n] \in V
  BY <1>0
<1>3. ASSUME NEW n \in Nat, n \in S PROVE n + 1 \in S
  <2>1. PICK f \in Ok(n) : TRUE
    BY <1>3
  <2> DEFINE g == [i \in 0 .. n + 1 |-> IF i = n + 1 THEN step[n][f[n]] ELSE f[i]]
  <2>2. g \in Ok(n + 1)
    <3>1. g \in [0 .. n + 1 -> V]
      BY <1>0
    <3>2. g[0] = v0
      OBVIOUS
    <3>3. ASSUME NEW i \in 0 .. n PROVE g[i + 1] = step[i][g[i]]
      <4>1. CASE i = n
        BY <4>1
      <4>2. CASE i # n
        BY <4>2
      <4>. QED BY <4>1, <4>2
    <3>4. (n + 1) - 1 = n
      OBVIOUS
    <3>. QED BY <3>1, <3>2, <3>3, <3>4
  <2>3. ASSUME NEW a \in Ok(n + 1), NEW b \in Ok(n + 1) PROVE a[n + 1] = b[n + 1]
    <3> DEFINE r(c) == [i \in 0 .. n |-> c[i]]
    <3>1. r(a) \in Ok(n) /\ r(b) \in Ok(n)
      BY <1>2
    <3>2. r(a)[n] = r(b)[n]
      <4> HIDE DEF r, Ok
      <4>. QED BY <3>1, <1>3
    <3>3. a[n] = b[n]
      BY <3>2
    <3>4. a[n + 1] = step[n][a[n]] /\ b[n + 1] = step[n][b[n]]
      <4> HIDE DEF r, Ok
      <4>. QED BY <1>2
    <3>. QED BY <3>3, <3>4
  <2> HIDE DEF g, Ok
  <2>. QED BY <2>2, <2>3
<1> HIDE DEF S
<1>4. Nat \subseteq S
  BY <1>1, <1>3, NatSets
<1> DEFINE F == [i \in Nat |-> (CHOOSE f \in Ok(i) : TRUE)[i]]
<1>5. ASSUME NEW n \in Nat, NEW f \in Ok(n) PROVE F[n] = f[n]
  <2>1. (CHOOSE e \in Ok(n) : TRUE) \in Ok(n)
    BY <1>5
  <2> HIDE DEF Ok
  <2>2. n \in S
    BY <1>4
  <2>. QED BY <2>1, <2>2 DEF S
<1>6. ASSUME NEW n \in Nat PROVE F[n] \in V /\ F[n + 1] = step[n][F[n]]
  <2>0. n + 1 \in S
    BY <1>4
  <2>1. PICK f \in Ok(n + 1) : TRUE
    <3> HIDE DEF Ok
    <3>. QED BY <2>0 DEF S
  <2> DEFINE h == [i \in 0 .. n |-> f[i]]
  <2>2. h \in Ok(n) /\ f[n + 1] = step[n][f[n]] /\ f[n] \in V
    BY <1>2
  <2>3. h[n] = f[n]
    OBVIOUS
  <2> HIDE DEF Ok, F, h
  <2>4. F[n] = f[n] /\ F[n + 1] = f[n + 1]
    BY <1>5, <2>2, <2>3
  <2>. QED BY <2>2, <2>4
<1>7. F[0] = v0
  <2>0. 0 \in S
    BY <1>4
  <2>1. PICK f \in Ok(0) : TRUE
    <3> HIDE DEF Ok
    <3>. QED BY <2>0 DEF S
  <2>2. f[0] = v0
    OBVIOUS
  <2> HIDE DEF Ok, F
  <2>. QED BY <2>2, <1>5
<1>8. F \in [Nat -> V]
  <2> DEFINE fn(i) == (CHOOSE f \in Ok(i) : TRUE)[i]
  <2>1. F = [i \in Nat |-> fn(i)]
    OBVIOUS
  <2>2. \A n \in Nat : fn(n) = F[n]
    OBVIOUS
  <2> HIDE DEF F, fn
  <2>. QED BY <2>1, <2>2, <1>6
<1> HIDE DEF F
<1>9. Runs(F, V, v0, step)
  BY <1>6, <1>7, <1>8 DEF Runs
<1>. QED BY <1>9

-----------------------------------------------------------------------------
(* Division.                                                               *)

LEMMA DivisionType ==
  ASSUME NEW a \in Nat, NEW b \in Nat \ {0}
  PROVE  a \div b \in Nat /\ a % b \in 0 .. b - 1 /\ a % b = a - b * (a \div b)
  OBVIOUS

LEMMA DivisionUnique ==
  ASSUME NEW b \in Nat \ {0}, NEW q \in Nat, NEW r \in 0 .. b - 1
  PROVE  (b * q + r) \div b = q /\ (b * q + r) % b = r
  OBVIOUS

LEMMA DivisionExact ==
  ASSUME NEW b \in Nat \ {0}, NEW q \in Nat
  PROVE  (b * q) \div b = q /\ (b * q) % b = 0
<1>1. b * q + 0 = b * q /\ 0 \in 0 .. b - 1
  OBVIOUS
<1>2. (b * q + 0) \div b = q /\ (b * q + 0) % b = 0
  BY <1>1, DivisionUnique
<1>. QED BY <1>1, <1>2

LEMMA Multiple ==
  ASSUME NEW a \in Nat, NEW b \in Nat
  PROVE  a * b \in Nat
  OBVIOUS

LEMMA DivisionSplits ==
  ASSUME NEW a \in Nat, NEW b \in Nat \ {0}
  PROVE  a = b * (a \div b) + (a % b)
<1> DEFINE q == a \div b
           m == b * q
           r == a % b
<1>1. q \in Nat /\ r = a - m /\ r \in 0 .. b - 1
  BY DivisionType
<1> HIDE DEF q, r
<1>2. m \in Nat
  BY <1>1, Multiple
<1> HIDE DEF m
<1>3. a = m + r
  BY <1>1, <1>2
<1>. QED BY <1>3 DEF m, q, r

LEMMA DivDiv ==
  ASSUME NEW a \in Nat, NEW b \in Nat \ {0}, NEW c \in Nat \ {0}
  PROVE  (a \div b) \div c = a \div (b * c)
  OBVIOUS

LEMMA DivBelow ==
  ASSUME NEW a \in Nat, NEW b \in Nat \ {0}, NEW c \in Nat, a < b * c
  PROVE  a \div b < c
  OBVIOUS

LEMMA ModOfProduct ==
  ASSUME NEW a \in Nat, NEW b \in Nat, NEW p \in Nat \ {0}
  PROVE  ((a % p) * b) % p = (a * b) % p
<1> DEFINE q == a \div p
           r == a % p
           u == (r * b) \div p
           v == (r * b) % p
<1>1. q \in Nat /\ r \in Nat /\ a = p * q + r
  BY DivisionSplits, DivisionType
<1>2. r * b \in Nat
  BY <1>1, Multiple
<1>3. u \in Nat /\ v \in 0 .. p - 1 /\ r * b = p * u + v
  BY <1>2, DivisionSplits, DivisionType
<1> HIDE DEF q, r, u, v
<1>4. a * b = p * (q * b + u) + v
  <2>1. a * b = (p * q + r) * b
    BY <1>1
  <2>2. (p * q + r) * b = p * (q * b) + r * b
    BY <1>1
  <2>3. p * (q * b + u) = p * (q * b) + p * u
    BY <1>1, <1>3
  <2>. QED BY <2>1, <2>2, <2>3, <1>1, <1>2, <1>3
<1>5. q * b + u \in Nat
  BY <1>1, <1>3, Multiple
<1>6. (a * b) % p = v
  <2> DEFINE w == q * b + u
  <2>1. w \in Nat /\ a * b = p * w + v
    BY <1>4, <1>5
  <2> HIDE DEF w
  <2>. QED BY <2>1, <1>3, DivisionUnique
<1>. QED BY <1>6 DEF v, r

-----------------------------------------------------------------------------
(* Powers.                                                                 *)

LEMMA Powers ==
  ASSUME NEW b \in Nat \ {0}, NEW p,
         p = CHOOSE f : f = [n \in Nat |-> IF n = 0 THEN 1 ELSE f[n - 1] * b]
  PROVE  p[0] = 1 /\ \A n \in Nat : p[n] \in Nat \ {0} /\ p[n + 1] = p[n] * b
<1> DEFINE V == Nat \ {0}
           step == [n \in Nat |-> [x \in V |-> x * b]]
           Def(f) == f = [n \in Nat |-> IF n = 0 THEN 1 ELSE f[n - 1] * b]
<1>1. Steps(step, V)
  <2>1. \A x \in V : x * b \in V
    OBVIOUS
  <2>. QED BY <2>1 DEF Steps
<1>2. 1 \in V
  OBVIOUS
<1>3. PICK f : Runs(f, V, 1, step)
  <2> HIDE DEF V, step
  <2>. QED BY <1>1, <1>2, RecursionRuns
<1>4. f[0] = 1 /\ \A n \in Nat : f[n] \in V /\ f[n + 1] = f[n] * b
  BY <1>3 DEF Runs
<1>5. f = [n \in Nat |-> f[n]]
  BY <1>3 DEF Runs
<1>6. Def(f)
  <2>1. ASSUME NEW n \in Nat PROVE f[n] = IF n = 0 THEN 1 ELSE f[n - 1] * b
    <3>1. CASE n = 0
      BY <1>4, <3>1
    <3>2. CASE n # 0
      <4>1. n - 1 \in Nat /\ (n - 1) + 1 = n
        BY <3>2
      <4>. QED BY <1>4, <3>2, <4>1
    <3>. QED BY <3>1, <3>2
  <2>. QED BY <2>1, <1>5
<1>7. Def(p)
  <2>1. p = CHOOSE g : Def(g)
    OBVIOUS
  <2> HIDE DEF Def
  <2>. QED BY <2>1, <1>6
<1>8. p[0] = 1
  BY <1>7
<1>9. ASSUME NEW n \in Nat PROVE p[n + 1] = p[n] * b
  <2>1. n + 1 \in Nat /\ n + 1 # 0 /\ (n + 1) - 1 = n
    OBVIOUS
  <2>. QED BY <1>7, <2>1
<1>10. Nat \subseteq {n \in Nat : p[n] \in V}
  <2> DEFINE S == {n \in Nat : p[n] \in V}
  <2>1. 0 \in S
    BY <1>8
  <2>2. ASSUME NEW n \in Nat, n \in S PROVE n + 1 \in S
    BY <1>9, <2>2
  <2> HIDE DEF S
  <2>3. Nat \subseteq S
    BY <2>1, <2>2, NatSets
  <2>. QED BY <2>3 DEF S
<1>. QED BY <1>8, <1>9, <1>10

LEMMA ByteType ==
  /\ Byte \in Nat \ {0} /\ Char \in Nat \ {0} /\ Byte >= 16
  /\ \E d \in Nat \ {0, 1} : Byte = d * d * d * d /\ Char = d * d * d
<1>1. PICK d \in 2 .. Byte : Byte = d * d * d * d /\ Char = d * d * d
  BY Base64Assumption
<1>2. d \in Nat /\ d >= 2
  <2>1. d \in Int /\ d >= 2
    OBVIOUS
  <2>. QED BY <2>1
<1>3. d * d \in Nat /\ d * d >= 4
  BY <1>2
<1> DEFINE e == d * d
<1>4. Byte = e * e /\ Char = e * d
  BY <1>1, <1>2
<1>5. e * e \in Nat /\ e * e >= 16 /\ e * d \in Nat /\ e * d >= 4
  <2> HIDE DEF e
  <2>. QED BY <1>2, <1>3 DEF e
<1>. QED BY <1>1, <1>2, <1>4, <1>5

LEMMA SpanGrows ==
  Span[0] = 1 /\ \A n \in Nat : Span[n] \in Nat \ {0} /\ Span[n + 1] = Span[n] * Byte
<1>1. Span = CHOOSE f : f = [n \in Nat |-> IF n = 0 THEN 1 ELSE f[n - 1] * Byte]
  BY DEF Span
<1>2. Byte \in Nat \ {0}
  BY ByteType
<1>. QED BY <1>1, <1>2, Powers

LEMMA CharSpanGrows ==
  CharSpan[0] = 1
    /\ \A n \in Nat : CharSpan[n] \in Nat \ {0} /\ CharSpan[n + 1] = CharSpan[n] * Char
<1>1. CharSpan = CHOOSE f : f = [n \in Nat |-> IF n = 0 THEN 1 ELSE f[n - 1] * Char]
  BY DEF CharSpan
<1>2. Char \in Nat \ {0}
  BY ByteType
<1>. QED BY <1>1, <1>2, Powers

-----------------------------------------------------------------------------
(* Numbers and their bytes.                                                *)

\* BN_bin2bn is known when the numbers of all the prefixes are.
LEMMA NumberOfPrefixes ==
  ASSUME NEW str \in Seq(Nat), NEW v \in [0 .. Len(str) -> Nat], v[0] = 0,
         \A n \in 0 .. Len(str) - 1 : v[n + 1] = v[n] * Byte + str[n + 1]
  PROVE  BN_bin2bn(str) = v[Len(str)]
<1> DEFINE Def(f) == f = [n \in 0 .. Len(str) |-> IF n = 0 THEN 0 ELSE f[n - 1] * Byte + str[n]]
           num == CHOOSE f : Def(f)
<1>0. Len(str) \in Nat
  OBVIOUS
<1>1. Def(v)
  <2>1. ASSUME NEW n \in 0 .. Len(str) PROVE v[n] = IF n = 0 THEN 0 ELSE v[n - 1] * Byte + str[n]
    <3>1. CASE n = 0
      BY <3>1
    <3>2. CASE n # 0
      <4>1. n - 1 \in 0 .. Len(str) - 1 /\ (n - 1) + 1 = n
        BY <3>2, <1>0
      <4>. QED BY <3>2, <4>1
    <3>. QED BY <3>1, <3>2
  <2>. QED BY <2>1
<1>2. Def(num)
  <2> HIDE DEF Def
  <2>. QED BY <1>1
<1>3. BN_bin2bn(str) = num[Len(str)]
  BY DEF BN_bin2bn
<1> HIDE DEF num
<1> DEFINE S == {n \in Nat : n <= Len(str) => num[n] = v[n]}
<1>4. 0 \in S
  BY <1>2
<1>5. ASSUME NEW n \in Nat, n \in S PROVE n + 1 \in S
  <2> SUFFICES ASSUME n + 1 <= Len(str) PROVE num[n + 1] = v[n + 1]
    OBVIOUS
  <2>1. n + 1 \in 0 .. Len(str) /\ n + 1 # 0 /\ (n + 1) - 1 = n /\ n \in 0 .. Len(str) - 1
    BY <1>0
  <2>2. num[n] = v[n]
    BY <1>5, <1>0
  <2>3. num[n + 1] = num[n] * Byte + str[n + 1]
    BY <1>2, <2>1
  <2>. QED BY <2>1, <2>2, <2>3
<1> HIDE DEF S
<1>6. Nat \subseteq S
  BY <1>4, <1>5, NatSets
<1>. QED BY <1>0, <1>3, <1>6 DEF S

\* The number of the digits of a number.
LEMMA NumberOfDigits ==
  ASSUME NEW k \in Nat, NEW m \in Nat, m < Span[k], NEW str,
         str = [i \in 1 .. k |-> (m \div Span[k - i]) % Byte]
  PROVE  str \in Seq(0 .. Byte - 1) /\ Len(str) = k /\ BN_bin2bn(str) = m
<1> DEFINE v == [i \in 0 .. k |-> m \div Span[k - i]]
<1>0. Byte \in Nat \ {0}
  BY ByteType
<1>1. ASSUME NEW i \in 0 .. k PROVE m \div Span[k - i] \in Nat
  <2>1. k - i \in Nat
    OBVIOUS
  <2>2. Span[k - i] \in Nat \ {0}
    BY <2>1, SpanGrows
  <2>. QED BY <2>2, DivisionType
<1>2. ASSUME NEW i \in 1 .. k PROVE (m \div Span[k - i]) % Byte \in 0 .. Byte - 1
  <2> DEFINE q == m \div Span[k - i]
  <2>1. q \in Nat
    BY <1>1
  <2> HIDE DEF q
  <2>2. q % Byte \in 0 .. Byte - 1
    BY <1>0, <2>1, DivisionType
  <2>. QED BY <2>2 DEF q
<1>3. str \in Seq(0 .. Byte - 1) /\ str \in Seq(Nat) /\ Len(str) = k
  <2> DEFINE e(i) == (m \div Span[k - i]) % Byte
  <2>1. str = [i \in 1 .. k |-> e(i)] /\ \A i \in 1 .. k : e(i) \in 0 .. Byte - 1
    BY <1>2
  <2>2. 0 .. Byte - 1 \subseteq Nat
    BY <1>0
  <2> HIDE DEF e
  <2>. QED BY <2>1, <2>2
<1>4. v \in [0 .. k -> Nat]
  BY <1>1
<1>5. v[0] = 0
  <2>1. Span[k] \in Nat \ {0} /\ m < Span[k] * 1
    BY SpanGrows
  <2>2. m \div Span[k] < 1
    BY <2>1, DivBelow
  <2>3. m \div Span[k] = 0
    BY <2>1, <2>2, DivisionType
  <2>. QED BY <2>3
<1>6. v[k] = m
  <2>1. Span[k - k] = 1
    BY SpanGrows
  <2>. QED BY <2>1
<1>7. ASSUME NEW n \in 0 .. k - 1 PROVE v[n + 1] = v[n] * Byte + str[n + 1]
  <2> DEFINE w == Span[k - (n + 1)]
             a == m \div w
  <2>1. k - (n + 1) \in Nat /\ (k - (n + 1)) + 1 = k - n /\ n + 1 \in 1 .. k /\ n + 1 \in 0 .. k
        /\ n \in 0 .. k
    OBVIOUS
  <2>2. w \in Nat \ {0} /\ Span[k - n] = w * Byte
    BY <2>1, SpanGrows
  <2>3. a \in Nat
    BY <2>2, DivisionType
  <2>4. v[n] = a \div Byte
    BY <2>1, <2>2, <1>0, DivDiv
  <2>5. v[n + 1] = a /\ str[n + 1] = a % Byte
    BY <2>1
  <2> HIDE DEF a, w, v
  <2>6. a = Byte * (a \div Byte) + (a % Byte)
    BY <2>3, <1>0, DivisionSplits
  <2>7. a \div Byte \in Nat
    BY <2>3, <1>0, DivisionType
  <2>. QED BY <2>4, <2>5, <2>6, <2>7, <1>0
<1> HIDE DEF v
<1>. QED BY <1>3, <1>4, <1>5, <1>6, <1>7, NumberOfPrefixes

-----------------------------------------------------------------------------
(* Powers modulo P.                                                        *)

Times(a, b)  == (a * b) % P
PowerStep(b) == [n \in Nat |-> [x \in Nat |-> Times(x, b)]]
Power(b)     == CHOOSE f : Runs(f, Nat, 1, PowerStep(b))

LEMMA ModulusType == P \in Nat \ {0, 1} /\ G \in Nat /\ KeyLen \in Nat \ {0} /\ P - 2 >= 2
<1>1. Span[KeyLen - 1] \in Nat \ {0} /\ KeyLen \in Nat \ {0}
  <2>1. KeyLen - 1 \in Nat
    BY DhAssumption
  <2>. QED BY <2>1, SpanGrows, DhAssumption
<1>2. P \in Int
  BY DhAssumption
<1>. QED BY <1>1, <1>2, DhAssumption

LEMMA Swap ==
  ASSUME NEW a \in Nat, NEW b \in Nat, NEW c \in Nat
  PROVE  a * b = b * a /\ (a * b) * c = a * (b * c) /\ a * b \in Nat
  OBVIOUS

LEMMA ModTwice ==
  ASSUME NEW a \in Nat, NEW b \in Nat, NEW c \in Nat, NEW p \in Nat \ {0}
  PROVE  (((a * b) % p) * c) % p = ((a * b) * c) % p
<1> DEFINE x == a * b
<1>1. x \in Nat
  BY Multiple
<1> HIDE DEF x
<1>2. ((x % p) * c) % p = (x * c) % p
  BY <1>1, ModOfProduct
<1>. QED BY <1>2 DEF x

LEMMA TimesType ==
  ASSUME NEW a \in Nat, NEW b \in Nat
  PROVE  /\ Times(a, b) \in Nat /\ Times(a, b) \in 0 .. P - 1
         /\ Times(a, b) = Times(b, a)
         /\ a \in 0 .. P - 1 => Times(a, 1) = a
<1>1. P \in Nat \ {0}
  BY ModulusType
<1> DEFINE x == a * b
<1>2. x \in Nat
  BY Multiple
<1>3. a * b = b * a
  BY Swap
<1> HIDE DEF x
<1>4. x % P \in 0 .. P - 1 /\ x % P \in Nat
  BY <1>1, <1>2, DivisionType
<1>5. Times(a, b) = x % P /\ Times(b, a) = x % P
  BY <1>3 DEF Times, x
<1>6. ASSUME a \in 0 .. P - 1 PROVE Times(a, 1) = a
  <2>1. a * 1 = P * 0 + a
    BY <1>1
  <2>2. (P * 0 + a) % P = a
    BY <1>1, <1>6, DivisionUnique
  <2>. QED BY <2>1, <2>2 DEF Times
<1>. QED BY <1>4, <1>5, <1>6

LEMMA TimesTwice ==
  ASSUME NEW a \in Nat, NEW b \in Nat, NEW c \in Nat
  PROVE  Times(Times(a, b), c) = ((a * b) * c) % P
<1>1. P \in Nat \ {0}
  BY ModulusType
<1>2. \A p \in Nat \ {0} : (((a * b) % p) * c) % p = ((a * b) * c) % p
  BY ModTwice
<1>. QED BY <1>1, <1>2 DEF Times

LEMMA TimesAssociates ==
  ASSUME NEW a \in Nat, NEW b \in Nat, NEW c \in Nat
  PROVE  Times(Times(a, b), c) = Times(a, Times(b, c))
<1>1. P \in Nat \ {0}
  BY ModulusType
<1>0. /\ Times(Times(a, b), c) = ((a * b) * c) % P
      /\ Times(Times(b, c), a) = ((b * c) * a) % P
  BY TimesTwice
<1>4. (a * b) * c = (b * c) * a
  BY Swap
<1>5. Times(Times(a, b), c) = Times(Times(b, c), a)
  BY <1>0, <1>4
<1>6. Times(b, c) \in Nat
  BY TimesType
<1>. QED BY <1>5, <1>6, TimesType

LEMMA PowerStepRuns ==
  ASSUME NEW b \in Nat
  PROVE  Runs(Power(b), Nat, 1, PowerStep(b))
<1>1. Steps(PowerStep(b), Nat)
  BY TimesType DEF Steps, PowerStep
<1>2. \E f : Runs(f, Nat, 1, PowerStep(b))
  BY <1>1, RecursionRuns
<1>. QED BY <1>2 DEF Power

LEMMA PowerRuns ==
  ASSUME NEW b \in Nat
  PROVE  /\ Power(b)[0] = 1
         /\ \A n \in Nat : /\ Power(b)[n] \in Nat /\ Power(b)[n] \in 0 .. P - 1
                           /\ Power(b)[n + 1] = Times(Power(b)[n], b)
<1>1. Runs(Power(b), Nat, 1, PowerStep(b))
  BY PowerStepRuns
<1>2. Power(b) \in [Nat -> Nat] /\ Power(b)[0] = 1
  BY <1>1 DEF Runs
<1>3. ASSUME NEW n \in Nat PROVE Power(b)[n + 1] = Times(Power(b)[n], b)
  BY <1>1 DEF Runs, PowerStep
<1>4. ASSUME NEW n \in Nat PROVE Power(b)[n] \in 0 .. P - 1
  <2>0. 1 \in 0 .. P - 1
    BY ModulusType
  <2>1. CASE n = 0
    BY <2>0, <2>1, <1>2
  <2>2. CASE n # 0
    <3>1. n - 1 \in Nat /\ (n - 1) + 1 = n
      BY <2>2
    <3> DEFINE x == Power(b)[n - 1]
    <3>2. Power(b)[n] = Times(x, b)
      BY <3>1, <1>3
    <3>3. x \in Nat
      BY <3>1, <1>2
    <3> HIDE DEF x
    <3>4. Times(x, b) \in 0 .. P - 1
      BY <3>3, TimesType
    <3>. QED BY <3>2, <3>4
  <2>. QED BY <2>1, <2>2
<1>. QED BY <1>2, <1>3, <1>4

\* Exponents add up.
LEMMA PowerAdds ==
  ASSUME NEW b \in Nat, NEW m \in Nat, NEW n \in Nat
  PROVE  Power(b)[m + n] = Times(Power(b)[m], Power(b)[n])
<1> DEFINE f == Power(b)
           S == {k \in Nat : f[m + k] = Times(f[m], f[k])}
<1>1. f[0] = 1 /\ \A k \in Nat : f[k] \in Nat /\ f[k] \in 0 .. P - 1 /\ f[k + 1] = Times(f[k], b)
  BY PowerRuns
<1> HIDE DEF f
<1>2. 0 \in S
  <2>1. m + 0 = m
    OBVIOUS
  <2>2. f[m] \in Nat /\ f[m] \in 0 .. P - 1 /\ f[0] = 1
    BY <1>1
  <2>3. Times(f[m], 1) = f[m]
    BY <2>2, TimesType
  <2>. QED BY <2>1, <2>2, <2>3
<1>3. ASSUME NEW k \in Nat, k \in S PROVE k + 1 \in S
  <2>1. f[m + (k + 1)] = Times(f[m + k], b)
    <3>1. m + k \in Nat /\ (m + k) + 1 = m + (k + 1)
      OBVIOUS
    <3>. QED BY <3>1, <1>1
  <2>2. f[m] \in Nat /\ f[k] \in Nat /\ f[k + 1] = Times(f[k], b)
    BY <1>1
  <2>3. Times(Times(f[m], f[k]), b) = Times(f[m], Times(f[k], b))
    BY <2>2, TimesAssociates
  <2>. QED BY <1>3, <2>1, <2>2, <2>3
<1> HIDE DEF S
<1>4. Nat \subseteq S
  BY <1>2, <1>3, NatSets
<1>. QED BY <1>4 DEF S, f

\* Exponents multiply.
LEMMA PowerOfPower ==
  ASSUME NEW b \in Nat, NEW m \in Nat, NEW n \in Nat
  PROVE  Power(Power(b)[m])[n] = Power(b)[m * n]
<1> DEFINE c == Power(b)[m]
           S == {k \in Nat : Power(c)[k] = Power(b)[m * k]}
<1>1. c \in Nat
  BY PowerRuns
<1>2. 0 \in S
  <2>1. m * 0 = 0
    OBVIOUS
  <2>. QED BY <1>1, <2>1, PowerRuns
<1>3. ASSUME NEW k \in Nat, k \in S PROVE k + 1 \in S
  <2>1. m * (k + 1) = m * k + m /\ m * k \in Nat
    OBVIOUS
  <2>2. Power(c)[k + 1] = Times(Power(c)[k], c)
    BY <1>1, PowerRuns
  <2> DEFINE j == m * k
  <2> HIDE DEF j
  <2>3. Power(b)[j + m] = Times(Power(b)[j], c)
    BY <2>1, PowerAdds DEF j
  <2>. QED BY <1>3, <2>1, <2>2, <2>3 DEF j
<1> HIDE DEF S
<1>4. Nat \subseteq S
  BY <1>2, <1>3, NatSets
<1>. QED BY <1>4 DEF S

\* What a shared secret rests on.
LEMMA PowersCommute ==
  ASSUME NEW b \in Nat, NEW m \in Nat, NEW n \in Nat
  PROVE  Power(Power(b)[m])[n] = Power(Power(b)[n])[m]
<1>1. m * n = n * m
  BY Swap
<1>. QED BY <1>1, PowerOfPower

\* Squaring and multiplying comes to the same.
LEMMA ModExpIsPower ==
  ASSUME NEW b \in Nat, NEW e \in Nat
  PROVE  ModExp(b, e) = Power(b)[e]
<1> DEFINE Square(f, n) == Times(f[n \div 2], f[n \div 2])
           Def(f) == f = [n \in Nat |-> IF n = 0 THEN 1
                                        ELSE Times(Square(f, n), IF n % 2 = 1 THEN b ELSE 1)]
           pow == CHOOSE f : Def(f)
           q == Power(b)
<1>1. q[0] = 1 /\ \A n \in Nat : q[n] \in Nat /\ q[n] \in 0 .. P - 1 /\ q[n + 1] = Times(q[n], b)
  BY PowerRuns
<1>2. ASSUME NEW n \in Nat, n # 0
      PROVE  q[n] = Times(Square(q, n), IF n % 2 = 1 THEN b ELSE 1)
  <2> DEFINE i == n \div 2
  <2>1. i \in Nat /\ (n = i + i \/ n = (i + i) + 1) /\ (n % 2 = 1 <=> n = (i + i) + 1)
    OBVIOUS
  <2>2. q[i + i] = Square(q, n)
    BY <2>1, PowerAdds
  <2> HIDE DEF q, i, Square
  <2>3. i + i \in Nat
    BY <2>1
  <2>4. Times(q[i + i], 1) = q[i + i] /\ q[(i + i) + 1] = Times(q[i + i], b)
    BY <2>3, <1>1, TimesType
  <2>. QED BY <2>1, <2>2, <2>4
<1>3. Def(q)
  <2>1. q = [n \in Nat |-> q[n]]
    <3>1. Runs(q, Nat, 1, PowerStep(b))
      BY PowerStepRuns
    <3>. QED BY <3>1 DEF Runs
  <2> HIDE DEF q, Square
  <2>. QED BY <2>1, <1>1, <1>2
<1>4. Def(pow)
  <2> HIDE DEF Def
  <2>. QED BY <1>3
<1>5. ModExp(b, e) = pow[e]
  BY DEF ModExp, Times
<1> HIDE DEF pow, q
<1> DEFINE S == {n \in Nat : \A k \in 0 .. n : pow[k] = q[k]}
<1>6. 0 \in S
  <2>1. pow[0] = 1
    BY <1>4
  <2>. QED BY <2>1, <1>1
<1>7. ASSUME NEW n \in Nat, n \in S PROVE n + 1 \in S
  <2> DEFINE i == (n + 1) \div 2
  <2>1. n + 1 \in Nat /\ n + 1 # 0 /\ i \in 0 .. n
    OBVIOUS
  <2>2. pow[i] = q[i]
    BY <1>7, <2>1
  <2>3. pow[n + 1] = Times(Square(pow, n + 1), IF (n + 1) % 2 = 1 THEN b ELSE 1)
    BY <2>1, <1>4
  <2>4. pow[n + 1] = q[n + 1]
    BY <2>1, <2>2, <2>3, <1>2
  <2>. QED BY <2>4, <1>7
<1> HIDE DEF S
<1>8. Nat \subseteq S
  BY <1>6, <1>7, NatSets
<1>9. pow[e] = q[e]
  BY <1>8 DEF S
<1>. QED BY <1>5, <1>9 DEF q

-----------------------------------------------------------------------------
(* Strings of groups.                                                      *)

\* The place of the k-th element of a group after n whole ones.
LEMMA PlaceInGroup ==
  ASSUME NEW w \in Nat \ {0}, NEW n \in Nat, NEW k \in 1 .. w
  PROVE  /\ w * n + k \in Nat \ {0}
         /\ ((w * n + k) - 1) \div w = n /\ ((w * n + k) - 1) % w = k - 1
<1> DEFINE u == w * n
<1>1. u \in Nat
  BY Multiple
<1>2. k - 1 \in 0 .. w - 1
  OBVIOUS
<1>3. (w * n + (k - 1)) \div w = n /\ (w * n + (k - 1)) % w = k - 1
  BY <1>2, DivisionUnique
<1> HIDE DEF u
<1>4. (u + k) - 1 = u + (k - 1) /\ u + k \in Nat \ {0}
  BY <1>1
<1>. QED BY <1>3, <1>4 DEF u

LEMMA GroupOfPlace ==
  ASSUME NEW w \in Nat \ {0}, NEW n \in Nat, NEW j \in Nat \ {0}, j <= w * n
  PROVE  /\ (j - 1) \div w \in 0 .. n - 1 /\ ((j - 1) % w) + 1 \in 1 .. w
         /\ j = w * ((j - 1) \div w) + (((j - 1) % w) + 1)
<1> DEFINE i == j - 1
           a == i \div w
           r == i % w
<1>1. i \in Nat /\ j = i + 1 /\ i < w * n
  <2>1. w * n \in Nat
    BY Multiple
  <2>. QED BY <2>1
<1> HIDE DEF i
<1>2. a < n /\ a \in Nat /\ r \in 0 .. w - 1 /\ i = w * a + r
  <2>1. a < n
    BY <1>1, DivBelow
  <2>2. a \in Nat /\ r \in 0 .. w - 1
    BY <1>1, DivisionType
  <2>3. i = w * a + r
    BY <1>1, DivisionSplits
  <2>. QED BY <2>1, <2>2, <2>3
<1> HIDE DEF a, r
<1> DEFINE u == w * a
<1>3. u \in Nat
  BY <1>2, Multiple
<1> HIDE DEF u
<1>4. j = u + (r + 1)
  BY <1>1, <1>2, <1>3 DEF u
<1>. QED BY <1>2, <1>4 DEF a, r, i, u

\* The place in a string of the k-th element of its n-th group.
Place(w, n, k) == w * (n - 1) + k

\* f is the m sequences of q, of w elements each but for the last, one after
\* the other.
Joins(f, q, V, w, m) ==
  /\ f \in Seq(V) /\ Len(f) = Place(w, m, Len(q[m]))
  /\ \A n \in 1 .. m : \A k \in 1 .. Len(q[n]) : f[Place(w, n, k)] = q[n][k]

LEMMA EvenFlattened ==
  ASSUME NEW V, NEW w \in Nat \ {0}, NEW m \in Nat \ {0}, NEW q \in [1 .. m -> Seq(V)],
         \A n \in 1 .. m - 1 : Len(q[n]) = w, Len(q[m]) <= w
  PROVE  Joins(FlattenSeq(q), q, V, w, m)
<1> DEFINE at(j)  == q[((j - 1) \div w) + 1][((j - 1) % w) + 1]
           top(i) == w * (i - 1) + Len(q[i])
           g == [i \in 1 .. m |-> [j \in 1 .. top(i) |-> at(j)]]
           Def(f) == f = [i \in 1 .. Len(q) |-> IF i = 1 THEN q[i] ELSE f[i - 1] \o q[i]]
           flatten == CHOOSE f : Def(f)
<1>1. Len(q) = m /\ \A i \in 1 .. m : q[i] \in Seq(V) /\ Len(q[i]) \in 0 .. w
  <2>1. Len(q) = m
    OBVIOUS
  <2>2. ASSUME NEW i \in 1 .. m PROVE Len(q[i]) \in 0 .. w
    <3>1. Len(q[i]) \in Nat
      OBVIOUS
    <3>2. i = m \/ i \in 1 .. m - 1
      OBVIOUS
    <3>. QED BY <3>1, <3>2
  <2>. QED BY <2>1, <2>2
<1>2. ASSUME NEW i \in 1 .. m PROVE w * (i - 1) \in Nat /\ top(i) \in Nat
  <2>1. i - 1 \in Nat
    OBVIOUS
  <2>2. w * (i - 1) \in Nat
    BY <2>1, Multiple
  <2>. QED BY <2>2, <1>1
<1>3. ASSUME NEW i \in 1 .. m, NEW k \in 1 .. Len(q[i])
      PROVE  at(w * (i - 1) + k) = q[i][k]
  <2>1. k \in 1 .. w /\ i - 1 \in Nat /\ (i - 1) + 1 = i /\ (k - 1) + 1 = k
    BY <1>1
  <2> DEFINE a == i - 1
             j == w * a + k
  <2>2a. a \in Nat
    BY <2>1
  <2> HIDE DEF a
  <2>2b. (j - 1) \div w = a /\ (j - 1) % w = k - 1
    <3>1. \A x \in Nat, y \in 1 .. w :
            ((w * x + y) - 1) \div w = x /\ ((w * x + y) - 1) % w = y - 1
      BY PlaceInGroup
    <3>. QED BY <2>1, <2>2a, <3>1, Zenon
  <2> HIDE DEF j
  <2>2. (j - 1) \div w = i - 1 /\ (j - 1) % w = k - 1
    BY <2>2b DEF a
  <2>3. at(j) = q[i][k]
    BY <2>1, <2>2
  <2>. QED BY <2>3 DEF j, a
<1>4. ASSUME NEW i \in 1 .. m, NEW j \in 1 .. top(i)
      PROVE  at(j) \in V
  <2>1. j \in Nat \ {0} /\ top(i) <= w * i
    <3> DEFINE u == w * (i - 1)
    <3>1. w * i = u + w /\ u \in Nat
      BY <1>2
    <3> HIDE DEF u
    <3>2. top(i) = u + Len(q[i])
      BY DEF u
    <3>. QED BY <3>1, <3>2, <1>1
  <2>2. i \in Nat /\ j <= w * i
    BY <2>1, <1>2
  <2> DEFINE a == (j - 1) \div w
             r == (j - 1) % w
  <2>3. a \in 0 .. i - 1 /\ r + 1 \in 1 .. w /\ j = w * a + (r + 1)
    BY <2>1, <2>2, GroupOfPlace
  <2> HIDE DEF a, r
  <2>4. a + 1 \in 1 .. m /\ r + 1 \in 1 .. Len(q[a + 1])
    <3>1. CASE a = i - 1
      <4>1. a + 1 = i
        BY <3>1
      <4>2. w * (i - 1) + (r + 1) <= w * (i - 1) + Len(q[i])
        BY <3>1, <2>3
      <4>3. r + 1 <= Len(q[i])
        BY <4>2, <1>1, <1>2, <2>3
      <4>. QED BY <4>1, <4>3, <2>3, <1>1
    <3>2. CASE a # i - 1
      <4>1. a + 1 \in 1 .. m - 1
        BY <3>2, <2>3
      <4>. QED BY <4>1, <2>3
    <3>. QED BY <3>1, <3>2
  <2>5. q[a + 1][r + 1] \in V
    BY <2>4, <1>1
  <2>. QED BY <2>5 DEF a, r
<1>5. ASSUME NEW i \in 1 .. m, i # 1 PROVE g[i] = g[i - 1] \o q[i]
  <2>1. i - 1 \in 1 .. m /\ i - 1 \in 1 .. m - 1
    BY <1>5
  <2>2. Len(q[i - 1]) = w
    BY <2>1
  <2>3. top(i - 1) = w * (i - 1)
    <3>1. w * (i - 1) = w * ((i - 1) - 1) + w
      OBVIOUS
    <3>. QED BY <3>1, <2>2
  <2> DEFINE u == w * (i - 1)
             c == q[i]
  <2>4. u \in Nat /\ c \in Seq(V) /\ Len(c) \in Nat /\ top(i) = u + Len(c)
    BY <1>1, <1>2
  <2>5. \A k \in 1 .. Len(c) : at(u + k) = c[k]
    BY <1>3
  <2>6. g[i] = [j \in 1 .. u + Len(c) |-> at(j)] /\ g[i - 1] = [j \in 1 .. u |-> at(j)]
    BY <2>1, <2>3, <2>4
  <2>7. \A j \in 1 .. u : at(j) \in V
    BY <2>1, <2>3, <1>4
  <2> HIDE DEF u, c, at, g, top
  <2> DEFINE h == [j \in 1 .. u |-> at(j)]
  <2>8. h \in Seq(V) /\ Len(h) = u
    BY <2>4, <2>7
  <2>9. ASSUME NEW j \in 1 .. u + Len(c) PROVE at(j) = (h \o c)[j]
    <3>1. CASE j <= u
      BY <3>1, <2>4, <2>8
    <3>2. CASE ~(j <= u)
      <4>1. j - u \in 1 .. Len(c) /\ u + (j - u) = j
        BY <3>2, <2>4
      <4>2. (h \o c)[j] = c[j - u]
        BY <3>2, <2>4, <2>8
      <4>. QED BY <4>1, <4>2, <2>5
    <3>. QED BY <3>1, <3>2
  <2>10. h \o c = [j \in 1 .. u + Len(c) |-> (h \o c)[j]]
    BY <2>4, <2>8
  <2>11. h \o c = [j \in 1 .. u + Len(c) |-> at(j)]
    BY <2>9, <2>10
  <2>. QED BY <2>6, <2>11 DEF c
<1>6. g[1] = q[1]
  <2> DEFINE c == q[1]
  <2>1. 1 \in 1 .. m /\ w * (1 - 1) = 0
    OBVIOUS
  <2>2. c \in Seq(V) /\ top(1) = Len(c) /\ \A k \in 1 .. Len(c) : at(0 + k) = c[k]
    BY <2>1, <1>1, <1>3
  <2>3. g[1] = [j \in 1 .. top(1) |-> at(j)]
    BY <2>1
  <2> HIDE DEF c, at, g, top
  <2>4. \A k \in 1 .. Len(c) : at(k) = c[k]
    BY <2>2
  <2>5. c = [j \in 1 .. Len(c) |-> c[j]]
    BY <2>2
  <2>. QED BY <2>2, <2>3, <2>4, <2>5 DEF c
<1>7. Def(g)
  <2>1. g = [i \in 1 .. m |-> g[i]]
    OBVIOUS
  <2> HIDE DEF g
  <2>. QED BY <2>1, <1>1, <1>5, <1>6
<1>8. Def(flatten)
  <2> HIDE DEF Def, g
  <2>. QED BY <1>7
<1>9. FlattenSeq(q) = flatten[m]
  BY <1>1 DEF FlattenSeq
<1> HIDE DEF flatten
<1> DEFINE S == {i \in Nat : i + 1 <= m => flatten[i + 1] = g[i + 1]}
<1>10. 0 \in S
  BY <1>1, <1>6, <1>8
<1>11. ASSUME NEW i \in Nat, i \in S PROVE i + 1 \in S
  <2> SUFFICES ASSUME (i + 1) + 1 <= m PROVE flatten[(i + 1) + 1] = g[(i + 1) + 1]
    OBVIOUS
  <2>1. (i + 1) + 1 \in 1 .. m /\ (i + 1) + 1 # 1 /\ ((i + 1) + 1) - 1 = i + 1
    OBVIOUS
  <2> HIDE DEF g
  <2>2. flatten[i + 1] = g[i + 1]
    BY <1>11
  <2>3. flatten[(i + 1) + 1] = flatten[i + 1] \o q[(i + 1) + 1]
    BY <1>1, <1>8, <2>1
  <2>. QED BY <2>1, <2>2, <2>3, <1>5
<1> HIDE DEF S
<1>12. Nat \subseteq S
  BY <1>10, <1>11, NatSets
<1>13. FlattenSeq(q) = g[m]
  <2>1. m - 1 \in Nat /\ (m - 1) + 1 = m
    OBVIOUS
  <2>2. m - 1 \in S
    BY <2>1, <1>12
  <2> HIDE DEF g
  <2>. QED BY <2>1, <2>2, <1>9 DEF S
<1>14. FlattenSeq(q) = [j \in 1 .. top(m) |-> at(j)]
  <2>1. m \in 1 .. m
    OBVIOUS
  <2> HIDE DEF at, top
  <2>2. g[m] = [j \in 1 .. top(m) |-> at(j)]
    BY <2>1
  <2>. QED BY <2>2, <1>13
<1>15. FlattenSeq(q) \in Seq(V) /\ Len(FlattenSeq(q)) = top(m)
  <2>1. m \in 1 .. m
    OBVIOUS
  <2>2. top(m) \in Nat /\ \A j \in 1 .. top(m) : at(j) \in V
    BY <2>1, <1>2, <1>4
  <2> HIDE DEF at, top
  <2>. QED BY <2>2, <1>14
<1>16. ASSUME NEW n \in 1 .. m, NEW k \in 1 .. Len(q[n])
       PROVE  FlattenSeq(q)[w * (n - 1) + k] = q[n][k]
  <2> DEFINE u == w * (n - 1)
             v == w * (m - 1)
  <2>1. u \in Nat /\ v \in Nat /\ k \in 1 .. w /\ Len(q[n]) \in 0 .. w /\ Len(q[m]) \in 0 .. w
    BY <1>1, <1>2
  <2>2. n = m \/ u + w <= v
    <3>1. CASE n # m
      <4>1. PICK e \in Nat : m - 1 = n + e
        <5>1. (m - 1) - n \in Nat /\ m - 1 = n + ((m - 1) - n)
          BY <3>1
        <5>. QED BY <5>1
      <4>2. v = w * n + w * e
        BY <4>1
      <4>3. w * e \in Nat /\ w * n = u + w
        BY <4>1, Multiple
      <4>. QED BY <4>2, <4>3, <2>1
    <3>. QED BY <3>1
  <2>3. top(m) = v + Len(q[m]) /\ (n = m => u = v)
    OBVIOUS
  <2> HIDE DEF u, v
  <2>4. u + k \in 1 .. top(m)
    <3>1. CASE n = m
      BY <3>1, <2>1, <2>3
    <3>2. CASE n # m
      <4>1. u + w <= v
        BY <3>2, <2>2
      <4> DEFINE x == Len(q[m])
      <4>2. x \in Nat
        BY <2>1
      <4>3. u \in Nat /\ v \in Nat /\ k \in 1 .. w
        BY <2>1
      <4> DEFINE y == top(m)
      <4>4. y = v + x
        BY <2>3, Zenon
      <4> HIDE DEF x, y, top
      <4>5. u + k \in 1 .. y
        BY <4>1, <4>2, <4>3, <4>4
      <4>. QED BY <4>5 DEF y
    <3>. QED BY <3>1, <3>2
  <2>5. at(u + k) = q[n][k]
    BY <1>3 DEF u
  <2> HIDE DEF at
  <2>6. FlattenSeq(q)[u + k] = at(u + k)
    BY <2>4, <1>14
  <2>. QED BY <2>5, <2>6 DEF u
<1>17. Len(FlattenSeq(q)) = Place(w, m, Len(q[m]))
  BY <1>15 DEF Place
<1>18. ASSUME NEW n \in 1 .. m, NEW k \in 1 .. Len(q[n])
       PROVE  FlattenSeq(q)[Place(w, n, k)] = q[n][k]
  BY <1>16 DEF Place
<1>. QED BY <1>15, <1>17, <1>18 DEF Joins

Even(q, V, w, m) ==
  /\ w \in Nat \ {0} /\ m \in Nat \ {0} /\ q \in [1 .. m -> Seq(V)]
  /\ \A n \in 1 .. m - 1 : Len(q[n]) = w
  /\ Len(q[m]) <= w

LEMMA Flattened ==
  ASSUME NEW V, NEW w, NEW m, NEW q, Even(q, V, w, m)
  PROVE  Joins(FlattenSeq(q), q, V, w, m)
BY EvenFlattened DEF Even

LEMMA MinOfTwo ==
  ASSUME NEW a \in Int, NEW b \in Int
  PROVE  Min({a, b}) = IF a <= b THEN a ELSE b
<1> DEFINE c == IF a <= b THEN a ELSE b
           Least(x) == x \in {a, b} /\ \A y \in {a, b} : x <= y
<1>1. Least(c) /\ \A x : Least(x) => x = c
  OBVIOUS
<1>2. Min({a, b}) = CHOOSE x \in {a, b} : \A y \in {a, b} : x <= y
  BY DEF Min
<1>3. Min({a, b}) \in {a, b} /\ \A y \in {a, b} : Min({a, b}) <= y
  <2> HIDE DEF c
  <2>. QED BY <1>1, <1>2
<1> HIDE DEF c
<1>4. Least(Min({a, b}))
  BY <1>3
<1>5. Min({a, b}) = c
  <2> HIDE DEF Least
  <2>. QED BY <1>1, <1>4
<1>. QED BY <1>5 DEF c

\* A string of m groups of w, the last of which has r.
InGroups(t, w, m, r) ==
  w \in Nat \ {0} /\ m \in Nat \ {0} /\ r \in 1 .. w /\ Len(t) = w * (m - 1) + r

LEMMA IntoGroups ==
  ASSUME NEW V, NEW t \in Seq(V), NEW w \in Nat \ {0}, t # <<>>
  PROVE  \E m, r : InGroups(t, w, m, r)
<1> DEFINE l == Len(t) - 1
           m == (l \div w) + 1
           r == (l % w) + 1
           q == l \div w
           e == l % w
<1>1. l \in Nat /\ Len(t) = l + 1
  OBVIOUS
<1> HIDE DEF l
<1>2. q \in Nat /\ e \in 0 .. w - 1 /\ l = w * q + e
  BY <1>1, DivisionType, DivisionSplits
<1>3. m = q + 1 /\ r = e + 1
  OBVIOUS
<1> HIDE DEF m, r, q, e
<1>4. m \in Nat \ {0} /\ r \in 1 .. w /\ m - 1 = q
  BY <1>2, <1>3
<1> DEFINE u == w * q
<1>5. u \in Nat
  BY <1>2, Multiple
<1> HIDE DEF u
<1>6. Len(t) = u + r
  BY <1>1, <1>2, <1>3, <1>5 DEF u
<1>7. Len(t) = w * (m - 1) + r
  BY <1>4, <1>6 DEF u
<1>8. InGroups(t, w, m, r)
  BY <1>4, <1>7 DEF InGroups
<1>. QED BY <1>8

LEMMA GroupsOfNone == ASSUME NEW w \in Nat \ {0} PROVE Groups(<<>>, w) = 0
<1>1. (w * 0 + (w - 1)) \div w = 0
  BY DivisionUnique
<1>2. w * 0 + (w - 1) = (0 + w) - 1 /\ Len(<<>>) = 0
  OBVIOUS
<1>. QED BY <1>1, <1>2 DEF Groups

\* The groups of t are parts of it, of w elements each but for the last.
Cuts(t, V, w, m, r) ==
  \A n \in 1 .. m :
    /\ Group(t, w, n) \in Seq(V) /\ Len(Group(t, w, n)) = IF n = m THEN r ELSE w
    /\ \A k \in 1 .. Len(Group(t, w, n)) :
         Place(w, n, k) \in 1 .. Len(t) /\ Group(t, w, n)[k] = t[Place(w, n, k)]

LEMMA GroupsOf ==
  ASSUME NEW V, NEW t \in Seq(V), NEW w, NEW m, NEW r, InGroups(t, w, m, r)
  PROVE  Groups(t, w) = m /\ Cuts(t, V, w, m, r)
<1>1. w \in Nat \ {0} /\ m \in Nat \ {0} /\ r \in 1 .. w /\ Len(t) = w * (m - 1) + r
  BY DEF InGroups
<1> DEFINE u == w * (m - 1)
<1>2. u \in Nat /\ w * m = u + w /\ Len(t) = u + r
  <2>1. m - 1 \in Nat
    BY <1>1
  <2>2. u \in Nat
    BY <1>1, <2>1, Multiple
  <2>3. w * m = u + w
    BY <1>1
  <2>. QED BY <1>1, <2>2, <2>3
<1>3. Groups(t, w) = m
  <2>1. (Len(t) + w) - 1 = w * m + (r - 1)
    <3> HIDE DEF u
    <3>. QED BY <1>1, <1>2
  <2>2. r - 1 \in 0 .. w - 1
    BY <1>1
  <2>3. (w * m + (r - 1)) \div w = m
    BY <1>1, <2>2, DivisionUnique
  <2> DEFINE x == (Len(t) + w) - 1
             y == w * m + (r - 1)
  <2>4. Groups(t, w) = x \div w
    BY <1>1 DEF Groups
  <2>5. x = y /\ y \div w = m
    BY <2>1, <2>3
  <2> HIDE DEF x, y
  <2>. QED BY <2>4, <2>5
<1> HIDE DEF u
<1>4. ASSUME NEW n \in 1 .. m
      PROVE  /\ Group(t, w, n) \in Seq(V) /\ Len(Group(t, w, n)) = IF n = m THEN r ELSE w
             /\ \A k \in 1 .. Len(Group(t, w, n)) :
                  /\ Place(w, n, k) \in 1 .. Len(t)
                  /\ Group(t, w, n)[k] = t[Place(w, n, k)]
  <2> DEFINE a == w * (n - 1)
             len == IF n = m THEN r ELSE w
  <2>1. a \in Nat /\ w * n = a + w
    <3>1. n - 1 \in Nat
      BY <1>1
    <3>2. a \in Nat
      BY <1>1, <3>1, Multiple
    <3>3. w * n = a + w
      BY <1>1
    <3>. QED BY <3>2, <3>3
  <2>2. (n = m => a = u) /\ (n # m => a + w <= u)
    <3>1. CASE n = m
      BY <3>1 DEF u
    <3>2. CASE n # m
      <4>1. PICK e \in Nat : m - 1 = n + e
        <5>1. (m - 1) - n \in Nat /\ m - 1 = n + ((m - 1) - n)
          BY <3>2, <1>1
        <5>. QED BY <5>1
      <4>2. u = w * n + w * e
        <5>1. w * (n + e) = w * n + w * e
          BY <1>1, <4>1
        <5>. QED BY <4>1, <5>1 DEF u
      <4>3. w * e \in Nat
        BY <1>1, <4>1, Multiple
      <4> DEFINE f == w * e
                 b == w * n
      <4> HIDE DEF a, f, b
      <4>4. u = b + f /\ f \in Nat /\ b = a + w
        BY <4>2, <4>3, <2>1 DEF f, b
      <4>5. a + w <= u
        BY <4>4, <2>1, <1>1
      <4>. QED BY <3>2, <4>5
    <3>. QED BY <3>1, <3>2
  <2> DEFINE h == Min({w * n, Len(t)})
  <2>3. h = a + len
    <3>1. w * n \in Int /\ Len(t) \in Int
      BY <1>1
    <3>2. h = IF w * n <= Len(t) THEN w * n ELSE Len(t)
      BY <3>1, MinOfTwo
    <3> DEFINE b == w * n
    <3>3. b = a + w
      BY <2>1
    <3>4. h = IF b <= Len(t) THEN b ELSE Len(t)
      BY <3>2
    <3> HIDE DEF a, b, h
    <3>5. CASE n = m
      BY <3>3, <3>4, <3>5, <1>1, <1>2, <2>1, <2>2
    <3>6. CASE n # m
      BY <3>3, <3>4, <3>6, <1>1, <1>2, <2>1, <2>2
    <3>. QED BY <3>5, <3>6
  <2>4. Group(t, w, n) = SubSeq(t, a + 1, h)
    BY DEF Group
  <2>5. len \in Nat /\ a + len <= Len(t)
    <3> HIDE DEF a
    <3>1. CASE n = m
      BY <3>1, <1>1, <1>2, <2>1, <2>2
    <3>2. CASE n # m
      BY <3>2, <1>1, <1>2, <2>1, <2>2
    <3>. QED BY <3>1, <3>2
  <2> HIDE DEF a, len, h
  <2>6. /\ SubSeq(t, a + 1, a + len) \in Seq(V) /\ Len(SubSeq(t, a + 1, a + len)) = len
        /\ \A k \in 1 .. len : a + k \in 1 .. Len(t) /\ SubSeq(t, a + 1, a + len)[k] = t[a + k]
    BY <2>1, <2>5
  <2>7. Len(Group(t, w, n)) = len
    BY <2>3, <2>4, <2>6
  <2>. QED BY <2>3, <2>4, <2>6, <2>7 DEF a, len, Place
<1>5. Cuts(t, V, w, m, r)
  BY <1>4 DEF Cuts
<1>. QED BY <1>3, <1>5

-----------------------------------------------------------------------------
(* One group.                                                              *)

LEMMA Sizes ==
  /\ Byte \in Nat \ {0} /\ Char \in Nat \ {0} /\ Byte >= 16
  /\ Char * Char * Char * Char = Byte * Byte * Byte
  /\ \E e \in Nat : Byte * Byte = Char * (Char * e)
  /\ \E e, f \in Nat : Byte * Byte = Char * e /\ Byte = Char * f
<1>1. PICK d \in Nat \ {0, 1} : Byte = d * d * d * d /\ Char = d * d * d
  BY ByteType
<1> DEFINE C == d * d * d
<1>2. C * C * C * C = (d * d * d * d) * (d * d * d * d) * (d * d * d * d)
  OBVIOUS
<1>3. (d * d * d * d) * (d * d * d * d) = C * (C * (d * d)) /\ d * d \in Nat
  OBVIOUS
<1>4. (d * d * d * d) * (d * d * d * d) = C * (d * d * d * d * d) /\ d * d * d * d * d \in Nat
  <2>1. d * d \in Nat
    BY Multiple
  <2>2. d * d * d \in Nat
    BY <2>1, Multiple
  <2>3. d * d * d * d \in Nat
    BY <2>2, Multiple
  <2>4. d * d * d * d * d \in Nat
    BY <2>3, Multiple
  <2>. QED BY <2>4
<1>5. d * d * d * d = C * d
  OBVIOUS
<1>6. Byte * Byte = Char * (Char * (d * d)) /\ Byte * Byte = Char * (d * d * d * d * d)
      /\ Byte = Char * d /\ Char * Char * Char * Char = Byte * Byte * Byte
  BY <1>1, <1>2, <1>3, <1>4, <1>5, Zenon
<1>. QED BY <1>3, <1>4, <1>6, ByteType

LEMMA MixedBelow ==
  ASSUME NEW a \in Nat, NEW b \in Nat, NEW c \in Nat \ {0}, NEW r \in 0 .. c - 1, a < b
  PROVE  c * a + r < c * b
<1>1. PICK e \in Nat : b = (a + 1) + e
  <2>1. b - (a + 1) \in Nat /\ b = (a + 1) + (b - (a + 1))
    OBVIOUS
  <2>. QED BY <2>1
<1>2. c * b = (c * a + c) + c * e
  BY <1>1
<1> DEFINE u == c * a
           v == c * e
<1>3. u \in Nat /\ v \in Nat
  BY <1>1, Multiple
<1>4. c * b = (u + c) + v
  BY <1>2
<1> HIDE DEF u, v
<1>5. u + r < (u + c) + v
  BY <1>3
<1>. QED BY <1>4, <1>5 DEF u

LEMMA Small ==
  ASSUME NEW b \in Nat \ {0}, NEW r \in 0 .. b - 1
  PROVE  r \div b = 0 /\ r % b = r /\ r \div 1 = r
<1>1. b * 0 + r = r
  OBVIOUS
<1>2. (b * 0 + r) \div b = 0 /\ (b * 0 + r) % b = r
  BY DivisionUnique
<1>. QED BY <1>1, <1>2

LEMMA DivOne == ASSUME NEW a \in Nat PROVE a \div 1 = a
  OBVIOUS

Digit(x, place, b)      == (x \div place) % b
OfThree(b, x1, x2, x3)     == (x1 * (b * b) + x2 * b) + x3
OfFour(c, x1, x2, x3, x4) == ((x1 * c + x2) * c + x3) * c + x4

\* Three bytes are the digits of their Bits, ...
LEMMA ThreeBytes ==
  ASSUME NEW b \in Nat \ {0}, NEW x1 \in 0 .. b - 1, NEW x2 \in 0 .. b - 1,
         NEW x3 \in 0 .. b - 1, NEW x, x = OfThree(b, x1, x2, x3)
  PROVE  /\ x \in Nat /\ x < b * b * b
         /\ Digit(x, b * b, b) = x1 /\ Digit(x, b, b) = x2 /\ Digit(x, 1, b) = x3
<1>0. x = (x1 * (b * b) + x2 * b) + x3
  BY DEF OfThree
<1> DEFINE y == b * x1 + x2
<1>1. y \in Nat /\ x = b * y + x3
  <2>1. b * x1 \in Nat
    BY Multiple
  <2>2. x = b * (b * x1 + x2) + x3
    BY <1>0
  <2>. QED BY <2>1, <2>2
<1>2. y \div b = x1 /\ y % b = x2
  BY DivisionUnique
<1>3. y < b * b
  BY MixedBelow
<1> HIDE DEF y
<1>4. x \div b = y /\ x % b = x3
  <2>1. (b * y + x3) \div b = y /\ (b * y + x3) % b = x3
    BY <1>1, DivisionUnique
  <2>. QED BY <1>1, <2>1, Zenon
<1>5. x \in Nat
  <2>1. b * y \in Nat
    BY <1>1, Multiple
  <2>. QED BY <1>1, <2>1
<1>6. x \div (b * b) = x1
  <2>1. (x \div b) \div b = x \div (b * b)
    BY <1>5, DivDiv
  <2>. QED BY <2>1, <1>2, <1>4
<1>7. x < b * b * b
  <2> DEFINE z == b * b
  <2>1. z \in Nat
    BY Multiple
  <2> HIDE DEF z
  <2>2. b * y + x3 < b * z
    BY <1>1, <1>3, <2>1, MixedBelow DEF z
  <2>3. b * z = b * b * b
    BY DEF z
  <2>. QED BY <1>1, <2>2, <2>3
<1>8. x1 % b = x1 /\ x \div 1 = x
  BY <1>5, Small, DivOne
<1>. QED BY <1>2, <1>4, <1>5, <1>6, <1>7, <1>8 DEF Digit

\* ... and so are four letters.
LEMMA FourLetters ==
  ASSUME NEW c \in Nat \ {0}, NEW x \in Nat, x < c * c * c * c
  PROVE  /\ Digit(x, c * c * c, c) \in 0 .. c - 1 /\ Digit(x, c * c, c) \in 0 .. c - 1
         /\ Digit(x, c, c) \in 0 .. c - 1 /\ Digit(x, 1, c) \in 0 .. c - 1
         /\ OfFour(c, Digit(x, c * c * c, c), Digit(x, c * c, c), Digit(x, c, c), Digit(x, 1, c)) = x
         /\ \A e \in Nat : x = c * e => Digit(x, 1, c) = 0
         /\ \A e \in Nat : x = c * (c * e) => Digit(x, c, c) = 0 /\ Digit(x, 1, c) = 0
<1> DEFINE x1 == Digit(x, c * c * c, c)
           x2 == Digit(x, c * c, c)
           x3 == Digit(x, c, c)
           x4 == Digit(x, 1, c)
           y == x \div c
           z == y \div c
           w == z \div c
<1>1. y \in Nat /\ z \in Nat /\ w \in Nat
  <2>1. y \in Nat
    BY DivisionType
  <2> HIDE DEF y
  <2>2. z \in Nat
    BY <2>1, DivisionType
  <2> HIDE DEF z
  <2>3. w \in Nat
    BY <2>2, DivisionType
  <2>. QED BY <2>1, <2>2, <2>3
<1>2. x = c * y + (x % c) /\ y = c * z + (y % c) /\ z = c * w + (z % c)
  BY <1>1, DivisionSplits
<1>3. x \div (c * c) = z
  BY DivDiv
<1>4. x \div (c * c * c) = w
  <2> DEFINE cc == c * c
  <2>1. cc \in Nat \ {0}
    <3>1. c * c >= 1
      OBVIOUS
    <3>. QED BY <3>1
  <2> HIDE DEF cc
  <2>2. (x \div cc) \div c = x \div (cc * c)
    BY <2>1, DivDiv
  <2>. QED BY <1>3, <2>2 DEF cc
<1>5. w < c
  <2> DEFINE ccc == c * c * c
  <2>1. ccc \in Nat \ {0}
    <3>1. c * c >= 1 /\ c * c \in Nat
      OBVIOUS
    <3>2. (c * c) * c >= 1 /\ (c * c) * c \in Nat
      <4> DEFINE cc == c * c
      <4> HIDE DEF cc
      <4>. QED BY <3>1 DEF cc
    <3>. QED BY <3>2
  <2> HIDE DEF ccc
  <2>2. x < ccc * c
    BY DEF ccc
  <2>3. x \div ccc < c
    BY <2>1, <2>2, DivBelow
  <2>. QED BY <1>4, <2>3 DEF ccc
<1>6. x4 = x % c /\ x3 = y % c /\ x2 = z % c /\ x1 = w
  <2>1. w % c = w
    BY <1>1, <1>5, Small
  <2>2. x \div 1 = x
    BY DivOne
  <2>3. /\ x1 = (x \div (c * c * c)) % c /\ x2 = (x \div (c * c)) % c
        /\ x3 = (x \div c) % c /\ x4 = (x \div 1) % c
    BY DEF Digit
  <2> HIDE DEF x1, x2, x3, x4
  <2>. QED BY <2>1, <2>2, <2>3, <1>3, <1>4, Zenon
<1> HIDE DEF x1, x2, x3, x4
<1>7. x1 \in 0 .. c - 1 /\ x2 \in 0 .. c - 1 /\ x3 \in 0 .. c - 1 /\ x4 \in 0 .. c - 1
  <2>1. x2 \in 0 .. c - 1 /\ x3 \in 0 .. c - 1 /\ x4 \in 0 .. c - 1
    BY <1>1, <1>6, DivisionType
  <2>. QED BY <2>1, <1>1, <1>5, <1>6
<1>8. ASSUME NEW e \in Nat, x = c * e PROVE x4 = 0 /\ y = e
  <2>1. (c * e) \div c = e /\ (c * e) % c = 0
    BY DivisionExact
  <2>. QED BY <2>1, <1>6, <1>8
<1> HIDE DEF y, z, w
<1>9. OfFour(c, x1, x2, x3, x4) = x
  <2>1. z = x1 * c + x2
    BY <1>1, <1>2, <1>6, <1>7
  <2>2. y = z * c + x3
    BY <1>1, <1>2, <1>6, <1>7
  <2>3. x = y * c + x4
    BY <1>1, <1>2, <1>6, <1>7
  <2>. QED BY <2>1, <2>2, <2>3 DEF OfFour
<1>10. ASSUME NEW e \in Nat, x = c * (c * e) PROVE x3 = 0 /\ x4 = 0
  <2> DEFINE f == c * e
  <2>1. f \in Nat
    BY Multiple
  <2>4. f % c = 0
    BY DivisionExact
  <2> HIDE DEF f
  <2>5. x4 = 0 /\ y = f
    BY <2>1, <1>8, <1>10 DEF f
  <2>. QED BY <2>4, <2>5, <1>6
<1>. QED BY <1>7, <1>8, <1>9, <1>10 DEF x1, x2, x3, x4

Bytes == 0 .. Byte - 1

LEMMA BitsOf ==
  ASSUME NEW g \in Seq(Bytes)
  PROVE  /\ Bits(g) \in Nat /\ Bits(g) < Char * Char * Char * Char
         /\ \A k \in 1 .. 3 : Digit(Bits(g), BytePlace[k], Byte) = ByteAt(g, k)
         /\ Len(g) <= 1 => \E e \in Nat : Bits(g) = Char * (Char * e)
         /\ Len(g) <= 2 => \E e \in Nat : Bits(g) = Char * e
<1> DEFINE x1 == ByteAt(g, 1)
           x2 == ByteAt(g, 2)
           x3 == ByteAt(g, 3)
           x == Bits(g)
<1>0. /\ Byte \in Nat \ {0} /\ Char \in Nat \ {0}
      /\ Char * Char * Char * Char = Byte * Byte * Byte
  BY Sizes
<1>1. x1 \in Bytes /\ x2 \in Bytes /\ x3 \in Bytes
  BY <1>0 DEF ByteAt, Bytes
<1>2. x = (x1 * (Byte * Byte) + x2 * Byte) + x3
  BY DEF Bits, BytePlace
<1>3. (Len(g) <= 1 => x2 = 0 /\ x3 = 0) /\ (Len(g) <= 2 => x3 = 0)
  BY DEF ByteAt
<1> HIDE DEF x1, x2, x3, x
<1>2a. x = OfThree(Byte, x1, x2, x3)
  BY <1>2 DEF OfThree
<1>4. /\ x \in Nat /\ x < Byte * Byte * Byte
      /\ Digit(x, Byte * Byte, Byte) = x1 /\ Digit(x, Byte, Byte) = x2
      /\ Digit(x, 1, Byte) = x3
  BY <1>0, <1>1, <1>2a, ThreeBytes DEF Bytes
<1>5. \A k \in 1 .. 3 : Digit(x, BytePlace[k], Byte) = ByteAt(g, k)
  <2>1. BytePlace[1] = Byte * Byte /\ BytePlace[2] = Byte /\ BytePlace[3] = 1
    BY DEF BytePlace
  <2>2. 1 .. 3 = {1, 2, 3}
    OBVIOUS
  <2>. QED BY <2>1, <2>2, <1>4, Zenon DEF x1, x2, x3
<1>6. ASSUME Len(g) <= 1 PROVE \E e \in Nat : x = Char * (Char * e)
  <2>1. PICK e \in Nat : Byte * Byte = Char * (Char * e)
    BY Sizes
  <2>2. x1 \in Nat /\ x = x1 * (Byte * Byte)
    <3>1. x = (x1 * (Byte * Byte) + 0 * Byte) + 0
      BY <1>2, <1>3, <1>6
    <3>2. x1 \in Nat /\ x1 * (Byte * Byte) \in Nat
      <4>1. Byte * Byte \in Nat /\ x1 \in Nat
        BY <1>0, <1>1, Multiple DEF Bytes
      <4>. QED BY <4>1, Multiple
    <3>. QED BY <3>1, <3>2, <1>0
  <2>3. x = x1 * (Char * (Char * e))
    BY <2>1, <2>2
  <2>4. x1 * (Char * (Char * e)) = Char * (Char * (x1 * e)) /\ x1 * e \in Nat
    BY <2>2, <1>0
  <2>. QED BY <2>3, <2>4
<1>7. ASSUME Len(g) <= 2 PROVE \E e \in Nat : x = Char * e
  <2>1. PICK e \in Nat, f \in Nat : Byte * Byte = Char * e /\ Byte = Char * f
    BY Sizes
  <2>2. x1 \in Nat /\ x2 \in Nat
    BY <1>0, <1>1 DEF Bytes
  <2>3. x = x1 * (Byte * Byte) + x2 * Byte
    <3>1. x = (x1 * (Byte * Byte) + x2 * Byte) + 0
      BY <1>2, <1>3, <1>7
    <3>2. x1 * (Byte * Byte) \in Nat /\ x2 * Byte \in Nat
      <4>1. Byte * Byte \in Nat
        BY <1>0, Multiple
      <4>. QED BY <4>1, <2>2, <1>0, Multiple
    <3>. QED BY <3>1, <3>2
  <2>4. x = x1 * (Char * e) + x2 * (Char * f)
    BY <2>1, <2>3, Zenon
  <2>5. x1 * (Char * e) + x2 * (Char * f) = Char * (x1 * e + x2 * f) /\ x1 * e + x2 * f \in Nat
    <3>1. x1 * e \in Nat /\ x2 * f \in Nat
      BY <2>2, Multiple
    <3>. QED BY <3>1, <2>2, <1>0
  <2>. QED BY <2>4, <2>5
<1>8. x < Char * Char * Char * Char
  BY <1>0, <1>4
<1>. QED BY <1>4, <1>5, <1>6, <1>7, <1>8 DEF x

\* What EncodeGroup makes of one to three bytes: one letter more than there
\* are bytes, and nothing is lost.
LEMMA GroupEncoded ==
  ASSUME NEW g \in Seq(Bytes), NEW l \in 1 .. 3, Len(g) = l, NEW t, t = EncodeGroup(g)
  PROVE  /\ t \in Seq(0 .. Char) /\ Len(t) = 4
         /\ \A k \in 1 .. 4 : (t[k] # Pad) <=> (k <= l + 1)
         /\ OfFour(Char, Value(t[1]), Value(t[2]), Value(t[3]), Value(t[4])) = Bits(g)
<1> DEFINE x == Bits(g)
           y1 == Digit(x, Char * Char * Char, Char)
           y2 == Digit(x, Char * Char, Char)
           y3 == Digit(x, Char, Char)
           y4 == Digit(x, 1, Char)
           digit(k) == Digit(x, CharPlace[k], Char)
<1>0. Char \in Nat \ {0}
  BY Sizes
<1>1. /\ x \in Nat /\ x < Char * Char * Char * Char
      /\ l <= 1 => \E e \in Nat : x = Char * (Char * e)
      /\ l <= 2 => \E e \in Nat : x = Char * e
  BY BitsOf
<1>2. digit(1) = y1 /\ digit(2) = y2 /\ digit(3) = y3 /\ digit(4) = y4
  BY DEF CharPlace
<1>3. t = [k \in 1 .. 4 |-> IF k <= l + 1 THEN digit(k) ELSE Pad]
  BY DEF EncodeGroup, Digit
<1> HIDE DEF x
<1>4. /\ y1 \in 0 .. Char - 1 /\ y2 \in 0 .. Char - 1 /\ y3 \in 0 .. Char - 1
      /\ y4 \in 0 .. Char - 1 /\ OfFour(Char, y1, y2, y3, y4) = x
      /\ \A e \in Nat : x = Char * e => y4 = 0
      /\ \A e \in Nat : x = Char * (Char * e) => y3 = 0 /\ y4 = 0
  BY <1>0, <1>1, FourLetters
<1>5. (l <= 1 => y3 = 0 /\ y4 = 0) /\ (l <= 2 => y4 = 0)
  BY <1>1, <1>4
<1> HIDE DEF y1, y2, y3, y4, digit
<1>6. \A k \in 1 .. 4 : digit(k) \in 0 .. Char - 1
  <2>1. 1 .. 4 = {1, 2, 3, 4}
    OBVIOUS
  <2>. QED BY <2>1, <1>2, <1>4, Zenon
<1>7. \A k \in 1 .. 4 : t[k] = IF k <= l + 1 THEN digit(k) ELSE Pad
  BY <1>3
<1>8. Pad = Char /\ \A c \in 0 .. Char - 1 : c # Pad /\ Value(c) = c /\ c \in 0 .. Char
  BY <1>0 DEF Pad, Value
<1>9. t \in Seq(0 .. Char) /\ Len(t) = 4
  BY <1>0, <1>3, <1>6, <1>8
<1>10. \A k \in 1 .. 4 : (t[k] # Pad) <=> (k <= l + 1)
  BY <1>6, <1>7, <1>8
<1>11. Value(t[1]) = y1 /\ Value(t[2]) = y2 /\ Value(t[3]) = y3 /\ Value(t[4]) = y4
  <2>1. t[1] = y1 /\ t[2] = y2
    <3>1. 1 <= l + 1 /\ 2 <= l + 1 /\ 1 \in 1 .. 4 /\ 2 \in 1 .. 4
      OBVIOUS
    <3>. QED BY <3>1, <1>2, <1>7
  <2>2. Value(t[1]) = y1 /\ Value(t[2]) = y2
    BY <2>1, <1>4, <1>8
  <2>3. Value(t[3]) = y3
    <3>1. CASE l = 1
      <4>1. t[3] = Pad /\ y3 = 0
        BY <3>1, <1>5, <1>7
      <4>. QED BY <4>1 DEF Value
    <3>2. CASE l # 1
      <4>1. 3 <= l + 1 /\ 3 \in 1 .. 4
        BY <3>2
      <4>2. t[3] = y3
        BY <4>1, <1>2, <1>7
      <4>. QED BY <4>2, <1>4, <1>8
    <3>. QED BY <3>1, <3>2
  <2>4. Value(t[4]) = y4
    <3>1. CASE l # 3
      <4>1. t[4] = Pad /\ y4 = 0
        BY <3>1, <1>5, <1>7
      <4>. QED BY <4>1 DEF Value
    <3>2. CASE l = 3
      <4>1. 4 <= l + 1 /\ 4 \in 1 .. 4
        BY <3>2
      <4>2. t[4] = y4
        BY <4>1, <1>2, <1>7
      <4>. QED BY <4>2, <1>4, <1>8
    <3>. QED BY <3>1, <3>2
  <2>. QED BY <2>2, <2>3, <2>4
<1>12. OfFour(Char, Value(t[1]), Value(t[2]), Value(t[3]), Value(t[4])) = x
  BY <1>4, <1>11, Zenon
<1>. QED BY <1>9, <1>10, <1>12 DEF x

\* And what DecodeGroup makes of that: the bytes, and a zero if the group was
\* filled up.
LEMMA GroupDecoded ==
  ASSUME NEW g \in Seq(Bytes), NEW l \in 1 .. 3, Len(g) = l, NEW u, u = DecodeGroup(EncodeGroup(g))
  PROVE  /\ u \in Seq(Bytes) /\ Len(u) = IF l = 3 THEN 3 ELSE l + 1
         /\ \A k \in 1 .. Len(u) : u[k] = ByteAt(g, k)
<1> DEFINE t == EncodeGroup(g)
           n == IF l = 3 THEN 3 ELSE l + 1
           data == OfFour(Char, Value(t[1]), Value(t[2]), Value(t[3]), Value(t[4]))
<1>1. /\ t \in Seq(0 .. Char) /\ Len(t) = 4 /\ data = Bits(g)
      /\ \A k \in 1 .. 4 : (t[k] # Pad) <=> (k <= l + 1)
  BY GroupEncoded
<1>2. u = [k \in 1 .. Min({Cardinality(Letters(t)), 3}) |-> Digit(data, BytePlace[k], Byte)]
  BY DEF DecodeGroup, Digit, OfFour
<1> HIDE DEF t, data
<1>3. Letters(t) = 1 .. l + 1
  BY <1>1 DEF Letters
<1>4. Cardinality(Letters(t)) = l + 1
  <2>1. l + 1 \in Nat
    OBVIOUS
  <2>2. Cardinality(1 .. l + 1) = IF 1 > l + 1 THEN 0 ELSE (l + 1) - 1 + 1
    BY <2>1, FS_Interval
  <2>. QED BY <2>1, <2>2, <1>3
<1>5. Min({Cardinality(Letters(t)), 3}) = n
  <2> DEFINE c == Cardinality(Letters(t))
  <2>1. c \in Int /\ c = l + 1
    BY <1>4
  <2> HIDE DEF c
  <2>2. Min({c, 3}) = IF c <= 3 THEN c ELSE 3
    BY <2>1, MinOfTwo
  <2>. QED BY <2>1, <2>2 DEF c
<1>6. n \in 1 .. 3
  OBVIOUS
<1>7. \A k \in 1 .. 3 : Digit(data, BytePlace[k], Byte) = ByteAt(g, k)
  BY <1>1, BitsOf
<1> HIDE DEF n
<1>8. u = [k \in 1 .. n |-> ByteAt(g, k)]
  <2>1. u = [k \in 1 .. n |-> Digit(data, BytePlace[k], Byte)]
    BY <1>2, <1>5
  <2>2. \A k \in 1 .. n : k \in 1 .. 3
    BY <1>6
  <2>3. \A k \in 1 .. n : Digit(data, BytePlace[k], Byte) = ByteAt(g, k)
    BY <2>2, <1>7
  <2>. QED BY <2>1, <2>3
<1>9. \A k \in 1 .. 3 : ByteAt(g, k) \in Bytes
  BY Sizes DEF ByteAt, Bytes
<1>10. u \in Seq(Bytes) /\ Len(u) = n
  BY <1>6, <1>8, <1>9
<1>. QED BY <1>8, <1>10 DEF n

-----------------------------------------------------------------------------
(* Whole strings.                                                          *)

LEMMA PlaceCovered ==
  ASSUME NEW t, NEW w, NEW m, NEW r, InGroups(t, w, m, r), NEW j \in 1 .. Len(t)
  PROVE  \E n \in 1 .. m : \E k \in 1 .. (IF n = m THEN r ELSE w) : j = Place(w, n, k)
<1>1. w \in Nat \ {0} /\ m \in Nat \ {0} /\ r \in 1 .. w /\ Len(t) = w * (m - 1) + r
  BY DEF InGroups
<1> DEFINE u == w * (m - 1)
<1>2. u \in Nat /\ w * m = u + w
  <2>1. m - 1 \in Nat
    BY <1>1
  <2>2. u \in Nat
    BY <1>1, <2>1, Multiple
  <2>3. w * m = u + w
    BY <1>1
  <2>. QED BY <2>2, <2>3
<1> HIDE DEF u
<1>3. j \in Nat \ {0} /\ j <= w * m /\ j <= u + r
  BY <1>1, <1>2 DEF u
<1> DEFINE a == (j - 1) \div w
           k == ((j - 1) % w) + 1
<1>4. a \in 0 .. m - 1 /\ k \in 1 .. w /\ j = w * a + k
  BY <1>1, <1>3, GroupOfPlace
<1> HIDE DEF a, k
<1>5. a + 1 \in 1 .. m /\ (a + 1) - 1 = a
  BY <1>1, <1>4
<1>6. a + 1 = m => k <= r
  <2> SUFFICES ASSUME a + 1 = m PROVE k <= r
    OBVIOUS
  <2>1. w * a = u
    BY <1>1, <1>4 DEF u
  <2>2. u + k <= u + r
    BY <1>3, <1>4, <2>1
  <2>. QED BY <1>1, <1>2, <1>4, <2>2
<1>7. k \in 1 .. (IF a + 1 = m THEN r ELSE w)
  BY <1>1, <1>4, <1>6
<1>8. j = Place(w, a + 1, k)
  BY <1>4, <1>5 DEF Place
<1>. QED BY <1>5, <1>7, <1>8

LEMMA GroupOfBytes ==
  ASSUME NEW b \in Seq(Bytes), NEW m, NEW r, InGroups(b, 3, m, r), NEW n \in 1 .. m
  PROVE  /\ Groups(b, 3) = m /\ Group(b, 3, n) \in Seq(Bytes)
         /\ Len(Group(b, 3, n)) \in 1 .. 3 /\ Len(Group(b, 3, n)) = IF n = m THEN r ELSE 3
         /\ \A k \in 1 .. Len(Group(b, 3, n)) : Group(b, 3, n)[k] = b[Place(3, n, k)]
<1>1. /\ Groups(b, 3) = m
      /\ Group(b, 3, n) \in Seq(Bytes) /\ Len(Group(b, 3, n)) = IF n = m THEN r ELSE 3
      /\ \A k \in 1 .. Len(Group(b, 3, n)) : Group(b, 3, n)[k] = b[Place(3, n, k)]
  <2>1. Groups(b, 3) = m /\ Cuts(b, Bytes, 3, m, r)
    BY GroupsOf
  <2>. QED BY <2>1 DEF Cuts
<1>2. r \in 1 .. 3
  BY DEF InGroups
<1>3. (IF n = m THEN r ELSE 3) \in 1 .. 3
  BY <1>2
<1>. QED BY <1>1, <1>3

\* The letters of a string are those of its groups.
LEMMA EncodedGroups ==
  ASSUME NEW b \in Seq(Bytes), NEW m, NEW r, InGroups(b, 3, m, r),
         NEW t, t = encodeBase64(b)
  PROVE  /\ t \in Seq(0 .. Char) /\ InGroups(t, 4, m, 4) /\ Groups(t, 4) = m
         /\ \A n \in 1 .. m :
              /\ Group(t, 4, n) = EncodeGroup(Group(b, 3, n))
              /\ \A k \in 1 .. 4 : t[Place(4, n, k)] = EncodeGroup(Group(b, 3, n))[k]
<1> DEFINE q == [n \in 1 .. m |-> EncodeGroup(Group(b, 3, n))]
           V == 0 .. Char
<1>0. m \in Nat \ {0}
  BY DEF InGroups
<1>1. t = FlattenSeq(q)
  <2>1. 1 \in 1 .. m
    BY <1>0
  <2>2. Groups(b, 3) = m
    BY <2>1, GroupOfBytes
  <2>. QED BY <2>2 DEF encodeBase64
<1>2. ASSUME NEW n \in 1 .. m PROVE q[n] \in Seq(V) /\ Len(q[n]) = 4
  <2> DEFINE g == Group(b, 3, n)
             l == Len(g)
  <2>1. g \in Seq(Bytes) /\ l \in 1 .. 3
    BY GroupOfBytes
  <2> HIDE DEF g
  <2>2. EncodeGroup(g) \in Seq(V) /\ Len(EncodeGroup(g)) = 4
    BY <2>1, GroupEncoded
  <2>. QED BY <2>2 DEF g
<1>3. q \in [1 .. m -> Seq(V)]
  BY <1>2
<1>4. /\ t \in Seq(V) /\ Len(t) = Place(4, m, 4)
      /\ \A n \in 1 .. m : \A k \in 1 .. 4 : t[Place(4, n, k)] = q[n][k]
  <2> HIDE DEF q, V
  <2>1. m \in 1 .. m /\ \A n \in 1 .. m - 1 : n \in 1 .. m
    BY <1>0
  <2>2a. Len(q[m]) = 4 /\ \A n \in 1 .. m - 1 : Len(q[n]) = 4
    BY <2>1, <1>2
  <2>2. Len(q[m]) = 4 /\ Len(q[m]) <= 4 /\ \A n \in 1 .. m - 1 : Len(q[n]) = 4
    BY <2>2a
  <2>3. Joins(FlattenSeq(q), q, V, 4, m)
    <3>1. Even(q, V, 4, m)
      BY <1>0, <1>3, <2>2 DEF Even
    <3>. QED BY <3>1, Flattened
  <2>. QED BY <2>2, <2>3, <1>1, <1>2 DEF Joins
<1>5. InGroups(t, 4, m, 4)
  BY <1>0, <1>4 DEF InGroups, Place
<1>6. /\ Groups(t, 4) = m
      /\ \A n \in 1 .. m :
           /\ Group(t, 4, n) \in Seq(V) /\ Len(Group(t, 4, n)) = 4
           /\ \A k \in 1 .. 4 : Group(t, 4, n)[k] = t[Place(4, n, k)]
  <2>1. /\ Groups(t, 4) = m
        /\ \A n \in 1 .. m :
             /\ Group(t, 4, n) \in Seq(V) /\ Len(Group(t, 4, n)) = IF n = m THEN 4 ELSE 4
             /\ \A k \in 1 .. Len(Group(t, 4, n)) : Group(t, 4, n)[k] = t[Place(4, n, k)]
    <3> HIDE DEF V, q
    <3>1. Groups(t, 4) = m /\ Cuts(t, V, 4, m, 4)
      BY <1>4, <1>5, GroupsOf
    <3>. QED BY <3>1 DEF Cuts
  <2>. QED BY <2>1
<1>7. ASSUME NEW n \in 1 .. m PROVE Group(t, 4, n) = q[n]
  <2> DEFINE x == Group(t, 4, n)
             y == q[n]
  <2>1. x \in Seq(V) /\ y \in Seq(V) /\ Len(x) = 4 /\ Len(y) = 4
    BY <1>2, <1>6
  <2>2. \A k \in 1 .. 4 : x[k] = y[k]
    BY <1>4, <1>6
  <2> HIDE DEF x, y, V
  <2>3. x = [k \in 1 .. 4 |-> x[k]] /\ y = [k \in 1 .. 4 |-> y[k]]
    BY <2>1
  <2>4. x = y
    BY <2>2, <2>3
  <2>. QED BY <2>4 DEF x, y
<1>. QED BY <1>4, <1>5, <1>6, <1>7

\* What the letters say, before the last zero is looked at.
Unpacked(t) == FlattenSeq([n \in 1 .. Groups(t, 4) |-> DecodeGroup(Group(t, 4, n))])

LEMMA DecodedGroups ==
  ASSUME NEW b \in Seq(Bytes), NEW m, NEW r, InGroups(b, 3, m, r),
         NEW f, f = Unpacked(encodeBase64(b))
  PROVE  /\ f \in Seq(Bytes) /\ Len(f) = IF r = 3 THEN Len(b) ELSE Len(b) + 1
         /\ \A j \in 1 .. Len(b) : f[j] = b[j]
         /\ r # 3 => f[Len(b) + 1] = 0
<1> DEFINE g(n) == Group(b, 3, n)
           v == [n \in 1 .. m |-> DecodeGroup(EncodeGroup(g(n)))]
           len == IF r = 3 THEN 3 ELSE r + 1
<1>0. m \in Nat \ {0} /\ r \in 1 .. 3 /\ Len(b) = 3 * (m - 1) + r
  BY DEF InGroups
<1>1. f = FlattenSeq(v)
  <2>1. /\ Groups(encodeBase64(b), 4) = m
        /\ \A n \in 1 .. m : Group(encodeBase64(b), 4, n) = EncodeGroup(Group(b, 3, n))
    BY EncodedGroups
  <2>2. [n \in 1 .. m |-> DecodeGroup(Group(encodeBase64(b), 4, n))] = v
    BY <2>1
  <2>. QED BY <2>1, <2>2 DEF Unpacked
<1>2. ASSUME NEW n \in 1 .. m
      PROVE  /\ v[n] \in Seq(Bytes) /\ Len(v[n]) = IF n = m THEN len ELSE 3
             /\ \A k \in 1 .. Len(v[n]) : v[n][k] = ByteAt(g(n), k)
  <2> DEFINE x == g(n)
             l == Len(x)
             y == DecodeGroup(EncodeGroup(x))
  <2>1. x \in Seq(Bytes) /\ l \in 1 .. 3 /\ l = IF n = m THEN r ELSE 3
    BY GroupOfBytes
  <2>2. v[n] = y
    OBVIOUS
  <2> HIDE DEF x, v
  <2>3. /\ y \in Seq(Bytes) /\ Len(y) = IF l = 3 THEN 3 ELSE l + 1
        /\ \A k \in 1 .. Len(y) : y[k] = ByteAt(x, k)
    BY <2>1, GroupDecoded
  <2>4. Len(y) = IF n = m THEN len ELSE 3
    <3> HIDE DEF y, l
    <3>. QED BY <2>1, <2>3
  <2>. QED BY <2>2, <2>3, <2>4 DEF x
<1>3. v \in [1 .. m -> Seq(Bytes)]
  BY <1>2
<1>4. /\ f \in Seq(Bytes) /\ Len(f) = Place(3, m, len)
      /\ \A n \in 1 .. m : \A k \in 1 .. (IF n = m THEN len ELSE 3) :
           f[Place(3, n, k)] = ByteAt(g(n), k)
  <2> HIDE DEF v, g
  <2>0. len \in 1 .. 3
    BY <1>0
  <2> HIDE DEF len
  <2>1. m \in 1 .. m /\ \A n \in 1 .. m - 1 : n \in 1 .. m /\ n # m
    BY <1>0
  <2>2. Len(v[m]) = len /\ \A n \in 1 .. m - 1 : Len(v[n]) = 3
    BY <2>1, <1>2
  <2>3. Len(v[m]) <= 3
    BY <2>0, <2>2
  <2>4a. Joins(FlattenSeq(v), v, Bytes, 3, m)
    <3>1. Even(v, Bytes, 3, m)
      BY <1>0, <1>3, <2>2, <2>3 DEF Even
    <3>. QED BY <3>1, Flattened
  <2>4. /\ f \in Seq(Bytes) /\ Len(f) = Place(3, m, Len(v[m]))
        /\ \A n \in 1 .. m : \A k \in 1 .. Len(v[n]) : f[Place(3, n, k)] = v[n][k]
    BY <2>4a, <1>1 DEF Joins
  <2>5. \A n \in 1 .. m : \A k \in 1 .. Len(v[n]) : f[Place(3, n, k)] = ByteAt(g(n), k)
    BY <2>4, <1>2
  <2>6. \A n \in 1 .. m : Len(v[n]) = IF n = m THEN len ELSE 3
    BY <1>2
  <2>. QED BY <2>2, <2>4, <2>5, <2>6
<1>5. ASSUME NEW j \in 1 .. Len(b) PROVE f[j] = b[j]
  <2>1. PICK n \in 1 .. m : \E k \in 1 .. (IF n = m THEN r ELSE 3) : j = Place(3, n, k)
    BY PlaceCovered
  <2>2. PICK k \in 1 .. (IF n = m THEN r ELSE 3) : j = Place(3, n, k)
    BY <2>1
  <2>3. k \in 1 .. (IF n = m THEN len ELSE 3)
    BY <1>0
  <2>4. Len(g(n)) = (IF n = m THEN r ELSE 3) /\ \A i \in 1 .. Len(g(n)) : g(n)[i] = b[Place(3, n, i)]
    BY GroupOfBytes
  <2> HIDE DEF g, len
  <2>5. ByteAt(g(n), k) = b[Place(3, n, k)]
    <3>1. k \in 1 .. Len(g(n)) /\ k <= Len(g(n))
      BY <2>4, <1>0
    <3>. QED BY <3>1, <2>4 DEF ByteAt
  <2>6. f[Place(3, n, k)] = ByteAt(g(n), k)
    BY <2>3, <1>4
  <2>. QED BY <2>2, <2>5, <2>6
<1>6. ASSUME r # 3 PROVE f[Len(b) + 1] = 0
  <2>1. m \in 1 .. m /\ r + 1 \in 1 .. len /\ len = r + 1
    BY <1>0, <1>6
  <2>2. f[Place(3, m, r + 1)] = ByteAt(g(m), r + 1)
    <3> HIDE DEF g, len
    <3>. QED BY <2>1, <1>4
  <2>3. Len(g(m)) = r
    BY <2>1, GroupOfBytes
  <2>4. ByteAt(g(m), r + 1) = 0
    <3> HIDE DEF g
    <3>1. ~(r + 1 <= Len(g(m)))
      BY <2>3, <1>0
    <3>. QED BY <3>1 DEF ByteAt
  <2>5. Len(b) + 1 = Place(3, m, r + 1)
    BY <1>0 DEF Place
  <2>. QED BY <2>2, <2>4, <2>5
<1>7. Len(f) = IF r = 3 THEN Len(b) ELSE Len(b) + 1
  BY <1>0, <1>4 DEF Place
<1>. QED BY <1>4, <1>5, <1>6, <1>7

LEMMA UnpackedAgain ==
  ASSUME NEW b \in Seq(Bytes), b # <<>>, NEW f, f = Unpacked(encodeBase64(b))
  PROVE  f = IF Len(b) % 3 = 0 THEN b ELSE Append(b, 0)
<1>1. PICK m, r : InGroups(b, 3, m, r)
  <2>1. 3 \in Nat \ {0}
    OBVIOUS
  <2>. QED BY <2>1, IntoGroups
<1>2. /\ f \in Seq(Bytes) /\ Len(f) = IF r = 3 THEN Len(b) ELSE Len(b) + 1
      /\ \A j \in 1 .. Len(b) : f[j] = b[j]
      /\ r # 3 => f[Len(b) + 1] = 0
  BY <1>1, DecodedGroups
<1>3. Len(b) % 3 = 0 <=> r = 3
  <2>1. m - 1 \in Nat /\ r \in 1 .. 3 /\ Len(b) = 3 * (m - 1) + r
    BY <1>1 DEF InGroups
  <2> DEFINE a == m - 1
             l == Len(b)
  <2>2. a \in Nat /\ l = 3 * a + r
    BY <2>1
  <2> HIDE DEF a, l
  <2>3. l % 3 = 0 <=> r = 3
    BY <2>1, <2>2
  <2>. QED BY <2>3 DEF l
<1>4. CASE r = 3
  <2>1. f \in Seq(Bytes) /\ Len(f) = Len(b) /\ \A j \in 1 .. Len(b) : f[j] = b[j]
    BY <1>2, <1>4
  <2>2. f = [j \in 1 .. Len(b) |-> f[j]] /\ b = [j \in 1 .. Len(b) |-> b[j]]
    BY <2>1
  <2>3. f = b
    BY <2>1, <2>2
  <2>. QED BY <2>3, <1>3, <1>4
<1>5. CASE r # 3
  <2> DEFINE c == Append(b, 0)
  <2>1. f \in Seq(Bytes) /\ Len(f) = Len(b) + 1 /\ \A j \in 1 .. Len(b) + 1 : f[j] = c[j]
    <3>1. \A j \in 1 .. Len(b) + 1 : c[j] = IF j = Len(b) + 1 THEN 0 ELSE b[j]
      OBVIOUS
    <3>2. \A j \in 1 .. Len(b) + 1 : j # Len(b) + 1 => j \in 1 .. Len(b)
      OBVIOUS
    <3> HIDE DEF c
    <3>. QED BY <1>2, <1>5, <3>1, <3>2
  <2>2. f = [j \in 1 .. Len(b) + 1 |-> f[j]] /\ c = [j \in 1 .. Len(b) + 1 |-> c[j]]
    <3>0. c \in Seq(Bytes \cup {0}) /\ Len(c) = Len(b) + 1
      OBVIOUS
    <3>1. c = [j \in 1 .. Len(c) |-> c[j]]
      <4> HIDE DEF c
      <4>. QED BY <3>0
    <3>2. f \in Seq(Bytes) /\ Len(f) = Len(b) + 1
      BY <2>1
    <3>3. f = [j \in 1 .. Len(f) |-> f[j]]
      BY <3>2
    <3> HIDE DEF c
    <3>. QED BY <3>0, <3>1, <3>2, <3>3
  <2>3. f = c
    <3> HIDE DEF c
    <3>. QED BY <2>1, <2>2
  <2>. QED BY <2>3, <1>3, <1>5
<1>. QED BY <1>4, <1>5

LEMMA Decoded ==
  ASSUME NEW b \in Seq(Bytes), b # <<>>
  PROVE  decodeBase64(encodeBase64(b)) =
           IF Len(b) % 3 = 0 /\ Last(b) = 0 THEN Front(b) ELSE b
<1> DEFINE f == Unpacked(encodeBase64(b))
<1>1. f = IF Len(b) % 3 = 0 THEN b ELSE Append(b, 0)
  BY UnpackedAgain
<1>2. decodeBase64(encodeBase64(b)) = DropZero(f)
  BY DEF decodeBase64, Unpacked
<1> HIDE DEF f
<1>3. CASE Len(b) % 3 = 0
  BY <1>1, <1>2, <1>3 DEF DropZero
<1>4. CASE Len(b) % 3 # 0
  <2> DEFINE c == Append(b, 0)
  <2>1. Len(c) = Len(b) + 1 /\ c[Len(c)] = 0
    OBVIOUS
  <2>2. Front(c) = b
    <3>1. Front(c) = SubSeq(c, 1, Len(c) - 1)
      BY DEF Front
    <3>2. Len(c) - 1 = Len(b)
      BY <2>1
    <3>3. SubSeq(c, 1, Len(b)) = b
      OBVIOUS
    <3> HIDE DEF c
    <3>. QED BY <3>1, <3>2, <3>3
  <2>3. Last(c) = 0
    BY <2>1 DEF Last
  <2> HIDE DEF c
  <2>4. DropZero(c) = b
    BY <2>2, <2>3 DEF DropZero
  <2>. QED BY <2>4, <1>1, <1>2, <1>4 DEF c
<1>. QED BY <1>3, <1>4

LEMMA EncodedDecodable ==
  ASSUME NEW b \in Seq(Bytes), b # <<>>
  PROVE  Decodable(encodeBase64(b))
<1> DEFINE t == encodeBase64(b)
<1>1. PICK m, r : InGroups(b, 3, m, r)
  <2>1. 3 \in Nat \ {0}
    OBVIOUS
  <2>. QED BY <2>1, IntoGroups
<1>2. /\ t \in Seq(0 .. Char) /\ InGroups(t, 4, m, 4)
      /\ \A n \in 1 .. m : \A k \in 1 .. 4 : t[Place(4, n, k)] = EncodeGroup(Group(b, 3, n))[k]
  BY <1>1, EncodedGroups
<1> HIDE DEF t
<1>3. m \in Nat \ {0} /\ Len(t) = 4 * (m - 1) + 4
  BY <1>2 DEF InGroups
<1>4. Len(t) = 4 * m
  BY <1>3
<1>5. Len(t) % 4 = 0
  <2>1. (4 * m) % 4 = 0
    BY <1>3
  <2>. QED BY <2>1, <1>4
<1>6. \A i \in 1 .. Len(t) : t[i] \in 0 .. Char
  <2> DEFINE V == 0 .. Char
  <2>1. t \in Seq(V)
    BY <1>2
  <2> HIDE DEF V
  <2>2. \A i \in 1 .. Len(t) : t[i] \in V
    BY <2>1
  <2>. QED BY <2>2 DEF V
<1>7. 1 \in Letters(t)
  <2> DEFINE g == Group(b, 3, 1)
             l == Len(g)
  <2>1. 1 \in 1 .. m
    BY <1>3
  <2>2. g \in Seq(Bytes) /\ l \in 1 .. 3
    BY <1>1, <2>1, GroupOfBytes
  <2>3. t[Place(4, 1, 1)] = EncodeGroup(g)[1]
    BY <1>2, <2>1
  <2>4. Place(4, 1, 1) = 1
    BY DEF Place
  <2> HIDE DEF g
  <2>5. EncodeGroup(g)[1] # Pad
    <3>1. \A k \in 1 .. 4 : (EncodeGroup(g)[k] # Pad) <=> (k <= l + 1)
      BY <2>2, GroupEncoded
    <3> HIDE DEF l
    <3>2. 1 <= l + 1 /\ 1 \in 1 .. 4
      BY <2>2
    <3>. QED BY <3>1, <3>2
  <2>6. 1 \in 1 .. Len(t)
    BY <1>3, <1>4
  <2>. QED BY <2>3, <2>4, <2>5, <2>6 DEF Letters
<1>8. Letters(t) # {}
  BY <1>7
<1>9. Decodable(t)
  BY <1>5, <1>6, <1>8 DEF Decodable
<1>. QED BY <1>9 DEF t

LEMMA BytesReadable == ASSUME s \in Seq(Bytes) PROVE RoundTrip
BY Decoded, EncodedDecodable DEF RoundTrip

-----------------------------------------------------------------------------
(* The number of a string.                                                 *)

NumberStep(b) == [n \in Nat |-> [x \in Nat |-> x * Byte + ByteAt(b, n + 1)]]
NumberTo(b)   == CHOOSE f : Runs(f, Nat, 0, NumberStep(b))

LEMMA ByteAtType ==
  ASSUME NEW b \in Seq(Bytes), NEW n \in Nat \ {0}
  PROVE  ByteAt(b, n) \in Nat /\ ByteAt(b, n) \in 0 .. Byte - 1
<1>1. Byte \in Nat \ {0} /\ Bytes \subseteq Nat
  BY Sizes DEF Bytes
<1>2. CASE n <= Len(b)
  <2>1. n \in 1 .. Len(b)
    BY <1>2
  <2>2. b[n] \in Bytes
    BY <2>1
  <2>. QED BY <2>2, <1>1, <1>2 DEF ByteAt, Bytes
<1>3. CASE ~(n <= Len(b))
  BY <1>1, <1>3 DEF ByteAt
<1>. QED BY <1>2, <1>3

LEMMA NumberRuns ==
  ASSUME NEW b \in Seq(Bytes)
  PROVE  /\ NumberTo(b)[0] = 0
         /\ \A n \in Nat : /\ NumberTo(b)[n] \in Nat
                           /\ NumberTo(b)[n + 1] = NumberTo(b)[n] * Byte + ByteAt(b, n + 1)
         /\ NumberTo(b) = [n \in Nat |-> NumberTo(b)[n]]
<1> DEFINE step == NumberStep(b)
<1>1. Steps(step, Nat)
  <2>1. ASSUME NEW n \in Nat, NEW x \in Nat PROVE x * Byte + ByteAt(b, n + 1) \in Nat
    <3>1. ByteAt(b, n + 1) \in Nat
      <4>1. n + 1 \in Nat \ {0}
        OBVIOUS
      <4>. QED BY <4>1, ByteAtType
    <3>2. x * Byte \in Nat
      BY ByteType, Multiple
    <3>. QED BY <3>1, <3>2
  <2>2. \A n \in Nat : [x \in Nat |-> x * Byte + ByteAt(b, n + 1)] \in [Nat -> Nat]
    BY <2>1
  <2>. QED BY <2>2 DEF Steps, NumberStep
<1>2. \E f : Runs(f, Nat, 0, step)
  <2> HIDE DEF step
  <2>. QED BY <1>1, RecursionRuns
<1>3. Runs(NumberTo(b), Nat, 0, step)
  BY <1>2 DEF NumberTo
<1>4. NumberTo(b) \in [Nat -> Nat] /\ NumberTo(b)[0] = 0
  BY <1>3 DEF Runs
<1>5. ASSUME NEW n \in Nat PROVE NumberTo(b)[n + 1] = NumberTo(b)[n] * Byte + ByteAt(b, n + 1)
  <2>1. NumberTo(b)[n + 1] = step[n][NumberTo(b)[n]] /\ NumberTo(b)[n] \in Nat
    <3> HIDE DEF step
    <3>. QED BY <1>3 DEF Runs
  <2>. QED BY <2>1 DEF NumberStep
<1>. QED BY <1>4, <1>5

LEMMA NumberIs ==
  ASSUME s \in Seq(Bytes)
  PROVE  Number = NumberTo(s)[3 * Groups(s, 3)]
<1> DEFINE Def(f) == f = [n \in Nat |-> IF n = 0 THEN 0 ELSE f[n - 1] * Byte + ByteAt(s, n)]
           num == CHOOSE f : Def(f)
           w == NumberTo(s)
<1>1. /\ w[0] = 0 /\ w = [n \in Nat |-> w[n]]
      /\ \A n \in Nat : w[n] \in Nat /\ w[n + 1] = w[n] * Byte + ByteAt(s, n + 1)
  BY NumberRuns
<1> HIDE DEF w
<1>2. Def(w)
  <2>1. ASSUME NEW n \in Nat PROVE w[n] = IF n = 0 THEN 0 ELSE w[n - 1] * Byte + ByteAt(s, n)
    <3>1. CASE n = 0
      BY <1>1, <3>1
    <3>2. CASE n # 0
      <4>1. n - 1 \in Nat /\ (n - 1) + 1 = n
        BY <3>2
      <4>. QED BY <1>1, <3>2, <4>1
    <3>. QED BY <3>1, <3>2
  <2>. QED BY <1>1, <2>1
<1>3. Def(num)
  <2> HIDE DEF Def
  <2>. QED BY <1>2
<1>4. Number = num[3 * Groups(s, 3)]
  BY DEF Number
<1> HIDE DEF num
<1> DEFINE S == {n \in Nat : num[n] = w[n]}
<1>5. 0 \in S
  BY <1>1, <1>3
<1>6. ASSUME NEW n \in Nat, n \in S PROVE n + 1 \in S
  <2>1. n + 1 \in Nat /\ n + 1 # 0 /\ (n + 1) - 1 = n
    OBVIOUS
  <2>2. num[n + 1] = num[n] * Byte + ByteAt(s, n + 1)
    BY <1>3, <2>1
  <2>3. num[n] = w[n] /\ w[n + 1] = w[n] * Byte + ByteAt(s, n + 1)
    BY <1>1, <1>6
  <2>4. num[n + 1] = w[n + 1]
    BY <2>2, <2>3
  <2>. QED BY <2>1, <2>4
<1> HIDE DEF S
<1>7. Nat \subseteq S
  BY <1>5, <1>6, NatSets
<1>8. 3 * Groups(s, 3) \in Nat
  <2>1. Groups(s, 3) \in Nat
    <3> DEFINE l == Len(s)
    <3>1. l \in Nat
      OBVIOUS
    <3>2. Groups(s, 3) = ((l + 3) - 1) \div 3
      BY DEF Groups
    <3> HIDE DEF l
    <3>. QED BY <3>1, <3>2
  <2>. QED BY <2>1
<1>9. 3 * Groups(s, 3) \in S
  BY <1>7, <1>8
<1>. QED BY <1>4, <1>9 DEF S, w

\* The digits of the end of a string are the end of its digits.
LEMMA HighPart ==
  ASSUME NEW p \in Nat \ {0}, NEW a \in Nat, NEW x \in Nat
  PROVE  (p * a + x) \div p = a + (x \div p) /\ (p * a + x) % p = x % p
<1> DEFINE q == x \div p
           r == x % p
<1>1. q \in Nat /\ r \in 0 .. p - 1 /\ x = p * q + r
  BY DivisionType, DivisionSplits
<1> HIDE DEF q, r
<1>2. p * a + x = p * (a + q) + r
  <2>1. p * (a + q) = p * a + p * q
    BY <1>1
  <2>2. p * a \in Nat /\ p * q \in Nat
    BY <1>1, Multiple
  <2>. QED BY <1>1, <2>1, <2>2
<1>3. (p * (a + q) + r) \div p = a + q /\ (p * (a + q) + r) % p = r
  <2> DEFINE e == a + q
  <2>1. e \in Nat
    BY <1>1
  <2> HIDE DEF e
  <2>2. (p * e + r) \div p = e /\ (p * e + r) % p = r
    BY <1>1, <2>1, DivisionUnique
  <2>. QED BY <2>2 DEF e
<1>4. (p * a + x) \div p = a + q /\ (p * a + x) % p = r
  BY <1>2, <1>3
<1>. QED BY <1>4 DEF q, r

Above(p, c, e, a, x) == (p * (c * e)) * a + x

LEMMA DigitOfEnd ==
  ASSUME NEW c \in Nat \ {0}, NEW p \in Nat \ {0}, NEW e \in Nat, NEW a \in Nat, NEW x \in Nat
  PROVE  Digit(Above(p, c, e, a, x), p, c) = Digit(x, p, c)
<1> DEFINE h == e * a
           y == x \div p
           k == c * h
<1>1. h \in Nat /\ y \in Nat
  BY Multiple, DivisionType
<1> HIDE DEF y
<1>2. (p * (c * e)) * a = p * k
  OBVIOUS
<1> HIDE DEF h
<1>3. k \in Nat
  BY <1>1, Multiple
<1>4. (k + y) % c = y % c
  BY <1>1, HighPart
<1> HIDE DEF k
<1>5. (p * k + x) \div p = k + y
  BY <1>3, HighPart DEF y
<1>6. Above(p, c, e, a, x) = p * k + x
  BY <1>2 DEF Above
<1>. QED BY <1>4, <1>5, <1>6 DEF Digit, y

LEMMA NumberOfPrefix ==
  ASSUME NEW b \in Seq(Bytes), NEW a \in Nat, NEW j \in Nat
  PROVE  NumberTo(b)[a + j] \div Span[j] = NumberTo(b)[a]
<1> DEFINE w == NumberTo(b)
           S == {i \in Nat : w[a + i] \div Span[i] = w[a]}
<1>0. Byte \in Nat \ {0} /\ Span[0] = 1
      /\ \A n \in Nat : Span[n] \in Nat \ {0} /\ Span[n + 1] = Span[n] * Byte
  BY ByteType, SpanGrows
<1>1. \A n \in Nat : w[n] \in Nat /\ w[n + 1] = w[n] * Byte + ByteAt(b, n + 1)
  BY NumberRuns
<1> HIDE DEF w
<1>2. 0 \in S
  <2>1. a + 0 = a /\ w[a] \in Nat
    BY <1>1
  <2>2. w[a] \div 1 = w[a]
    BY <2>1, DivOne
  <2>. QED BY <1>0, <2>1, <2>2
<1>3. ASSUME NEW i \in Nat, i \in S PROVE i + 1 \in S
  <2> DEFINE x == w[a + i]
             z == ByteAt(b, (a + i) + 1)
             p == Span[i]
             y == w[a + (i + 1)]
  <2>1. a + i \in Nat /\ (a + i) + 1 = a + (i + 1) /\ (a + i) + 1 \in Nat \ {0}
    OBVIOUS
  <2>2. x \in Nat /\ y = x * Byte + z /\ y \in Nat /\ p \in Nat \ {0}
    BY <2>1, <1>0, <1>1
  <2>3. z \in 0 .. Byte - 1
    BY <2>1, ByteAtType
  <2>4. Span[i + 1] = p * Byte
    BY <1>0
  <2>5. x \div p = w[a]
    BY <1>3
  <2> HIDE DEF x, y, z, p
  <2>6. y \div Byte = x
    <3>1. (Byte * x + z) \div Byte = x
      BY <1>0, <2>2, <2>3, DivisionUnique
    <3>2. Byte * x = x * Byte
      BY <1>0, <2>2
    <3>. QED BY <2>2, <3>1, <3>2
  <2>7. (y \div Byte) \div p = y \div (Byte * p)
    BY <1>0, <2>2, DivDiv
  <2>8. Byte * p = p * Byte
    BY <1>0, <2>2
  <2>9. y \div Span[i + 1] = w[a]
    BY <2>4, <2>5, <2>6, <2>7, <2>8
  <2>. QED BY <2>9 DEF y
<1> HIDE DEF S
<1>4. Nat \subseteq S
  BY <1>2, <1>3, NatSets
<1>. QED BY <1>4 DEF S, w

LEMMA CharPlaces ==
  /\ \A k \in 1 .. 4 : CharPlace[k] \in Nat \ {0}
  /\ CharSpan[4 - 1] = CharPlace[1] /\ CharSpan[4 - 2] = CharPlace[2]
  /\ CharSpan[4 - 3] = CharPlace[3] /\ CharSpan[4 - 4] = CharPlace[4]
  /\ \A k \in 1 .. 4 : \E e \in Nat : CharPlace[k] * (Char * e) = Char * Char * Char * Char
<1>0. Char \in Nat \ {0} /\ CharSpan[0] = 1
      /\ \A n \in Nat : CharSpan[n] \in Nat \ {0} /\ CharSpan[n + 1] = CharSpan[n] * Char
  BY ByteType, CharSpanGrows
<1>1. CharPlace[1] = Char * Char * Char /\ CharPlace[2] = Char * Char /\ CharPlace[3] = Char
      /\ CharPlace[4] = 1
  BY DEF CharPlace
<1>2. CharSpan[1] = Char
  <2>1. CharSpan[0 + 1] = 1 * Char
    BY <1>0
  <2>. QED BY <2>1, <1>0
<1>3. CharSpan[2] = Char * Char
  <2>1. CharSpan[1 + 1] = CharSpan[1] * Char
    BY <1>0
  <2>. QED BY <2>1, <1>2
<1>4. CharSpan[3] = Char * Char * Char
  <2>1. CharSpan[2 + 1] = CharSpan[2] * Char
    BY <1>0
  <2>. QED BY <2>1, <1>3
<1>5. /\ CharSpan[4 - 1] = CharPlace[1] /\ CharSpan[4 - 2] = CharPlace[2]
      /\ CharSpan[4 - 3] = CharPlace[3] /\ CharSpan[4 - 4] = CharPlace[4]
  BY <1>0, <1>1, <1>2, <1>3, <1>4
<1>6. CharPlace[1] \in Nat \ {0} /\ CharPlace[2] \in Nat \ {0} /\ CharPlace[3] \in Nat \ {0}
      /\ CharPlace[4] \in Nat \ {0}
  <2>1. CharSpan[1] \in Nat \ {0} /\ CharSpan[2] \in Nat \ {0} /\ CharSpan[3] \in Nat \ {0}
    BY <1>0
  <2>. QED BY <2>1, <1>1, <1>2, <1>3, <1>4
<1>7. Char * Char \in Nat /\ Char * Char * Char \in Nat
  <2>1. Char * Char \in Nat
    BY <1>0, Multiple
  <2>. QED BY <2>1, <1>0, Multiple
<1>8. /\ CharPlace[1] * (Char * 1) = Char * Char * Char * Char
      /\ CharPlace[2] * (Char * Char) = Char * Char * Char * Char
      /\ CharPlace[3] * (Char * (Char * Char)) = Char * Char * Char * Char
      /\ CharPlace[4] * (Char * (Char * Char * Char)) = Char * Char * Char * Char
  <2>1. CharPlace[1] * (Char * 1) = Char * Char * Char * Char
    BY <1>0, <1>1
  <2>2. CharPlace[2] * (Char * Char) = Char * Char * Char * Char
    BY <1>0, <1>1
  <2>3. CharPlace[3] * (Char * (Char * Char)) = Char * Char * Char * Char
    BY <1>0, <1>1
  <2>4. CharPlace[4] * (Char * (Char * Char * Char)) = Char * Char * Char * Char
    <3> DEFINE x == Char * (Char * Char * Char)
    <3>1. x = Char * Char * Char * Char /\ x \in Nat
      BY <1>0, <1>7, Multiple
    <3> HIDE DEF x
    <3>2. 1 * x = x
      BY <3>1
    <3>3. CharPlace[4] * x = x
      BY <3>2, <1>1
    <3>. QED BY <3>1, <3>3 DEF x
  <2>. QED BY <2>1, <2>2, <2>3, <2>4
<1>9. \A k \in 1 .. 4 : \E e \in Nat : CharPlace[k] * (Char * e) = Char * Char * Char * Char
  <2>1. 1 .. 4 = {1, 2, 3, 4} /\ 1 \in Nat
    OBVIOUS
  <2>. QED BY <2>1, <1>0, <1>7, <1>8, Zenon
<1>10. \A k \in 1 .. 4 : CharPlace[k] \in Nat \ {0}
  <2>1. 1 .. 4 = {1, 2, 3, 4}
    OBVIOUS
  <2>. QED BY <2>1, <1>6, Zenon
<1>. QED BY <1>5, <1>9, <1>10

LEMMA CharSpanAdds ==
  ASSUME NEW a \in Nat, NEW j \in Nat
  PROVE  CharSpan[a + j] = CharSpan[a] * CharSpan[j]
<1> DEFINE S == {i \in Nat : CharSpan[a + i] = CharSpan[a] * CharSpan[i]}
<1>0. Char \in Nat \ {0} /\ CharSpan[0] = 1
      /\ \A n \in Nat : CharSpan[n] \in Nat \ {0} /\ CharSpan[n + 1] = CharSpan[n] * Char
  BY ByteType, CharSpanGrows
<1>1. 0 \in S
  <2>1. a + 0 = a /\ CharSpan[a] \in Nat
    BY <1>0
  <2>2. CharSpan[a] * 1 = CharSpan[a]
    BY <2>1
  <2>. QED BY <1>0, <2>1, <2>2
<1>2. ASSUME NEW i \in Nat, i \in S PROVE i + 1 \in S
  <2>1. a + i \in Nat /\ (a + i) + 1 = a + (i + 1)
    OBVIOUS
  <2> DEFINE x == CharSpan[a]
             y == CharSpan[i]
  <2>2. CharSpan[a + (i + 1)] = (x * y) * Char /\ CharSpan[i + 1] = y * Char
    <3>1. CharSpan[(a + i) + 1] = CharSpan[a + i] * Char
      BY <1>0, <2>1
    <3>2. CharSpan[a + i] = x * y
      BY <1>2
    <3>. QED BY <1>0, <2>1, <3>1, <3>2
  <2>3. x \in Nat /\ y \in Nat
    BY <1>0
  <2> HIDE DEF x, y
  <2>4. (x * y) * Char = x * (y * Char)
    BY <2>3, <1>0
  <2>5. CharSpan[a + (i + 1)] = x * CharSpan[i + 1]
    BY <2>2, <2>4
  <2>. QED BY <2>5 DEF x
<1> HIDE DEF S
<1>3. Nat \subseteq S
  BY <1>1, <1>2, NatSets
<1>. QED BY <1>3 DEF S

\* Three bytes take as much as four letters.
LEMMA SameSpan ==
  ASSUME NEW j \in Nat
  PROVE  CharSpan[4 * j] = Span[3 * j]
<1> DEFINE S == {i \in Nat : CharSpan[4 * i] = Span[3 * i]}
<1>0. /\ Char \in Nat \ {0} /\ Byte \in Nat \ {0}
      /\ Char * Char * Char * Char = Byte * Byte * Byte
      /\ CharSpan[0] = 1 /\ Span[0] = 1
      /\ \A n \in Nat : CharSpan[n] \in Nat /\ CharSpan[n + 1] = CharSpan[n] * Char
      /\ \A n \in Nat : Span[n] \in Nat /\ Span[n + 1] = Span[n] * Byte
  BY Sizes, CharSpanGrows, SpanGrows
<1>1. 0 \in S
  BY <1>0
<1>2. ASSUME NEW i \in Nat, i \in S PROVE i + 1 \in S
  <2> DEFINE a == 4 * i
             d == 3 * i
             x == CharSpan[a]
             y == Span[d]
  <2>1. a \in Nat /\ d \in Nat /\ 4 * (i + 1) = (((a + 1) + 1) + 1) + 1
        /\ 3 * (i + 1) = ((d + 1) + 1) + 1
    OBVIOUS
  <2>2. x = y /\ x \in Nat
    BY <1>0, <1>2, <2>1
  <2> HIDE DEF a, d
  <2>3. CharSpan[(((a + 1) + 1) + 1) + 1] = (((x * Char) * Char) * Char) * Char
    <3>1. a + 1 \in Nat /\ (a + 1) + 1 \in Nat /\ ((a + 1) + 1) + 1 \in Nat
      BY <2>1
    <3>2. CharSpan[a + 1] = x * Char
      BY <1>0, <2>1
    <3>3. CharSpan[(a + 1) + 1] = (x * Char) * Char
      BY <1>0, <3>1, <3>2
    <3>4. CharSpan[((a + 1) + 1) + 1] = ((x * Char) * Char) * Char
      BY <1>0, <3>1, <3>3
    <3>. QED BY <1>0, <3>1, <3>4
  <2>4. Span[((d + 1) + 1) + 1] = ((y * Byte) * Byte) * Byte
    <3>1. d + 1 \in Nat /\ (d + 1) + 1 \in Nat
      BY <2>1
    <3>2. Span[d + 1] = y * Byte
      BY <1>0, <2>1
    <3>3. Span[(d + 1) + 1] = (y * Byte) * Byte
      BY <1>0, <3>1, <3>2
    <3>. QED BY <1>0, <3>1, <3>3
  <2> HIDE DEF x, y
  <2>5. (((x * Char) * Char) * Char) * Char = x * (Char * Char * Char * Char)
    BY <1>0, <2>2
  <2>6. ((y * Byte) * Byte) * Byte = y * (Byte * Byte * Byte)
    BY <1>0, <2>2
  <2>7. CharSpan[4 * (i + 1)] = Span[3 * (i + 1)]
    <3>1. Char * Char * Char * Char = Byte * Byte * Byte
      BY <1>0
    <3>2. x * (Char * Char * Char * Char) = y * (Byte * Byte * Byte)
      BY <3>1, <2>2, Zenon
    <3>. QED BY <3>2, <2>1, <2>3, <2>4, <2>5, <2>6, Zenon
  <2>. QED BY <2>7
<1> HIDE DEF S
<1>3. Nat \subseteq S
  BY <1>1, <1>2, NatSets
<1>. QED BY <1>3 DEF S

LEMMA ByteOfGroup ==
  ASSUME NEW b \in Seq(Bytes), NEW m, NEW r, InGroups(b, 3, m, r), NEW n \in 1 .. m,
         NEW k \in 1 .. 3
  PROVE  ByteAt(b, Place(3, n, k)) = ByteAt(Group(b, 3, n), k)
<1> DEFINE g == Group(b, 3, n)
           l == Len(g)
           p == Place(3, n, k)
<1>1. m \in Nat \ {0} /\ r \in 1 .. 3 /\ Len(b) = 3 * (m - 1) + r
  BY DEF InGroups
<1>2. l \in 1 .. 3 /\ l = IF n = m THEN r ELSE 3
  BY GroupOfBytes
<1>3. \A i \in 1 .. l : Place(3, n, i) \in 1 .. Len(b) /\ g[i] = b[Place(3, n, i)]
  <2>1. Cuts(b, Bytes, 3, m, r)
    BY GroupsOf
  <2>. QED BY <2>1 DEF Cuts
<1> HIDE DEF g
<1>4. CASE k <= l
  <2>1. k \in 1 .. l
    BY <1>2, <1>4
  <2>2. p \in 1 .. Len(b) /\ g[k] = b[p]
    BY <1>3, <2>1
  <2> HIDE DEF p
  <2>3. ByteAt(b, p) = b[p] /\ ByteAt(g, k) = g[k]
    BY <1>4, <2>2 DEF ByteAt
  <2>. QED BY <2>2, <2>3 DEF g, p
<1>5. CASE ~(k <= l)
  <2> HIDE DEF l
  <2>1. n = m /\ r = l
    BY <1>1, <1>2, <1>5
  <2>2. p = 3 * (m - 1) + k
    BY <2>1 DEF Place
  <2>3. ~(p <= Len(b))
    <3> DEFINE a == 3 * (m - 1)
    <3>1. a \in Nat /\ Len(b) = a + l /\ p = a + k
      BY <1>1, <2>1, <2>2
    <3> HIDE DEF a, p
    <3>. QED BY <1>2, <1>5, <3>1
  <2> HIDE DEF p
  <2>4. ByteAt(b, p) = 0 /\ ByteAt(g, k) = 0
    BY <1>5, <2>3 DEF ByteAt, l
  <2>. QED BY <2>4 DEF g, p
<1>. QED BY <1>4, <1>5

\* The number up to the n-th group ends in the bits of that.
LEMMA NumberAfterGroup ==
  ASSUME NEW b \in Seq(Bytes), NEW m, NEW r, InGroups(b, 3, m, r), NEW n \in 1 .. m
  PROVE  NumberTo(b)[3 * n] =
           (Char * Char * Char * Char) * NumberTo(b)[3 * (n - 1)] + Bits(Group(b, 3, n))
<1> DEFINE w == NumberTo(b)
           a == 3 * (n - 1)
           g == Group(b, 3, n)
           v == w[a]
           c1 == ByteAt(g, 1)
           c2 == ByteAt(g, 2)
           c3 == ByteAt(g, 3)
<1>0. Byte \in Nat \ {0} /\ Char * Char * Char * Char = Byte * Byte * Byte
  BY Sizes
<1>1. a \in Nat /\ 3 * n = ((a + 1) + 1) + 1 /\ Place(3, n, 1) = a + 1
      /\ Place(3, n, 2) = (a + 1) + 1 /\ Place(3, n, 3) = ((a + 1) + 1) + 1
  <2>1. m \in Nat
    BY DEF InGroups
  <2>. QED BY <2>1 DEF Place
<1>2. ByteAt(b, a + 1) = c1 /\ ByteAt(b, (a + 1) + 1) = c2 /\ ByteAt(b, ((a + 1) + 1) + 1) = c3
  <2> HIDE DEF a, g
  <2>1. \A k \in 1 .. 3 : ByteAt(b, Place(3, n, k)) = ByteAt(g, k)
    BY ByteOfGroup DEF g
  <2>2. 1 \in 1 .. 3 /\ 2 \in 1 .. 3 /\ 3 \in 1 .. 3
    OBVIOUS
  <2>. QED BY <1>1, <2>1, <2>2
<1>3. \A i \in Nat : w[i] \in Nat /\ w[i + 1] = w[i] * Byte + ByteAt(b, i + 1)
  BY NumberRuns
<1>4. c1 \in Nat /\ c2 \in Nat /\ c3 \in Nat
  <2>1. g \in Seq(Bytes) /\ 1 \in Nat \ {0} /\ 2 \in Nat \ {0} /\ 3 \in Nat \ {0}
    BY GroupOfBytes
  <2> HIDE DEF g
  <2>. QED BY <2>1, ByteAtType
<1>5. Bits(g) = (c1 * (Byte * Byte) + c2 * Byte) + c3
  BY DEF Bits, BytePlace
<1> HIDE DEF a, g, w, c1, c2, c3
<1>6. w[3 * n] = ((v * Byte + c1) * Byte + c2) * Byte + c3 /\ v \in Nat
  <2>1. a + 1 \in Nat /\ (a + 1) + 1 \in Nat
    BY <1>1
  <2>2. w[a + 1] = v * Byte + c1
    BY <1>1, <1>2, <1>3
  <2>3. w[(a + 1) + 1] = (v * Byte + c1) * Byte + c2
    BY <2>1, <2>2, <1>2, <1>3
  <2>4. w[((a + 1) + 1) + 1] = ((v * Byte + c1) * Byte + c2) * Byte + c3
    BY <2>1, <2>3, <1>2, <1>3
  <2>. QED BY <2>4, <1>1, <1>3
<1> HIDE DEF v
<1>7. ((v * Byte + c1) * Byte + c2) * Byte + c3
        = (Byte * Byte * Byte) * v + ((c1 * (Byte * Byte) + c2 * Byte) + c3)
  <2>1. v \in Nat /\ Byte \in Nat
    BY <1>0, <1>6
  <2>. QED BY <2>1, <1>4
<1>8. w[3 * n] = (Char * Char * Char * Char) * v + Bits(g)
  BY <1>0, <1>5, <1>6, <1>7, Zenon
<1>. QED BY <1>8 DEF w, v, g, a

LEMMA LetterOfNumber ==
  ASSUME s \in Seq(Bytes), NEW m, NEW r, InGroups(s, 3, m, r), NEW n \in 1 .. m, NEW k \in 1 .. 4
  PROVE  Digit(Number, CharSpan[4 * m - Place(4, n, k)], Char)
           = Digit(Bits(Group(s, 3, n)), CharPlace[k], Char)
<1> DEFINE w == NumberTo(s)
           d == m - n
           x == w[3 * n]
           y == w[3 * m]
           p == CharPlace[k]
           z == Span[3 * d]
<1>0. m \in Nat \ {0} /\ Char \in Nat \ {0} /\ p \in Nat \ {0}
  BY CharPlaces, Sizes DEF InGroups
<1>1. Number = y
  <2>1. Groups(s, 3) = m
    BY GroupOfBytes
  <2>. QED BY <2>1, NumberIs
<1>2. d \in Nat /\ 3 * d \in Nat /\ 4 * d \in Nat /\ 4 - k \in Nat /\ 3 * n \in Nat /\ 3 * m \in Nat
      /\ 4 * m - Place(4, n, k) = 4 * d + (4 - k) /\ 3 * m = 3 * n + 3 * d
      /\ 3 * (n - 1) \in Nat
  BY <1>0 DEF Place
<1> HIDE DEF d
<1>3. CharSpan[4 * m - Place(4, n, k)] = z * p
  <2>1. CharSpan[4 * d + (4 - k)] = CharSpan[4 * d] * CharSpan[4 - k]
    <3> DEFINE e == 4 * d
               f == 4 - k
    <3>1. e \in Nat /\ f \in Nat
      BY <1>2
    <3> HIDE DEF e, f
    <3>2. CharSpan[e + f] = CharSpan[e] * CharSpan[f]
      BY <3>1, CharSpanAdds
    <3>. QED BY <3>2 DEF e, f
  <2>2. CharSpan[4 * d] = z
    BY <1>2, SameSpan
  <2>3. CharSpan[4 - k] = p
    <3>1. k = 1 \/ k = 2 \/ k = 3 \/ k = 4
      OBVIOUS
    <3>. QED BY <3>1, CharPlaces
  <2>. QED BY <2>1, <2>2, <2>3, <1>2
<1>4. y \div z = x /\ y \in Nat /\ x \in Nat /\ z \in Nat \ {0} /\ w[3 * (n - 1)] \in Nat
  <2> DEFINE e == 3 * n
             f == 3 * d
  <2>1. e \in Nat /\ f \in Nat
    BY <1>2
  <2> HIDE DEF e, f
  <2>2. NumberTo(s)[e + f] \div Span[f] = NumberTo(s)[e]
    BY <2>1, NumberOfPrefix
  <2>3. NumberTo(s)[e] \in Nat /\ NumberTo(s)[e + f] \in Nat /\ Span[f] \in Nat \ {0}
    <3>1. e + f \in Nat
      BY <2>1
    <3>. QED BY <2>1, <3>1, NumberRuns, SpanGrows
  <2>4. 3 * m = e + f
    BY <1>2 DEF e, f
  <2>5. w[3 * (n - 1)] \in Nat
    BY <1>2, NumberRuns
  <2>. QED BY <2>2, <2>3, <2>4, <2>5 DEF e, f
<1> HIDE DEF y, z, p
<1>5. Digit(y, z * p, Char) = Digit(x, p, Char)
  <2>1. (y \div z) \div p = y \div (z * p)
    BY <1>0, <1>4, DivDiv
  <2> HIDE DEF x
  <2>. QED BY <2>1, <1>4 DEF Digit
<1>6. Digit(x, p, Char) = Digit(Bits(Group(s, 3, n)), p, Char)
  <2> DEFINE u == w[3 * (n - 1)]
             q == Bits(Group(s, 3, n))
  <2>1. x = (Char * Char * Char * Char) * u + q
    BY NumberAfterGroup
  <2>2. PICK e \in Nat : p * (Char * e) = Char * Char * Char * Char
    BY CharPlaces DEF p
  <2>3. q \in Nat
    <3>1. Group(s, 3, n) \in Seq(Bytes)
      BY GroupOfBytes
    <3>. QED BY <3>1, BitsOf
  <2>4. u \in Nat
    BY <1>4
  <2> HIDE DEF u, q, x
  <2>5. Digit(Above(p, Char, e, u, q), p, Char) = Digit(q, p, Char)
    BY <2>3, <2>4, <1>0, DigitOfEnd
  <2>6. Above(p, Char, e, u, q) = x
    BY <2>1, <2>2, Zenon DEF Above
  <2>. QED BY <2>5, <2>6 DEF q
<1>. QED BY <1>1, <1>3, <1>5, <1>6 DEF p

LEMMA EncodedInBase64 == ASSUME s \in Seq(Bytes) PROVE EncodesInBase64
<1> DEFINE length == 4 * Groups(s, 3)
           letter(i) == IF 3 * (i - 1) < 4 * Len(s)
                        THEN (Number \div CharSpan[length - i]) % Char ELSE Pad
           t == encodeBase64(s)
<1>1. CASE s = <<>>
  <2>1. Groups(s, 3) = 0
    BY <1>1, GroupsOfNone
  <2>2. t = <<>>
    BY <2>1 DEF encodeBase64, FlattenSeq
  <2>3. [i \in 1 .. length |-> letter(i)] = <<>>
    <3>1. 1 .. length = {}
      BY <2>1
    <3> HIDE DEF length, letter
    <3>. QED BY <3>1
  <2>. QED BY <2>2, <2>3 DEF EncodesInBase64
<1>2. CASE s # <<>>
  <2>1. PICK m, r : InGroups(s, 3, m, r)
    <3>1. 3 \in Nat \ {0}
      OBVIOUS
    <3>. QED BY <1>2, <3>1, IntoGroups
  <2>2. m \in Nat \ {0} /\ r \in 1 .. 3 /\ Len(s) = 3 * (m - 1) + r /\ Len(s) \in Nat
    BY <2>1 DEF InGroups
  <2>3. /\ t \in Seq(0 .. Char) /\ InGroups(t, 4, m, 4)
        /\ \A n \in 1 .. m : \A k \in 1 .. 4 : t[Place(4, n, k)] = EncodeGroup(Group(s, 3, n))[k]
    BY <2>1, EncodedGroups
  <2>4. length = 4 * m
    <3>1. 1 \in 1 .. m
      BY <2>2
    <3>2. Groups(s, 3) = m
      BY <2>1, <3>1, GroupOfBytes
    <3>. QED BY <3>2
  <2>5. Len(t) = length
    <3>1. Len(t) = 4 * (m - 1) + 4
      BY <2>3 DEF InGroups
    <3> HIDE DEF t, length
    <3>. QED BY <2>2, <2>4, <3>1
  <2> HIDE DEF t
  <2>6. ASSUME NEW i \in 1 .. length PROVE t[i] = letter(i)
    <3>1. i \in 1 .. Len(t)
      BY <2>5
    <3>2. PICK n \in 1 .. m : \E k \in 1 .. (IF n = m THEN 4 ELSE 4) : i = Place(4, n, k)
      BY <2>3, <3>1, PlaceCovered
    <3>3. PICK k \in 1 .. 4 : i = Place(4, n, k)
      BY <3>2
    <3> DEFINE g == Group(s, 3, n)
               l == Len(g)
    <3>4. l \in 1 .. 3 /\ l = IF n = m THEN r ELSE 3
      BY <2>1, GroupOfBytes
    <3>5. 3 * (i - 1) < 4 * Len(s) <=> k <= l + 1
      <4> HIDE DEF l
      <4>1. i = 4 * (n - 1) + k
        BY <3>3 DEF Place
      <4> DEFINE a == n - 1
                 e == m - n
                 size == Len(s)
      <4>2. a \in Nat /\ e \in Nat /\ size = 3 * (a + e) + r /\ i = 4 * a + k /\ (n = m <=> e = 0)
        BY <2>2, <4>1
      <4> HIDE DEF a, e, size
      <4>3. 3 * (i - 1) < 4 * size <=> 3 * (k - 1) < 12 * e + 4 * r
        BY <4>2, <2>2
      <4>4. 3 * (k - 1) < 12 * e + 4 * r <=> k <= l + 1
        <5>1. CASE n = m
          BY <5>1, <4>2, <3>4, <2>2
        <5>2. CASE n # m
          BY <5>2, <4>2, <3>4, <2>2
        <5>. QED BY <5>1, <5>2
      <4>. QED BY <4>3, <4>4 DEF size
    <3>6. t[i] = IF k <= l + 1 THEN Digit(Bits(g), CharPlace[k], Char) ELSE Pad
      <4>1. t[i] = EncodeGroup(g)[k]
        BY <2>3, <3>3
      <4>. QED BY <4>1 DEF EncodeGroup, Digit
    <3>7. Digit(Number, CharSpan[length - i], Char) = Digit(Bits(g), CharPlace[k], Char)
      <4>1. Digit(Number, CharSpan[4 * m - Place(4, n, k)], Char) = Digit(Bits(g), CharPlace[k], Char)
        BY <2>1, LetterOfNumber
      <4> HIDE DEF length, g
      <4>. QED BY <4>1, <2>4, <3>3
    <3>8. letter(i) = IF k <= l + 1 THEN Digit(Number, CharSpan[length - i], Char) ELSE Pad
      <4> HIDE DEF length, l
      <4>. QED BY <3>5 DEF Digit
    <3> HIDE DEF letter, g, l, length
    <3>. QED BY <3>6, <3>7, <3>8
  <2> HIDE DEF letter, length
  <2>7. t = [i \in 1 .. length |-> t[i]]
    <3> DEFINE V == 0 .. Char
    <3>1. t \in Seq(V)
      BY <2>3
    <3> HIDE DEF V
    <3>2. t = [i \in 1 .. Len(t) |-> t[i]]
      BY <3>1
    <3>. QED BY <3>2, <2>5
  <2>8. t = [i \in 1 .. length |-> letter(i)]
    BY <2>6, <2>7
  <2>. QED BY <2>8 DEF EncodesInBase64, t, length, letter
<1>. QED BY <1>1, <1>2

-----------------------------------------------------------------------------
(* The keys.                                                               *)

LEMMA SpanMonotone ==
  ASSUME NEW a \in Nat, NEW j \in Nat
  PROVE  Span[a] <= Span[a + j]
<1> DEFINE S == {i \in Nat : Span[a] <= Span[a + i]}
<1>0. Byte \in Nat \ {0} /\ \A n \in Nat : Span[n] \in Nat \ {0} /\ Span[n + 1] = Span[n] * Byte
  BY ByteType, SpanGrows
<1>1. 0 \in S
  <2>1. a + 0 = a /\ Span[a] \in Nat
    BY <1>0
  <2>. QED BY <2>1
<1>2. ASSUME NEW i \in Nat, i \in S PROVE i + 1 \in S
  <2> DEFINE x == Span[a + i]
  <2>1. a + i \in Nat /\ (a + i) + 1 = a + (i + 1)
    OBVIOUS
  <2>2. x \in Nat /\ Span[a + (i + 1)] = x * Byte /\ Span[a] \in Nat /\ Span[a] <= x
    BY <1>0, <1>2, <2>1
  <2> HIDE DEF x
  <2>3. x <= x * Byte /\ x * Byte \in Nat
    BY <1>0, <2>2
  <2>. QED BY <2>2, <2>3
<1> HIDE DEF S
<1>3. Nat \subseteq S
  BY <1>1, <1>2, NatSets
<1>. QED BY <1>3 DEF S

LEMMA KeyBounds ==
  /\ KeyLen \in Nat \ {0} /\ P \in Nat /\ G \in Nat /\ Full \in Nat \ {0}
  /\ Span[KeyLen] = Byte * Full /\ P < Span[KeyLen] /\ Span[KeyLen] \in Nat
  /\ \A x \in Privs : x \in Nat /\ Full <= x /\ x < Span[KeyLen]
  /\ \A y \in GwPrivs : y \in Nat
<1>1. KeyLen \in Nat \ {0} /\ KeyLen - 1 \in Nat /\ (KeyLen - 1) + 1 = KeyLen
  BY DhAssumption
<1>2. Byte \in Nat /\ Byte >= 16
  BY ByteType
<1>3. Full \in Nat \ {0} /\ Span[KeyLen] = Full * Byte
  <2>1. Span[(KeyLen - 1) + 1] = Span[KeyLen - 1] * Byte /\ Span[KeyLen - 1] \in Nat \ {0}
    BY <1>1, SpanGrows
  <2>. QED BY <1>1, <2>1 DEF Full
<1>4. Full * Byte = Byte * Full /\ Byte * Full \in Nat
  BY <1>2, <1>3
<1>5. P \in Nat /\ G \in Nat /\ P < Byte * Full
  BY ModulusType, DhAssumption
<1>6. ASSUME NEW x \in Privs PROVE x \in Nat /\ Full <= x /\ x < Byte * Full
  <2> DEFINE f == Byte * Full
  <2>1. f >= 16 * Full
    BY <1>2, <1>3
  <2>2. f \in Nat
    BY <1>4
  <2>3. x \in f \div 4 .. (f \div 2) - 1
    BY DEF Privs
  <2> HIDE DEF f
  <2>4. x \in Nat /\ Full <= x /\ x < f
    BY <1>3, <2>1, <2>2, <2>3
  <2>. QED BY <2>4 DEF f
<1>7. ASSUME NEW y \in GwPrivs PROVE y \in Nat
  <2>1. y \in 1 .. P - 2
    BY DhAssumption
  <2>. QED BY <1>5, <2>1
<1>. QED BY <1>1, <1>3, <1>4, <1>5, <1>6, <1>7

LEMMA FullNumber ==
  ASSUME NEW n \in Nat, Full <= n, n < Span[KeyLen]
  PROVE  NumBytes(n) = KeyLen
<1> DEFINE Fits(k) == k \in 0 .. KeyLen /\ n < Span[k] /\ (k > 0 => n >= Span[k - 1])
<1>0. KeyLen \in Nat \ {0} /\ KeyLen - 1 \in Nat
  BY KeyBounds
<1>1. Fits(KeyLen)
  BY <1>0 DEF Full
<1>2. ASSUME NEW k, Fits(k) PROVE k = KeyLen
  <2> SUFFICES ASSUME k # KeyLen PROVE FALSE
    OBVIOUS
  <2>1. k \in Nat /\ (KeyLen - 1) - k \in Nat /\ k + ((KeyLen - 1) - k) = KeyLen - 1
    BY <1>0, <1>2
  <2>2. Span[k] <= Span[KeyLen - 1]
    <3> DEFINE j == (KeyLen - 1) - k
    <3>1. j \in Nat /\ k + j = KeyLen - 1
      BY <2>1
    <3> HIDE DEF j
    <3>2. Span[k] <= Span[k + j]
      BY <2>1, <3>1, SpanMonotone
    <3>. QED BY <3>1, <3>2
  <2>3. Span[k] \in Nat /\ Span[KeyLen - 1] \in Nat
    BY <1>0, <2>1, SpanGrows
  <2>4. n < Span[k] /\ Span[KeyLen - 1] <= n
    BY <1>2 DEF Full
  <2>. QED BY <2>2, <2>3, <2>4
<1>3. NumBytes(n) = CHOOSE k : Fits(k)
  BY DEF NumBytes
<1> HIDE DEF Fits
<1>4. Fits(CHOOSE k : Fits(k))
  BY <1>1
<1>. QED BY <1>2, <1>3, <1>4

\* The bytes of a number: itself, when they are read.
LEMMA PaddedReads ==
  ASSUME NEW n \in Nat, n < Span[KeyLen]
  PROVE  /\ WithZeros(n) \in Seq(Bytes) /\ Len(WithZeros(n)) = KeyLen
         /\ BN_bin2bn(WithZeros(n)) = n
<1>1. WithZeros(n) = [i \in 1 .. KeyLen |-> (n \div Span[KeyLen - i]) % Byte]
  BY DEF WithZeros
<1>2. KeyLen \in Nat
  BY KeyBounds
<1>. QED BY <1>1, <1>2, NumberOfDigits DEF Bytes

LEMMA FullWritten ==
  ASSUME NEW n \in Nat, Full <= n, n < Span[KeyLen], NEW rest
  PROVE  BN_bn2bin(n, rest) = WithZeros(n) /\ Minimal(n) = WithZeros(n)
<1>1. NumBytes(n) = KeyLen /\ KeyLen \in Nat
  BY FullNumber, KeyBounds
<1>2. BN_bn2bin(n, rest) = WithZeros(n)
  <2>1. \A i \in 1 .. KeyLen : i <= KeyLen
    BY <1>1
  <2>. QED BY <1>1, <2>1 DEF BN_bn2bin, WithZeros
<1>3. Minimal(n) = WithZeros(n)
  <2> DEFINE x == WithZeros(n)
  <2>1. x \in Seq(Bytes) /\ Len(x) = KeyLen
    BY PaddedReads
  <2>2. Minimal(n) = SubSeq(x, (KeyLen - KeyLen) + 1, KeyLen)
    BY <1>1 DEF Minimal
  <2>3. (KeyLen - KeyLen) + 1 = 1
    BY <1>1
  <2> HIDE DEF x
  <2>4. SubSeq(x, 1, Len(x)) = x
    BY <2>1
  <2>. QED BY <2>1, <2>2, <2>3, <2>4 DEF x
<1>. QED BY <1>2, <1>3

\* A key survives base 64, on the way to the gateway ...
LEMMA GatewayReads ==
  ASSUME NEW x \in Seq(Bytes), Len(x) = KeyLen
  PROVE  GwReads(encodeBase64(x)) = x
<1> DEFINE f == Unpacked(encodeBase64(x))
<1>0. KeyLen \in Nat \ {0} /\ x # <<>>
  BY KeyBounds
<1>1. f = x \/ f = Append(x, 0)
  BY <1>0, UnpackedAgain
<1>2. GwReads(encodeBase64(x)) = SubSeq(f, 1, KeyLen)
  BY DEF GwReads, Unpacked
<1> HIDE DEF f
<1>3. SubSeq(x, 1, Len(x)) = x /\ SubSeq(Append(x, 0), 1, Len(x)) = x
  OBVIOUS
<1>. QED BY <1>1, <1>2, <1>3

\* ... and back.
LEMMA AgentReads ==
  ASSUME NEW x \in Seq(Bytes), Len(x) = KeyLen, NEW junk
  PROVE  ReadKey(decodeBase64(encodeBase64(x)), junk) = x
<1> DEFINE d == decodeBase64(encodeBase64(x))
<1>0. KeyLen \in Nat \ {0} /\ x # <<>>
  BY KeyBounds
<1>1. d = IF Len(x) % 3 = 0 /\ Last(x) = 0 THEN Front(x) ELSE x
  BY <1>0, Decoded
<1>2. ReadKey(d, junk) =
        [i \in 1 .. KeyLen |-> IF i <= Len(d) THEN d[i] ELSE IF i = Len(d) + 1 THEN 0 ELSE junk[i]]
  BY DEF ReadKey
<1> HIDE DEF d
<1>3. x = [i \in 1 .. KeyLen |-> x[i]]
  OBVIOUS
<1>4. CASE d = x
  <2>1. \A i \in 1 .. KeyLen : i <= Len(d)
    BY <1>0, <1>4
  <2>2. ReadKey(d, junk) = [i \in 1 .. KeyLen |-> d[i]]
    BY <1>2, <2>1
  <2>. QED BY <1>3, <1>4, <2>2 DEF d
<1>5. CASE d = Front(x) /\ Last(x) = 0
  <2>1. Len(d) = KeyLen - 1 /\ \A i \in 1 .. KeyLen - 1 : d[i] = x[i]
    <3>1. Front(x) = SubSeq(x, 1, KeyLen - 1)
      BY DEF Front
    <3>2. /\ Len(SubSeq(x, 1, KeyLen - 1)) = KeyLen - 1
          /\ \A i \in 1 .. KeyLen - 1 : SubSeq(x, 1, KeyLen - 1)[i] = x[i]
      BY <1>0
    <3>. QED BY <3>1, <3>2, <1>5
  <2>2. x[KeyLen] = 0
    BY <1>5 DEF Last
  <2>3. ASSUME NEW i \in 1 .. KeyLen
        PROVE  (IF i <= Len(d) THEN d[i] ELSE IF i = Len(d) + 1 THEN 0 ELSE junk[i]) = x[i]
    <3>1. CASE i = KeyLen
      <4>1. ~(i <= Len(d)) /\ i = Len(d) + 1
        BY <1>0, <2>1, <3>1
      <4>. QED BY <4>1, <2>2, <3>1
    <3>2. CASE i # KeyLen
      <4>1. i <= Len(d) /\ i \in 1 .. KeyLen - 1
        BY <1>0, <2>1, <3>2
      <4>. QED BY <4>1, <2>1
    <3>. QED BY <3>1, <3>2
  <2>4. ReadKey(d, junk) = [i \in 1 .. KeyLen |-> x[i]]
    BY <1>2, <2>3
  <2>. QED BY <1>3, <2>4 DEF d
<1>. QED BY <1>1, <1>4, <1>5

LEMMA ModExpType ==
  ASSUME NEW b \in Nat, NEW e \in Nat
  PROVE  ModExp(b, e) \in Nat /\ ModExp(b, e) < Span[KeyLen]
<1>1. ModExp(b, e) = Power(b)[e]
  BY ModExpIsPower
<1>2. Power(b)[e] \in Nat /\ Power(b)[e] \in 0 .. P - 1
  BY PowerRuns
<1> DEFINE x == Power(b)[e]
<1>3. P \in Nat /\ P < Span[KeyLen] /\ Span[KeyLen] \in Nat
  BY KeyBounds
<1> HIDE DEF x
<1>4. x \in Nat /\ x \in 0 .. P - 1
  BY <1>2 DEF x
<1>5. x < Span[KeyLen]
  BY <1>3, <1>4
<1>. QED BY <1>1, <1>4, <1>5 DEF x

\* Both sides come to the same number.
LEMMA SharedSecret ==
  ASSUME NEW x \in Nat, NEW y \in Nat
  PROVE  ModExp(ModExp(G, x), y) = ModExp(ModExp(G, y), x)
<1>1. G \in Nat
  BY KeyBounds
<1>2. ModExp(G, x) = Power(G)[x] /\ ModExp(G, y) = Power(G)[y]
      /\ Power(G)[x] \in Nat /\ Power(G)[y] \in Nat
  BY <1>1, ModExpIsPower, PowerRuns
<1> DEFINE a == Power(G)[x]
           b == Power(G)[y]
<1>3. Power(a)[y] = Power(b)[x]
  BY <1>1, PowersCommute
<1>4. a \in Nat /\ b \in Nat
  BY <1>2
<1> HIDE DEF a, b
<1>5. ModExp(a, y) = Power(a)[y] /\ ModExp(b, x) = Power(b)[x]
  BY <1>4, ModExpIsPower
<1>6. ModExp(G, x) = a /\ ModExp(G, y) = b
  BY <1>2 DEF a, b
<1>. QED BY <1>3, <1>5, <1>6

-----------------------------------------------------------------------------
(* The negotiation: what each side has made of its private key so far.     *)

Asked ==
  \E x \in Privs :
    /\ priv = BN_bn2bin(x, Zeros) /\ pub = ModExp(G, x)
    /\ dhKey = encodeBase64(BN_bn2bin(pub, Zeros))

Answered ==
  \E y \in GwPrivs :
    /\ gwPub = ModExp(G, y) /\ gwSecret = ModExp(BN_bin2bn(GwReads(dhKey)), y)
    /\ gwDhKey \in {encodeBase64(WithZeros(gwPub)), encodeBase64(Minimal(gwPub))}

Derived ==
  \E junk \in [1 .. KeyLen -> Junk] :
    LET y == BN_bin2bn(ReadKey(decodeBase64(gwDhKey), junk)) IN
    ownSecret = IF y \in 2 .. P - 2 THEN BN_bn2bin(ModExp(y, BN_bin2bn(priv)), junk) ELSE junk

DhInv ==
  /\ stage \in {"idle", "asked", "answered", "derived"}
  /\ stage # "idle" => Asked
  /\ stage \in {"answered", "derived"} => Answered
  /\ stage = "derived" => Derived

LEMMA DhInvHolds == DhSpec => []DhInv
<1>1. DhInit => DhInv
  BY DEF DhInit, DhInv
<1>2. DhInv /\ [DhNext]_dhVars => DhInv'
  <2> SUFFICES ASSUME DhInv, [DhNext]_dhVars PROVE DhInv'
    OBVIOUS
  <2>1. CASE gkey
    <3>1. stage' = "asked"
      BY <2>1 DEF gkey
    <3>2. Asked'
      BY <2>1 DEF gkey, Asked
    <3>. QED BY <3>1, <3>2 DEF DhInv
  <2>2. CASE GwAnswer
    <3>1. stage = "asked" /\ stage' = "answered" /\ UNCHANGED <<priv, pub, dhKey>>
      BY <2>2 DEF GwAnswer
    <3>2. Asked'
      BY <3>1 DEF DhInv, Asked
    <3>3. Answered'
      BY <2>2, <3>1 DEF GwAnswer, Answered
    <3>. QED BY <3>1, <3>2, <3>3 DEF DhInv
  <2>3. CASE gsecret
    <3>1. /\ stage = "answered" /\ stage' = "derived"
          /\ UNCHANGED <<priv, pub, dhKey, gwPub, gwDhKey, gwSecret>>
      BY <2>3 DEF gsecret
    <3>2. Asked' /\ Answered'
      BY <3>1 DEF DhInv, Asked, Answered
    <3>3. Derived'
      BY <2>3, <3>1 DEF gsecret, Derived
    <3>. QED BY <3>1, <3>2, <3>3 DEF DhInv
  <2>4. CASE UNCHANGED dhVars
    <3>1. /\ stage' = stage /\ Asked' = Asked /\ Answered' = Answered /\ Derived' = Derived
      BY <2>4 DEF dhVars, Asked, Answered, Derived
    <3>. QED BY <3>1 DEF DhInv
  <2>. QED BY <2>1, <2>2, <2>3, <2>4 DEF DhNext
<1>. QED BY <1>1, <1>2, PTL DEF DhSpec

\* What is known of the numbers once the agent has asked.
LEMMA AskedKeys ==
  ASSUME NEW x \in Privs, priv = BN_bn2bin(x, Zeros), pub = ModExp(G, x)
  PROVE  x \in Nat /\ BN_bin2bn(priv) = x /\ pub \in Nat /\ pub < Span[KeyLen]
<1>1. x \in Nat /\ Full <= x /\ x < Span[KeyLen] /\ G \in Nat
  BY KeyBounds
<1>2. priv = WithZeros(x)
  BY <1>1, FullWritten
<1>3. BN_bin2bn(WithZeros(x)) = x
  BY <1>1, PaddedReads
<1>. QED BY <1>1, <1>2, <1>3, ModExpType

(***************************************************************************)
(* gsecret works with the private key gkey has drawn, for every P, G and   *)
(* every length of the keys (luadh1.c:42, 95).                             *)
(***************************************************************************)
THEOREM PrivateKeySurvives == DhSpec => []PrivateKeyKept
<1>1. DhInv => PrivateKeyKept
  <2> SUFFICES ASSUME DhInv, stage # "idle" PROVE ModExp(G, BN_bin2bn(priv)) = pub
    BY DEF PrivateKeyKept
  <2>1. PICK x \in Privs : priv = BN_bn2bin(x, Zeros) /\ pub = ModExp(G, x)
    BY DEF DhInv, Asked
  <2>2. BN_bin2bn(priv) = x
    BY <2>1, AskedKeys
  <2>. QED BY <2>1, <2>2
<1>. QED BY <1>1, DhInvHolds, PTL

(***************************************************************************)
(* Both sides hold the same secret at the end, unless one of the three     *)
(* numbers has a leading zero byte; for every P, G and length of the keys  *)
(* and whatever the gateway draws (luadh1.c:41-56, 77-114).                *)
(***************************************************************************)
THEOREM SecretsMatch == DhSpec => []SecretsAgree
<1>1. DhInv => SecretsAgree
  <2> SUFFICES ASSUME DhInv, stage = "derived", pub >= Full, GwPubReadable,
                      gwPub \in 2 .. P - 2, gwSecret >= Full
               PROVE  ownSecret = WithZeros(gwSecret)
    BY DEF SecretsAgree
  <2>1. PICK x \in Privs : /\ priv = BN_bn2bin(x, Zeros) /\ pub = ModExp(G, x)
                           /\ dhKey = encodeBase64(BN_bn2bin(pub, Zeros))
    BY DEF DhInv, Asked
  <2>2. PICK y \in GwPrivs :
          /\ gwPub = ModExp(G, y) /\ gwSecret = ModExp(BN_bin2bn(GwReads(dhKey)), y)
          /\ gwDhKey \in {encodeBase64(WithZeros(gwPub)), encodeBase64(Minimal(gwPub))}
    BY DEF DhInv, Answered
  <2>3. PICK junk \in [1 .. KeyLen -> Junk] :
          LET z == BN_bin2bn(ReadKey(decodeBase64(gwDhKey), junk)) IN
          ownSecret = IF z \in 2 .. P - 2 THEN BN_bn2bin(ModExp(z, BN_bin2bn(priv)), junk) ELSE junk
    BY DEF DhInv, Derived
  <2>4. x \in Nat /\ BN_bin2bn(priv) = x /\ pub \in Nat /\ pub < Span[KeyLen]
    BY <2>1, AskedKeys
  <2>5. y \in Nat /\ gwPub \in Nat /\ gwPub < Span[KeyLen] /\ Full \in Nat
    BY <2>2, KeyBounds, ModExpType
  <2>6. BN_bin2bn(GwReads(dhKey)) = pub
    <3>1. Full <= pub
      BY <2>4, <2>5
    <3>2. BN_bn2bin(pub, Zeros) = WithZeros(pub)
      BY <2>4, <3>1, FullWritten
    <3>3. WithZeros(pub) \in Seq(Bytes) /\ Len(WithZeros(pub)) = KeyLen /\ BN_bin2bn(WithZeros(pub)) = pub
      BY <2>4, PaddedReads
    <3>4. GwReads(dhKey) = WithZeros(pub)
      BY <2>1, <3>2, <3>3, GatewayReads
    <3>. QED BY <3>3, <3>4
  <2>7. gwSecret = ModExp(pub, y) /\ gwSecret = ModExp(gwPub, x)
    BY <2>1, <2>2, <2>4, <2>5, <2>6, SharedSecret
  <2>8. gwDhKey = encodeBase64(WithZeros(gwPub))
    <3>1. CASE Full <= gwPub
      <4>1. Minimal(gwPub) = WithZeros(gwPub)
        BY <2>5, <3>1, FullWritten
      <4>. QED BY <2>2, <4>1
    <3>2. CASE ~(Full <= gwPub)
      <4>1. ~(gwPub >= Full)
        BY <2>5, <3>2
      <4>. QED BY <4>1 DEF GwPubReadable
    <3>. QED BY <3>1, <3>2
  <2>9. BN_bin2bn(ReadKey(decodeBase64(gwDhKey), junk)) = gwPub
    <3>1. /\ WithZeros(gwPub) \in Seq(Bytes) /\ Len(WithZeros(gwPub)) = KeyLen
          /\ BN_bin2bn(WithZeros(gwPub)) = gwPub
      BY <2>5, PaddedReads
    <3>2. ReadKey(decodeBase64(gwDhKey), junk) = WithZeros(gwPub)
      BY <2>8, <3>1, AgentReads
    <3>. QED BY <3>1, <3>2
  <2>10. ownSecret = BN_bn2bin(gwSecret, junk)
    BY <2>3, <2>4, <2>7, <2>9
  <2>11. gwSecret \in Nat /\ gwSecret < Span[KeyLen]
    BY <2>4, <2>5, <2>7, ModExpType
  <2>12. Full <= gwSecret
    BY <2>5, <2>11
  <2>. QED BY <2>10, <2>11, <2>12, FullWritten
<1>. QED BY <1>1, DhInvHolds, PTL

-----------------------------------------------------------------------------
(* The strings of the run.                                                 *)

LEMMA StringsType == WireSpec => [](s \in Seq(Bytes))
<1>1. WireInit => s \in Seq(Bytes)
  BY DEF WireInit
<1>2. s \in Seq(Bytes) /\ [WireNext]_<<dhVars, s>> => (s \in Seq(Bytes))'
  <2> SUFFICES ASSUME s \in Seq(Bytes), [WireNext]_<<dhVars, s>> PROVE s' \in Seq(Bytes)
    OBVIOUS
  <2>1. CASE AddByte
    <3>1. PICK b \in Bytes : s' = Append(s, b)
      BY <2>1 DEF AddByte, Bytes
    <3>. QED BY <3>1
  <2>2. CASE s' = s
    BY <2>2
  <2>3. AddByte \/ s' = s
    BY DEF WireNext
  <2>. QED BY <2>1, <2>2, <2>3
<1>. QED BY <1>1, <1>2, PTL DEF WireSpec

(***************************************************************************)
(* A string of any length comes back from its letters, and only one of     *)
(* whole groups loses the zero at its end (base64.lua:22-34, 70-82).       *)
(***************************************************************************)
THEOREM StringsComeBack == WireSpec => []RoundTrip
<1>1. s \in Seq(Bytes) => RoundTrip
  BY BytesReadable
<1>. QED BY <1>1, StringsType, PTL

(***************************************************************************)
(* encodeBase64 is base 64: its letters are the digits of the number the   *)
(* string stands for, for strings of any length (base64.lua:4-38).         *)
(***************************************************************************)
THEOREM LettersAreDigits == WireSpec => []EncodesInBase64
<1>1. s \in Seq(Bytes) => EncodesInBase64
  BY EncodedInBase64
<1>. QED BY <1>1, StringsType, PTL

-----------------------------------------------------------------------------
(* The padding.                                                            *)

\* A message gets between one and sixteen zeros, and fills its blocks.
LEMMA PaddedLengthFills ==
  ASSUME NEW n \in Nat
  PROVE  PaddedLength(n) \in Nat /\ PaddedLength(n) % 16 = 0 /\ n < PaddedLength(n)
           /\ (PaddedLength(n) \div 16) * 16 = PaddedLength(n)
  BY DEF PaddedLength, BLOCKLEN

LEMMA PaddedType ==
  ASSUME NEW m \in Seq(Octet)
  PROVE  Padded(m) \in Seq(Block) /\ Len(Padded(m)) * 16 > Len(m)
<1> DEFINE size == PaddedLength(Len(m)) \div BLOCKLEN
           byte(n, j) == LET at == (n - 1) * BLOCKLEN + j IN IF at <= Len(m) THEN m[at] ELSE 0
<1>1. Len(m) \in Nat
  OBVIOUS
<1>2. /\ PaddedLength(Len(m)) \in Nat /\ Len(m) < PaddedLength(Len(m))
      /\ (PaddedLength(Len(m)) \div 16) * 16 = PaddedLength(Len(m))
  BY <1>1, PaddedLengthFills
<1>3. size \in Nat /\ size * 16 > Len(m)
  <2> DEFINE pl == PaddedLength(Len(m))
  <2>1. pl \in Nat /\ Len(m) < pl /\ (pl \div 16) * 16 = pl /\ size = pl \div 16
    BY <1>2 DEF BLOCKLEN
  <2> HIDE DEF pl, size
  <2> QED BY <2>1, <1>1
<1>4. \A n \in 1 .. size, j \in 1 .. BLOCKLEN : byte(n, j) \in Octet
  <2> SUFFICES ASSUME NEW n \in 1 .. size, NEW j \in 1 .. BLOCKLEN PROVE byte(n, j) \in Octet
    OBVIOUS
  <2>1. (n - 1) * BLOCKLEN + j \in Int /\ (n - 1) * BLOCKLEN + j >= 1
    BY <1>3 DEF BLOCKLEN
  <2>2. CASE (n - 1) * BLOCKLEN + j <= Len(m)
    <3>1. (n - 1) * BLOCKLEN + j \in 1 .. Len(m)
      BY <2>1, <2>2
    <3>2. m[(n - 1) * BLOCKLEN + j] \in Octet
      BY <3>1
    <3> QED BY <3>2, <2>2
  <2>3. CASE ~((n - 1) * BLOCKLEN + j <= Len(m))
    BY <2>3 DEF Octet
  <2> QED BY <2>2, <2>3
<1> HIDE DEF byte
<1>5. \A n \in 1 .. size : [j \in 1 .. BLOCKLEN |-> byte(n, j)] \in Block
  BY <1>4 DEF Block
<1>6. Padded(m) = [n \in 1 .. size |-> [j \in 1 .. BLOCKLEN |-> byte(n, j)]]
  BY DEF Padded, byte
<1> HIDE DEF size
<1>7. Padded(m) \in [1 .. size -> Block]
  BY <1>5, <1>6
<1>8. Padded(m) \in Seq(Block) /\ Len(Padded(m)) = size
  BY <1>7, <1>3
<1> QED BY <1>3, <1>8

-----------------------------------------------------------------------------
(* The chain, for every cipher.                                            *)

\* What the next block of this call is combined with.
Before(blocks) == IF blocks = <<>> THEN ZeroBlock ELSE blocks[Len(blocks)]

\* A call that encrypts has its secret's round keys, whatever was expanded
\* before, and the chain up to here.
EncryptInv ==
  call = "encrypt" =>
    /\ secret \in Secret /\ frame \in Message /\ input = Padded(frame)
    /\ RoundKey = KeyExpansion(secret) /\ Iv = Before(output)
    /\ Chained(secret, input, output)

FramesInv ==
  \A f \in frames :
    /\ f.secret \in Secret /\ f.message \in Message
    /\ Len(f.blocks) = Len(Padded(f.message))
    /\ Chained(f.secret, Padded(f.message), f.blocks)

ChainInv ==
  /\ call \in {"lua", "encrypt", "decrypt"} /\ (\E S : output \in Seq(S))
  /\ EncryptInv /\ FramesInv

LEMMA ChainInit == ASSUME Init PROVE ChainInv
<1>1. <<>> \in Seq({})
  OBVIOUS
<1> QED BY <1>1 DEF Init, ChainInv, EncryptInv, FramesInv

\* One more block, made of the one before it, goes on with the chain.
LEMMA ChainGrows ==
  ASSUME NEW k, NEW text \in Seq(Block), NEW S, NEW blocks \in Seq(S), Chained(k, text, blocks),
         Len(blocks) < Len(text), NEW c,
         c = Cipher(KeyExpansion(k), XorBlocks(text[Len(blocks) + 1], Before(blocks)))
  PROVE  Chained(k, text, Append(blocks, c)) /\ c = Before(Append(blocks, c))
<1> DEFINE more == Append(blocks, c)
<1>1. /\ blocks \in Seq(S \cup {c}) /\ more \in Seq(S \cup {c}) /\ Len(more) = Len(blocks) + 1
      /\ more[Len(blocks) + 1] = c /\ \A n \in 1 .. Len(blocks) : more[n] = blocks[n]
  OBVIOUS
<1>2. more # <<>>
  BY <1>1
<1>3. c = Before(more)
  BY <1>1, <1>2 DEF Before
<1> HIDE DEF more
<1>4. ASSUME NEW n \in 1 .. Len(more)
      PROVE  more[n] = Cipher(KeyExpansion(k),
                              XorBlocks(text[n], IF n = 1 THEN ZeroBlock ELSE more[n - 1]))
  <2>1. CASE n = Len(blocks) + 1
    <3>1. Before(blocks) = IF n = 1 THEN ZeroBlock ELSE more[n - 1]
      <4>1. CASE blocks = <<>>
        BY <2>1, <4>1 DEF Before
      <4>2. CASE blocks # <<>>
        <5>1. Len(blocks) \in 1 .. Len(blocks)
          BY <4>2
        <5> QED BY <2>1, <4>2, <5>1, <1>1 DEF Before
      <4> QED BY <4>1, <4>2
    <3> QED BY <2>1, <3>1, <1>1
  <2>2. CASE n # Len(blocks) + 1
    <3>1. n \in 1 .. Len(blocks)
      BY <2>2, <1>1
    <3>2. n = 1 \/ n - 1 \in 1 .. Len(blocks)
      BY <3>1
    <3>3. (IF n = 1 THEN ZeroBlock ELSE blocks[n - 1]) = IF n = 1 THEN ZeroBlock ELSE more[n - 1]
      BY <3>2, <1>1
    <3> QED BY <3>1, <3>3, <1>1 DEF Chained
  <2> QED BY <2>1, <2>2
<1>5. Len(more) <= Len(text)
  BY <1>1
<1> QED BY <1>3, <1>4, <1>5 DEF Chained, more

LEMMA ChainNext == ASSUME AesCbcAssumption, ChainInv, [Next]_vars PROVE ChainInv'
<1>1. CASE aes_encrypt_cbc
  <2>1. PICK k \in Secret, m \in Message :
          secret' = k /\ frame' = m /\ input' = Padded(m) /\ output' = <<>> /\ SetUp(k)
    BY <1>1 DEF aes_encrypt_cbc
  <2>2. m \in Seq(Octet)
    BY DEF AesCbcAssumption
  <2>3. Padded(m) \in Seq(Block)
    BY <2>2, PaddedType
  <2>4. Chained(k, Padded(m), <<>>)
    BY <2>3 DEF Chained
  <2>5. <<>> \in Seq({})
    OBVIOUS
  <2>6. EncryptInv'
    BY <2>1, <2>4 DEF EncryptInv, SetUp, Before
  <2> QED BY <1>1, <2>1, <2>5, <2>6 DEF ChainInv, FramesInv, aes_encrypt_cbc
<1>2. CASE EncryptBlock
  <2>1. PICK S : output \in Seq(S)
    BY DEF ChainInv
  <2>2. /\ secret \in Secret /\ frame \in Message /\ input = Padded(frame)
        /\ RoundKey = KeyExpansion(secret) /\ Iv = Before(output)
        /\ Chained(secret, input, output)
    BY <1>2 DEF EncryptBlock, ChainInv, EncryptInv
  <2>3. frame \in Seq(Octet)
    BY <2>2 DEF AesCbcAssumption
  <2>4. input \in Seq(Block)
    BY <2>2, <2>3, PaddedType
  <2>5. /\ Len(output) < Len(input) /\ output' = Append(output, Iv')
        /\ Iv' = Cipher(KeyExpansion(secret), XorBlocks(input[Len(output) + 1], Before(output)))
    BY <1>2, <2>2 DEF EncryptBlock, More, Here
  <2>6. Chained(secret, input, output') /\ Iv' = Before(output')
    BY <2>1, <2>2, <2>4, <2>5, ChainGrows
  <2>7. output' \in Seq(S \cup {Iv'})
    BY <2>1, <2>5
  <2>8. EncryptInv'
    BY <1>2, <2>2, <2>6 DEF EncryptBlock, EncryptInv, Before, Chained
  <2> QED BY <1>2, <2>7, <2>8 DEF ChainInv, FramesInv, EncryptBlock
<1>3. CASE EncryptReturns
  <2>1. /\ secret \in Secret /\ frame \in Message /\ input = Padded(frame)
        /\ Chained(secret, input, output) /\ ~More
    BY <1>3 DEF EncryptReturns, ChainInv, EncryptInv
  <2>2. PICK S : output \in Seq(S)
    BY DEF ChainInv
  <2>3. frame \in Seq(Octet)
    BY <2>1 DEF AesCbcAssumption
  <2>4. input \in Seq(Block)
    BY <2>1, <2>3, PaddedType
  <2>5. Len(output) = Len(Padded(frame))
    BY <2>1, <2>2, <2>4 DEF More, Chained
  <2>6. FramesInv'
    BY <1>3, <2>1, <2>5 DEF EncryptReturns, ChainInv, FramesInv
  <2>7. <<>> \in Seq({})
    OBVIOUS
  <2> QED BY <1>3, <2>6, <2>7 DEF ChainInv, EncryptInv, EncryptReturns, Return
<1>4. CASE aes_decrypt_cbc
  <2>1. output' = <<>> /\ <<>> \in Seq({})
    BY <1>4 DEF aes_decrypt_cbc
  <2> QED BY <1>4, <2>1 DEF ChainInv, EncryptInv, FramesInv, aes_decrypt_cbc
<1>5. CASE DecryptBlock
  <2>1. PICK S : output \in Seq(S)
    BY DEF ChainInv
  <2>2. PICK b : output' = Append(output, b)
    BY <1>5 DEF DecryptBlock
  <2>3. output' \in Seq(S \cup {b})
    BY <2>1, <2>2
  <2> QED BY <1>5, <2>3 DEF ChainInv, EncryptInv, FramesInv, DecryptBlock
<1>6. CASE DecryptReturns
  <2>1. output' = <<>> /\ <<>> \in Seq({})
    BY <1>6 DEF DecryptReturns, Return
  <2> QED BY <1>6, <2>1 DEF ChainInv, EncryptInv, FramesInv, DecryptReturns, Return
<1>7. CASE UNCHANGED vars
  BY <1>7 DEF vars, ChainInv, EncryptInv, FramesInv, Before
<1> QED BY <1>1, <1>2, <1>3, <1>4, <1>5, <1>6, <1>7 DEF Next

\* Every frame is the chain of CBC over its message, under its own secret and
\* from the zero block, whatever cipher there is and whatever calls were made
\* before it: the static round keys and Iv carry nothing over (luaaes.c:526-561).
THEOREM EveryFrameChained == Spec => []FramesChained
<1>1. ChainInv => FramesChained
  BY DEF ChainInv, FramesInv, FramesChained
<1>2. Init => ChainInv
  BY ChainInit
<1>3. ChainInv /\ [Next]_vars => ChainInv'
  BY ChainNext, AesCbcAssumption
<1> QED BY <1>1, <1>2, <1>3, PTL DEF Spec

-----------------------------------------------------------------------------
(* Opening, for a cipher its inverse undoes.                               *)

\* What is asked of the cipher; the run has the one of the code.
CipherInverts ==
  \A k \in Secret, b \in Block :
    /\ Cipher(KeyExpansion(k), b) \in Block
    /\ InvCipher(KeyExpansion(k), Cipher(KeyExpansion(k), b)) = b

\* Blocks stay blocks, and combining twice with the same one undoes itself.
LEMMA XorBlocksInverts ==
  ASSUME AesCbcAssumption, NEW a \in Block, NEW b \in Block
  PROVE  XorBlocks(a, b) \in Block /\ XorBlocks(XorBlocks(a, b), b) = a
<1>1. \A j \in 1 .. BLOCKLEN : a[j] \in Octet /\ b[j] \in Octet
  BY DEF Block
<1>2. \A j \in 1 .. BLOCKLEN : xor(a[j], b[j]) \in Octet /\ xor(xor(a[j], b[j]), b[j]) = a[j]
  BY <1>1 DEF AesCbcAssumption
<1>3. XorBlocks(a, b) = [j \in 1 .. BLOCKLEN |-> xor(a[j], b[j])]
  BY DEF XorBlocks
<1>4. XorBlocks(a, b) \in Block
  BY <1>2, <1>3 DEF Block
<1>5. XorBlocks(XorBlocks(a, b), b) = [j \in 1 .. BLOCKLEN |-> xor(XorBlocks(a, b)[j], b[j])]
  BY DEF XorBlocks
<1>6. \A j \in 1 .. BLOCKLEN : XorBlocks(a, b)[j] = xor(a[j], b[j])
  BY <1>3
<1>7. XorBlocks(XorBlocks(a, b), b) = [j \in 1 .. BLOCKLEN |-> a[j]]
  BY <1>2, <1>5, <1>6
<1>8. a = [j \in 1 .. BLOCKLEN |-> a[j]]
  BY DEF Block
<1> QED BY <1>4, <1>7, <1>8

LEMMA ZeroIsBlock == ZeroBlock \in Block
  BY DEF ZeroBlock, Block, Octet

\* Everything made of blocks is made of blocks.
BlocksInv ==
  /\ call = "encrypt" => output \in Seq(Block)
  /\ \A f \in frames : f.blocks \in Seq(Block)

\* A call that decrypts has put back what it went through.
DecryptInv ==
  call = "decrypt" =>
    /\ secret \in Secret /\ frame \in frames /\ input = frame.blocks
    /\ RoundKey = KeyExpansion(secret)
    /\ Iv = IF output = <<>> THEN ZeroBlock ELSE input[Len(output)]
    /\ Len(output) <= Len(input)
    /\ secret = frame.secret =>
         \A n \in 1 .. Len(output) : output[n] = Padded(frame.message)[n]

OpenedInv ==
  \A o \in opened :
    /\ o.frame \in frames
    /\ o.secret = o.frame.secret =>
         /\ Len(o.blocks) = Len(Padded(o.frame.message))
         /\ \A n \in 1 .. Len(o.blocks) : o.blocks[n] = Padded(o.frame.message)[n]

OpenInv == ChainInv /\ BlocksInv /\ DecryptInv /\ OpenedInv

LEMMA OpenInit == ASSUME Init PROVE OpenInv
<1>1. ChainInv
  BY ChainInit
<1> QED BY <1>1 DEF Init, OpenInv, BlocksInv, DecryptInv, OpenedInv

LEMMA EncryptedBlocks ==
  ASSUME AesCbcAssumption, CipherInverts, OpenInv, EncryptBlock
  PROVE  output' \in Seq(Block)
<1>1. /\ secret \in Secret /\ frame \in Message /\ input = Padded(frame)
      /\ RoundKey = KeyExpansion(secret) /\ Iv = Before(output) /\ output \in Seq(Block)
  BY DEF EncryptBlock, OpenInv, ChainInv, EncryptInv, BlocksInv
<1>2. frame \in Seq(Octet)
  BY <1>1 DEF AesCbcAssumption
<1>3. input \in Seq(Block)
  BY <1>1, <1>2, PaddedType
<1>4. Len(output) < Len(input)
  BY DEF EncryptBlock, More
<1>5. Here \in Block
  BY <1>1, <1>3, <1>4 DEF Here
<1>6. Iv \in Block
  <2>1. output # <<>> => output[Len(output)] \in Block
    BY <1>1
  <2> QED BY <1>1, <2>1, ZeroIsBlock DEF Before
<1>7. XorBlocks(Here, Iv) \in Block
  BY <1>5, <1>6, XorBlocksInverts
<1>8. Iv' \in Block
  BY <1>1, <1>7 DEF CipherInverts, EncryptBlock
<1> QED BY <1>1, <1>8 DEF EncryptBlock

\* One more block is put back.
LEMMA DecryptedBlocks ==
  ASSUME AesCbcAssumption, CipherInverts, OpenInv, DecryptBlock
  PROVE  DecryptInv'
<1>1. /\ secret \in Secret /\ frame \in frames /\ input = frame.blocks
      /\ RoundKey = KeyExpansion(secret)
      /\ Iv = (IF output = <<>> THEN ZeroBlock ELSE input[Len(output)])
      /\ secret = frame.secret =>
           \A n \in 1 .. Len(output) : output[n] = Padded(frame.message)[n]
  BY DEF DecryptBlock, OpenInv, DecryptInv
<1>2. PICK S : output \in Seq(S)
  BY DEF OpenInv, ChainInv
<1>3. input \in Seq(Block) /\ Len(output) < Len(input)
  BY <1>1 DEF OpenInv, BlocksInv, DecryptBlock, More
<1> DEFINE at == Len(output) + 1
           b  == XorBlocks(InvCipher(RoundKey, input[at]), Iv)
<1>4. output' = Append(output, b) /\ Iv' = input[at] /\ at \in 1 .. Len(input)
  BY <1>2, <1>3 DEF DecryptBlock, Here
<1>5. /\ output' \in Seq(S \cup {b}) /\ Len(output') = at /\ output'[at] = b
      /\ \A n \in 1 .. Len(output) : output'[n] = output[n]
  BY <1>2, <1>4
<1>6. ASSUME secret = frame.secret PROVE b = Padded(frame.message)[at]
  <2> DEFINE text == Padded(frame.message)
  <2>1. /\ frame.secret \in Secret /\ frame.message \in Message
        /\ Len(input) = Len(text) /\ Chained(secret, text, input)
    BY <1>1, <1>6 DEF OpenInv, ChainInv, FramesInv
  <2>2. frame.message \in Seq(Octet)
    BY <2>1 DEF AesCbcAssumption
  <2>3. text \in Seq(Block)
    BY <2>2, PaddedType
  <2>4. text[at] \in Block
    BY <2>1, <2>3, <1>4
  <2>5. Iv = (IF at = 1 THEN ZeroBlock ELSE input[at - 1]) /\ Iv \in Block
    <3>1. CASE output = <<>>
      BY <1>1, <3>1, ZeroIsBlock
    <3>2. CASE output # <<>>
      <4>1. Len(output) \in 1 .. Len(input) /\ at # 1 /\ at - 1 = Len(output)
        BY <1>2, <1>3, <3>2
      <4> QED BY <1>1, <1>3, <3>2, <4>1
    <3> QED BY <3>1, <3>2
  <2>6. input[at] = Cipher(RoundKey, XorBlocks(text[at], Iv))
    BY <1>1, <1>4, <2>1, <2>5 DEF Chained
  <2>7. /\ XorBlocks(text[at], Iv) \in Block
        /\ XorBlocks(XorBlocks(text[at], Iv), Iv) = text[at]
    BY <2>4, <2>5, XorBlocksInverts
  <2>8. InvCipher(RoundKey, input[at]) = XorBlocks(text[at], Iv)
    BY <1>1, <2>6, <2>7 DEF CipherInverts
  <2> QED BY <2>7, <2>8
<1> HIDE DEF b
<1>7. ASSUME secret = frame.secret, NEW n \in 1 .. Len(output')
      PROVE  output'[n] = Padded(frame.message)[n]
  <2>1. n \in 1 .. Len(output) \/ n = at
    BY <1>2, <1>5
  <2> QED BY <2>1, <1>1, <1>5, <1>6, <1>7
<1>8. output' # <<>>
  BY <1>2, <1>5
<1>9. UNCHANGED <<call, secret, frame, input, RoundKey, frames>>
  BY DEF DecryptBlock
<1> QED BY <1>1, <1>4, <1>5, <1>7, <1>8, <1>9 DEF DecryptInv

LEMMA OpenNext ==
  ASSUME AesCbcAssumption, CipherInverts, OpenInv, [Next]_vars PROVE OpenInv'
<1>1. ChainInv'
  BY ChainNext DEF OpenInv
<1>2. CASE aes_encrypt_cbc
  <2>1. output' = <<>> /\ <<>> \in Seq(Block)
    BY <1>2 DEF aes_encrypt_cbc
  <2> QED BY <1>1, <1>2, <2>1
    DEF OpenInv, BlocksInv, DecryptInv, OpenedInv, aes_encrypt_cbc
<1>3. CASE EncryptBlock
  <2>1. output' \in Seq(Block)
    BY <1>3, EncryptedBlocks
  <2> QED BY <1>1, <1>3, <2>1 DEF OpenInv, BlocksInv, DecryptInv, OpenedInv, EncryptBlock
<1>4. CASE EncryptReturns
  BY <1>1, <1>4 DEF OpenInv, BlocksInv, DecryptInv, OpenedInv, EncryptReturns, Return
<1>5. CASE aes_decrypt_cbc
  <2>1. PICK k \in Secret, f \in frames :
          secret' = k /\ frame' = f /\ input' = f.blocks /\ output' = <<>> /\ SetUp(k)
    BY <1>5 DEF aes_decrypt_cbc
  <2>2. f.blocks \in Seq(Block)
    BY DEF OpenInv, BlocksInv
  <2>3. Len(f.blocks) \in Nat /\ Len(<<>>) = 0
    BY <2>2
  <2>4. DecryptInv'
    BY <1>5, <2>1, <2>3 DEF DecryptInv, SetUp, aes_decrypt_cbc
  <2> QED BY <1>1, <1>5, <2>4 DEF OpenInv, BlocksInv, OpenedInv, aes_decrypt_cbc
<1>6. CASE DecryptBlock
  <2>1. DecryptInv'
    BY <1>6, DecryptedBlocks
  <2> QED BY <1>1, <1>6, <2>1 DEF OpenInv, BlocksInv, OpenedInv, DecryptBlock
<1>7. CASE DecryptReturns
  <2>1. /\ frame \in frames /\ input = frame.blocks /\ Len(output) <= Len(input)
        /\ secret = frame.secret =>
             \A n \in 1 .. Len(output) : output[n] = Padded(frame.message)[n]
    BY <1>7 DEF DecryptReturns, OpenInv, DecryptInv
  <2>2. PICK S : output \in Seq(S)
    BY DEF OpenInv, ChainInv
  <2>3. input \in Seq(Block) /\ Len(input) = Len(Padded(frame.message))
    BY <2>1 DEF OpenInv, BlocksInv, ChainInv, FramesInv
  <2>4. Len(output) = Len(Padded(frame.message))
    BY <1>7, <2>1, <2>2, <2>3 DEF DecryptReturns, More
  <2>5. OpenedInv'
    BY <1>7, <2>1, <2>4 DEF DecryptReturns, OpenedInv
  <2> QED BY <1>1, <1>7, <2>5 DEF OpenInv, BlocksInv, DecryptInv, DecryptReturns, Return
<1>8. CASE UNCHANGED vars
  BY <1>1, <1>8 DEF vars, OpenInv, BlocksInv, DecryptInv, OpenedInv
<1> QED BY <1>2, <1>3, <1>4, <1>5, <1>6, <1>7, <1>8 DEF Next

\* Octet p of the blocks is byte p of the message, or a zero behind it.
LEMMA PaddedBytes ==
  ASSUME NEW m \in Seq(Octet), NEW p \in 1 .. Len(Padded(m)) * 16
  PROVE  Padded(m)[((p - 1) \div 16) + 1][((p - 1) % 16) + 1]
           = IF p <= Len(m) THEN m[p] ELSE 0
<1> DEFINE n == ((p - 1) \div 16) + 1
           j == ((p - 1) % 16) + 1
           size == PaddedLength(Len(m)) \div BLOCKLEN
<1>1. size \in Nat
  <2>1. Len(m) \in Nat
    OBVIOUS
  <2>2. PaddedLength(Len(m)) \in Nat
    BY <2>1, PaddedLengthFills
  <2> QED BY <2>2 DEF BLOCKLEN
<1>2. Len(Padded(m)) = size
  BY <1>1 DEF Padded
<1>3. n \in 1 .. size /\ j \in 1 .. 16 /\ (n - 1) * 16 + j = p
  <2> HIDE DEF size
  <2>1. p \in Int /\ 1 <= p /\ p <= size * 16
    BY <1>1, <1>2
  <2> QED BY <2>1, <1>1
<1>4. Padded(m)[n][j] =
        LET at == (n - 1) * BLOCKLEN + j IN IF at <= Len(m) THEN m[at] ELSE 0
  <2> HIDE DEF n, j
  <2> QED BY <1>3 DEF Padded, BLOCKLEN
<1> HIDE DEF n, j
<1>5. Padded(m)[n][j] = IF p <= Len(m) THEN m[p] ELSE 0
  BY <1>3, <1>4 DEF BLOCKLEN
<1> QED BY <1>5 DEF n, j

\* With a cipher that its inverse undoes, a frame opened with the secret it was
\* made with is its message and at least one zero, whatever was encrypted or
\* opened before or in between (luaaes.c:563-598, 624-638).
THEOREM EveryFrameOpens ==
  ASSUME CipherInverts PROVE Spec => []OpensAsSealed
<1>1. ASSUME OpenInv PROVE OpensAsSealed
  <2> SUFFICES ASSUME NEW o \in opened, o.secret = o.frame.secret
               PROVE  /\ Len(o.blocks) * BLOCKLEN > Len(o.frame.message)
                      /\ \A p \in 1 .. Len(o.blocks) * BLOCKLEN :
                           o.blocks[((p - 1) \div BLOCKLEN) + 1][((p - 1) % BLOCKLEN) + 1]
                             = IF p <= Len(o.frame.message) THEN o.frame.message[p] ELSE 0
    BY DEF OpensAsSealed
  <2> DEFINE m == o.frame.message
  <2>1. /\ m \in Message /\ Len(o.blocks) = Len(Padded(m))
        /\ \A n \in 1 .. Len(o.blocks) : o.blocks[n] = Padded(m)[n]
    BY <1>1 DEF OpenInv, OpenedInv, ChainInv, FramesInv
  <2>2. m \in Seq(Octet)
    BY <2>1, AesCbcAssumption DEF AesCbcAssumption
  <2> HIDE DEF m
  <2>3. Padded(m) \in Seq(Block) /\ Len(Padded(m)) * 16 > Len(m)
    BY <2>2, PaddedType
  <2>4. ASSUME NEW p \in 1 .. Len(o.blocks) * 16
        PROVE  o.blocks[((p - 1) \div 16) + 1][((p - 1) % 16) + 1]
                 = IF p <= Len(m) THEN m[p] ELSE 0
    <3>1. Len(o.blocks) \in Nat
      BY <2>1, <2>3
    <3>2. ((p - 1) \div 16) + 1 \in 1 .. Len(o.blocks)
      BY <3>1
    <3>3. o.blocks[((p - 1) \div 16) + 1] = Padded(m)[((p - 1) \div 16) + 1]
      BY <2>1, <3>2
    <3>4. p \in 1 .. Len(Padded(m)) * 16
      BY <2>1
    <3> QED BY <2>2, <3>3, <3>4, PaddedBytes
  <2> QED BY <2>1, <2>3, <2>4 DEF m, BLOCKLEN
<1>2. Init => OpenInv
  BY OpenInit
<1>3. OpenInv /\ [Next]_vars => OpenInv'
  BY OpenNext, AesCbcAssumption
<1> QED BY <1>1, <1>2, <1>3, PTL DEF Spec
=============================================================================
