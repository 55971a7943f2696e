------------------------------- MODULE Base64 -------------------------------
(***************************************************************************)
(* encodeBase64 and decodeBase64 of base64.lua, on sequences of numbers: a *)
(* byte is below Byte (256), a letter is its place in the alphabet, below  *)
(* Char (64), and "=" is Pad.  The sizes are constants so that every text  *)
(* of a smaller alphabet with the same geometry can be enumerated.         *)
(***************************************************************************)
EXTENDS Integers, FiniteSets, SequencesExt

CONSTANTS Byte, Char

\* A byte has four of the digits (two bits each) a letter has three of.
ASSUME Base64Assumption ==
  \E d \in 2 .. Byte : Byte = d * d * d * d /\ Char = d * d * d

Pad == Char

\* What a letter and a byte count, by their place in a group.
CharPlace == <<Char * Char * Char, Char * Char, Char, 1>>
BytePlace == <<Byte * Byte, Byte, 1>>

\* The i-th byte of a string, where there may be none left.
ByteAt(g, i) == IF i <= Len(g) THEN g[i] ELSE 0

Bits(g) == ByteAt(g, 1) * BytePlace[1] + ByteAt(g, 2) * BytePlace[2] + ByteAt(g, 3)

\* Mutant: one letter for each byte there is.
FewerLetters(g) ==
  [k \in 1 .. 4 |-> IF k <= Len(g) THEN (Bits(g) \div CharPlace[k]) % Char ELSE Pad]

\* One letter more than there are bytes, and the rest filled up.
EncodeGroup(g) ==
  [k \in 1 .. 4 |-> IF k <= Len(g) + 1 THEN (Bits(g) \div CharPlace[k]) % Char ELSE Pad]

Groups(s, size) == (Len(s) + size - 1) \div size

Group(s, size, n) == SubSeq(s, size * (n - 1) + 1, Min({size * n, Len(s)}))

encodeBase64(s) ==
  FlattenSeq([n \in 1 .. Groups(s, 3) |-> EncodeGroup(Group(s, 3, n))])

Letters(t) == {k \in 1 .. Len(t) : t[k] # Pad}

Value(c) == IF c = Pad THEN 0 ELSE c

\* As many bytes as there are letters, but three at most: one too many for a
\* group that was filled up, and that one is zero.
DecodeGroup(t) ==
  LET data == ((Value(t[1]) * Char + Value(t[2])) * Char + Value(t[3])) * Char + Value(t[4])
  IN [k \in 1 .. Min({Cardinality(Letters(t)), 3}) |-> (data \div BytePlace[k]) % Byte]

\* Anything else returns nothing, or raises when nothing at all is left.
Decodable(t) ==
  /\ Len(t) % 4 = 0 /\ \A i \in 1 .. Len(t) : t[i] \in 0 .. Char
  /\ Letters(t) # {}

\* Mutant: the zero is left in place.
KeepsZero(s) == s

\* A zero at the end is taken for that one byte too many.
DropZero(s) == IF Last(s) = 0 THEN Front(s) ELSE s

decodeBase64(t) ==
  DropZero(FlattenSeq([n \in 1 .. Groups(t, 4) |-> DecodeGroup(Group(t, 4, n))]))
=============================================================================
