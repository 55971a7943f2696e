------------------------------ MODULE MCBase64 ------------------------------
(* Every byte string up to a length, for the conversions of Base64.        *)
EXTENDS Base64

CONSTANT MaxLen

VARIABLE s

AddByte == Len(s) < MaxLen /\ \E b \in 0 .. Byte - 1 : s' = Append(s, b)

-----------------------------------------------------------------------------
(* Properties.                                                             *)

\* What decodeBase64 makes of the letters of encodeBase64 is the string they
\* stand for, zeros at its end included; only a string of whole groups loses
\* its last zero (base64.lua:22-34, 70-82).
RoundTrip ==
  s # <<>> =>
    /\ Decodable(encodeBase64(s))
    /\ decodeBase64(encodeBase64(s)) =
         IF Len(s) % 3 = 0 /\ Last(s) = 0 THEN Front(s) ELSE s

\* The definition of base 64: the string, filled up with zeros to whole groups,
\* is one number; its letters are the digits of that number in base Char, from
\* the top, as many as hold bits of the string, and the rest is Pad.
Number ==
  LET num[n \in Nat] == IF n = 0 THEN 0 ELSE num[n - 1] * Byte + ByteAt(s, n)
  IN num[3 * Groups(s, 3)]

CharSpan[n \in Nat] == IF n = 0 THEN 1 ELSE CharSpan[n - 1] * Char

\* encodeBase64, which works in groups of three bytes, is base 64 as every
\* other implementation, the gateway's included, understands it
\* (base64.lua:4-38).
EncodesInBase64 ==
  LET length == 4 * Groups(s, 3)
      number == Number
  IN encodeBase64(s) =
       [i \in 1 .. length |->
          IF 3 * (i - 1) < 4 * Len(s) THEN (number \div CharSpan[length - i]) % Char ELSE Pad]
=============================================================================
