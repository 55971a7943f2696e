-------------------------------- MODULE MCAes --------------------------------
(* The run of AesCbc with the cipher of Aes.                               *)
EXTENDS AesCbc, Aes

\* The key, two blocks of plain text and what they become, of the comment
\* luaaes.c begins with.
SomeKey   == <<43, 126, 21, 22, 40, 174, 210, 166, 171, 247, 21, 136, 9, 207, 79, 60>>
SomeText  == <<<<107, 193, 190, 226, 46, 64, 159, 150, 233, 61, 126, 17, 115, 147, 23, 42>>,
               <<174, 45, 138, 87, 30, 3, 172, 156, 158, 183, 111, 172, 69, 175, 142, 81>>>>
SomeBlocks == <<<<58, 215, 123, 180, 13, 122, 54, 96, 168, 158, 202, 243, 36, 102, 239, 151>>,
                <<245, 211, 213, 133, 3, 185, 105, 157, 231, 133, 137, 90, 150, 253, 186, 175>>>>

OtherKey == [n \in 1 .. 16 |-> 255 - n]

ASSUME Vectors ==
  \A n \in 1 .. 2 :
    /\ AesCipher(ExpandKey(SomeKey), SomeText[n]) = SomeBlocks[n]
    /\ AesInvCipher(ExpandKey(SomeKey), SomeBlocks[n]) = SomeText[n]

Secrets == {SomeKey, OtherKey}

\* A message that leaves one byte of its block, one that fills it, and one of
\* three blocks.
Text(length) == [n \in 1 .. length |-> 32 + n]
Messages == {Text(15), Text(16), Text(40)}
=============================================================================
