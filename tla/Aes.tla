--------------------------------- MODULE Aes ---------------------------------
(***************************************************************************)
(* The block cipher of lib/so/luaaes.c, AES with a key of 128 bits, which  *)
(* AesCbc has as a parameter.  A block is 16 bytes, four to a column; a    *)
(* key is 16 bytes, and its expansion 44 words of four.                    *)
(***************************************************************************)
EXTENDS Bitwise, SequencesExt

Nk == 4    \* words of a key, and of a block
Nr == 10   \* rounds

\* Exclusive or of two bytes, as a table: its definition is recursive.
XorTable == [a \in 0 .. 255 |-> [b \in 0 .. 255 |-> a ^^ b]]

XorByte(a, b) == XorTable[a][b]

sbox == <<
     99, 124, 119, 123, 242, 107, 111, 197,  48,   1, 103,  43, 254, 215, 171, 118,
    202, 130, 201, 125, 250,  89,  71, 240, 173, 212, 162, 175, 156, 164, 114, 192,
    183, 253, 147,  38,  54,  63, 247, 204,  52, 165, 229, 241, 113, 216,  49,  21,
      4, 199,  35, 195,  24, 150,   5, 154,   7,  18, 128, 226, 235,  39, 178, 117,
      9, 131,  44,  26,  27, 110,  90, 160,  82,  59, 214, 179,  41, 227,  47, 132,
     83, 209,   0, 237,  32, 252, 177,  91, 106, 203, 190,  57,  74,  76,  88, 207,
    208, 239, 170, 251,  67,  77,  51, 133,  69, 249,   2, 127,  80,  60, 159, 168,
     81, 163,  64, 143, 146, 157,  56, 245, 188, 182, 218,  33,  16, 255, 243, 210,
    205,  12,  19, 236,  95, 151,  68,  23, 196, 167, 126,  61, 100,  93,  25, 115,
     96, 129,  79, 220,  34,  42, 144, 136,  70, 238, 184,  20, 222,  94,  11, 219,
    224,  50,  58,  10,  73,   6,  36,  92, 194, 211, 172,  98, 145, 149, 228, 121,
    231, 200,  55, 109, 141, 213,  78, 169, 108,  86, 244, 234, 101, 122, 174,   8,
    186, 120,  37,  46,  28, 166, 180, 198, 232, 221, 116,  31,  75, 189, 139, 138,
    112,  62, 181, 102,  72,   3, 246,  14,  97,  53,  87, 185, 134, 193,  29, 158,
    225, 248, 152,  17, 105, 217, 142, 148, 155,  30, 135, 233, 206,  85,  40, 223,
    140, 161, 137,  13, 191, 230,  66, 104,  65, 153,  45,  15, 176,  84, 187,  22 >>

rsbox == <<
     82,   9, 106, 213,  48,  54, 165,  56, 191,  64, 163, 158, 129, 243, 215, 251,
    124, 227,  57, 130, 155,  47, 255, 135,  52, 142,  67,  68, 196, 222, 233, 203,
     84, 123, 148,  50, 166, 194,  35,  61, 238,  76, 149,  11,  66, 250, 195,  78,
      8,  46, 161, 102,  40, 217,  36, 178, 118,  91, 162,  73, 109, 139, 209,  37,
    114, 248, 246, 100, 134, 104, 152,  22, 212, 164,  92, 204,  93, 101, 182, 146,
    108, 112,  72,  80, 253, 237, 185, 218,  94,  21,  70,  87, 167, 141, 157, 132,
    144, 216, 171,   0, 140, 188, 211,  10, 247, 228,  88,   5, 184, 179,  69,   6,
    208,  44,  30, 143, 202,  63,  15,   2, 193, 175, 189,   3,   1,  19, 138, 107,
     58, 145,  17,  65,  79, 103, 220, 234, 151, 242, 207, 206, 240, 180, 230, 115,
    150, 172, 116,  34, 231, 173,  53, 133, 226, 249,  55, 232,  28, 117, 223, 110,
     71, 241,  26, 113,  29,  41, 197, 137, 111, 183,  98,  14, 170,  24, 190,  27,
    252,  86,  62,  75, 198, 210, 121,  32, 154, 219, 192, 254, 120, 205,  90, 244,
     31, 221, 168,  51, 136,   7, 199,  49, 177,  18,  16,  89,  39, 128, 236,  95,
     96,  81, 127, 169,  25, 181,  74,  13,  45, 229, 122, 159, 147, 201, 156, 239,
    160, 224,  59,  77, 174,  42, 245, 176, 200, 235, 187,  60, 131,  83, 153,  97,
     23,  43,   4, 126, 186, 119, 214,  38, 225, 105,  20,  99,  85,  33,  12, 125 >>

Rcon == <<141, 1, 2, 4, 8, 16, 32, 64, 128, 27, 54>>

getSBoxValue(num)  == sbox[num + 1]
getSBoxInvert(num) == rsbox[num + 1]

-----------------------------------------------------------------------------
(* Columns of a block, and words of a key.                                 *)

Column(s, i) == SubSeq(s, 4 * i + 1, 4 * i + 4)

\* A block from what its columns become.
EachColumn(Op(_)) == Op(0) \o Op(1) \o Op(2) \o Op(3)

XorWord(a, b) == <<XorByte(a[1], b[1]), XorByte(a[2], b[2]), XorByte(a[3], b[3]), XorByte(a[4], b[4])>>

MapBytes(Op(_), w) == <<Op(w[1]), Op(w[2]), Op(w[3]), Op(w[4])>>

-----------------------------------------------------------------------------
(* KeyExpansion.                                                           *)

\* Four words, i / Nk rounds in: each is the one before it, the first of them
\* rotated and substituted, and the one Nk before it.
NextWords(w, round) ==
  LET a == w[4 * round]
      t == MapBytes(getSBoxValue, <<a[2], a[3], a[4], a[1]>>)
      Old(n) == w[4 * round - Nk + n]
      w1 == XorWord(Old(1), XorWord(t, <<Rcon[round + 1], 0, 0, 0>>))
      w2 == XorWord(Old(2), w1)
      w3 == XorWord(Old(3), w2)
  IN w \o <<w1, w2, w3, XorWord(Old(4), w3)>>

ExpandKey(key) ==
  FoldLeft(NextWords, <<Column(key, 0), Column(key, 1), Column(key, 2), Column(key, 3)>>,
           [round \in 1 .. Nr |-> round])

-----------------------------------------------------------------------------
(* The steps of a round.                                                   *)

AddRoundKey(w, round, s) ==
  LET Op(i) == XorWord(Column(s, i), w[4 * round + i + 1]) IN EachColumn(Op)

SubBytes(s)    == LET Op(i) == MapBytes(getSBoxValue, Column(s, i)) IN EachColumn(Op)
InvSubBytes(s) == LET Op(i) == MapBytes(getSBoxInvert, Column(s, i)) IN EachColumn(Op)

\* Row j moves by j columns.
ShiftRows(s) ==
  LET Op(i) == <<s[4 * i + 1], s[4 * ((i + 1) % 4) + 2], s[4 * ((i + 2) % 4) + 3], s[4 * ((i + 3) % 4) + 4]>>
  IN EachColumn(Op)

InvShiftRows(s) ==
  LET Op(i) == <<s[4 * i + 1], s[4 * ((i + 3) % 4) + 2], s[4 * ((i + 2) % 4) + 3], s[4 * ((i + 1) % 4) + 4]>>
  IN EachColumn(Op)

\* Eight bits: what is shifted out is gone.
xtime(x) == XorByte((2 * x) % 256, (x \div 128) * 27)

MixColumns(s) ==
  LET Mix(a) == LET Tmp == XorByte(XorByte(a[1], a[2]), XorByte(a[3], a[4]))
                    Row(x, y) == XorByte(x, XorByte(xtime(XorByte(x, y)), Tmp))
                IN <<Row(a[1], a[2]), Row(a[2], a[3]), Row(a[3], a[4]), Row(a[4], a[1])>>
      Op(i) == Mix(Column(s, i))
  IN EachColumn(Op)

\* Of the five bits of y the code looks at, the factors here need four.
Multiply(x, y) ==
  LET Bit(n, v) == IF (y \div n) % 2 = 1 THEN v ELSE 0
      x2 == xtime(x)
      x4 == xtime(x2)
  IN XorByte(XorByte(Bit(1, x), Bit(2, x2)), XorByte(Bit(4, x4), Bit(8, xtime(x4))))

InvMixColumns(s) ==
  LET Row(w, f) == XorByte(XorByte(Multiply(w[1], f[1]), Multiply(w[2], f[2])),
                           XorByte(Multiply(w[3], f[3]), Multiply(w[4], f[4])))
      Mix(a) == <<Row(a, <<14, 11, 13, 9>>), Row(a, <<9, 14, 11, 13>>),
                  Row(a, <<13, 9, 14, 11>>), Row(a, <<11, 13, 9, 14>>)>>
      Op(i) == Mix(Column(s, i))
  IN EachColumn(Op)

-----------------------------------------------------------------------------
(* Cipher and InvCipher, of a block s under the words w of a key.          *)

\* Op(b), b computed first: the rounds would be nested too deep otherwise.
Of(b, Op(_)) == CHOOSE c \in {Op(x) : x \in {b}} : TRUE

AesCipher(w, s) ==
  LET Round(b, round) == Of(b, LAMBDA x : AddRoundKey(w, round, MixColumns(ShiftRows(SubBytes(x)))))
      rounds == [n \in 1 .. Nr - 1 |-> n]
  IN AddRoundKey(w, Nr, ShiftRows(SubBytes(FoldLeft(Round, AddRoundKey(w, 0, s), rounds))))

AesInvCipher(w, s) ==
  LET Round(b, round) == Of(b, LAMBDA x : InvMixColumns(AddRoundKey(w, round, InvSubBytes(InvShiftRows(x)))))
      rounds == [n \in 1 .. Nr - 1 |-> Nr - n]
  IN AddRoundKey(w, 0, InvSubBytes(InvShiftRows(FoldLeft(Round, AddRoundKey(w, Nr, s), rounds))))
=============================================================================
