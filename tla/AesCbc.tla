------------------------------- MODULE AesCbc -------------------------------
(***************************************************************************)
(* aes.encrypt_cbc and aes.decrypt_cbc of lib/so/luaaes.c: the padding, the*)
(* chain of blocks and the static variables every call shares with those   *)
(* before it, of whichever session.  The cipher of a block is a parameter, *)
(* Aes has the one of the code.  The gateway (not in the repository) makes *)
(* its frames the same way.                                                *)
(***************************************************************************)
EXTENDS Integers, Sequences, FiniteSets

CONSTANTS
  Secret,             \* the secrets of the sessions
  Message,            \* what is sent, as bytes
  xor(_, _),          \* of two bytes
  KeyExpansion(_),    \* the round keys of a secret
  Cipher(_, _),       \* of a block, under round keys
  InvCipher(_, _),
  MaxFrames           \* how many frames are made, at most

Octet    == 0 .. 255
BLOCKLEN == 16
Block    == [1 .. BLOCKLEN -> Octet]

ASSUME AesCbcAssumption ==
  /\ \A a, b \in Octet : xor(a, b) \in Octet /\ xor(xor(a, b), b) = a
  /\ Message \subseteq Seq(Octet \ {0}) /\ MaxFrames \in Nat

VARIABLES
  call,      \* "encrypt", "decrypt", or "lua": outside of both
  secret,    \* what the call was given: the secret
  frame,     \* the message, or the frame to open,
  input,     \* and its blocks
  output,    \* the blocks made so far
  RoundKey,  \* static: what the last key was expanded to
  Iv,        \* static: what the next block is combined with
  frames,    \* the frames that were made: secret, message and blocks
  opened     \* the one opened last, if any: with which secret, and the blocks

vars == <<call, secret, frame, input, output, RoundKey, Iv, frames, opened>>

-----------------------------------------------------------------------------
(* Blocks.                                                                 *)

ZeroBlock == [j \in 1 .. BLOCKLEN |-> 0]

XorBlocks(a, b) == [j \in 1 .. BLOCKLEN |-> xor(a[j], b[j])]

\* Mutant: a message that fills its last block has no zero behind it.
LengthUnterminated(slen) == ((slen + BLOCKLEN - 1) \div BLOCKLEN) * BLOCKLEN

\* One more than the message has, rounded up.
PaddedLength(slen) ==
  IF (slen + 1) % BLOCKLEN = 0 THEN slen + 1 ELSE ((slen + 1) \div BLOCKLEN + 1) * BLOCKLEN

\* calloc and strncpy: the message, and zeros behind it.
Padded(m) ==
  [n \in 1 .. PaddedLength(Len(m)) \div BLOCKLEN |->
     [j \in 1 .. BLOCKLEN |->
        LET at == (n - 1) * BLOCKLEN + j IN IF at <= Len(m) THEN m[at] ELSE 0]]

\* CBC as it is defined: each block is combined with the one before it.
Chained(k, text, blocks) ==
  /\ Len(blocks) <= Len(text)
  /\ \A n \in 1 .. Len(blocks) :
       blocks[n] = Cipher(KeyExpansion(k),
                          XorBlocks(text[n], IF n = 1 THEN ZeroBlock ELSE blocks[n - 1]))

-----------------------------------------------------------------------------
(* The calls.                                                              *)

Init ==
  /\ call = "lua" /\ secret = <<>> /\ frame = <<>> /\ input = <<>> /\ output = <<>>
  /\ RoundKey = <<>> /\ Iv = ZeroBlock /\ frames = {} /\ opened = {}

Lua == call = "lua"

\* Mutant: the statics are set up once.
SetUpOnce(k) ==
  IF RoundKey = <<>> THEN RoundKey' = KeyExpansion(k) /\ Iv' = ZeroBlock
                     ELSE UNCHANGED <<RoundKey, Iv>>

\* Key and iv are given with every call.
SetUp(k) == RoundKey' = KeyExpansion(k) /\ Iv' = ZeroBlock

aes_encrypt_cbc ==
  /\ Lua /\ Cardinality(frames) < MaxFrames /\ call' = "encrypt"
  /\ \E k \in Secret, m \in Message :
       secret' = k /\ frame' = m /\ input' = Padded(m) /\ output' = <<>> /\ SetUp(k)
  /\ UNCHANGED <<frames, opened>>

aes_decrypt_cbc ==
  /\ Lua /\ call' = "decrypt"
  /\ \E k \in Secret, f \in frames :
       secret' = k /\ frame' = f /\ input' = f.blocks /\ output' = <<>> /\ SetUp(k)
  /\ UNCHANGED <<frames, opened>>

More == Len(output) < Len(input)
Here == input[Len(output) + 1]

EncryptBlock ==
  /\ call = "encrypt" /\ More
  /\ Iv' = Cipher(RoundKey, XorBlocks(Here, Iv)) /\ output' = Append(output, Iv')
  /\ UNCHANGED <<call, secret, frame, input, RoundKey, frames, opened>>

\* Mutant: the chain goes on with what came out.
DecryptChained ==
  /\ call = "decrypt" /\ More
  /\ Iv' = XorBlocks(InvCipher(RoundKey, Here), Iv) /\ output' = Append(output, Iv')
  /\ UNCHANGED <<call, secret, frame, input, RoundKey, frames, opened>>

DecryptBlock ==
  /\ call = "decrypt" /\ More
  /\ output' = Append(output, XorBlocks(InvCipher(RoundKey, Here), Iv)) /\ Iv' = Here
  /\ UNCHANGED <<call, secret, frame, input, RoundKey, frames, opened>>

\* The statics stay, the buffers do not.
Return == call' = "lua" /\ secret' = <<>> /\ frame' = <<>> /\ input' = <<>> /\ output' = <<>>

EncryptReturns ==
  /\ call = "encrypt" /\ ~More /\ Return
  /\ frames' = frames \cup {[secret |-> secret, message |-> frame, blocks |-> output]}
  /\ UNCHANGED <<RoundKey, Iv, opened>>

DecryptReturns ==
  /\ call = "decrypt" /\ ~More /\ Return
  /\ opened' = {[secret |-> secret, frame |-> frame, blocks |-> output]}
  /\ UNCHANGED <<RoundKey, Iv, frames>>

Next ==
  \/ aes_encrypt_cbc \/ EncryptBlock \/ EncryptReturns
  \/ aes_decrypt_cbc \/ DecryptBlock \/ DecryptReturns

Spec == Init /\ [][Next]_vars

-----------------------------------------------------------------------------
(* Properties.                                                             *)

\* A frame is what CBC says of its message and of its secret, whichever calls
\* of whichever session were made before: nothing of them is left in the
\* static round keys and the static Iv (luaaes.c:526-561, 602-645).
FramesChained ==
  \A f \in frames :
    Len(f.blocks) = Len(Padded(f.message)) /\ Chained(f.secret, Padded(f.message), f.blocks)

\* Opened with its secret a frame is the message, and at least one zero, which
\* is where json.decode stops (luaaes.c:563-598, 624-638).
OpensAsSealed ==
  \A o \in opened :
    o.secret = o.frame.secret =>
      /\ Len(o.blocks) * BLOCKLEN > Len(o.frame.message)
      /\ \A p \in 1 .. Len(o.blocks) * BLOCKLEN :
           o.blocks[((p - 1) \div BLOCKLEN) + 1][((p - 1) % BLOCKLEN) + 1]
             = IF p <= Len(o.frame.message) THEN o.frame.message[p] ELSE 0
=============================================================================
