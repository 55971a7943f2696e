------------------------------- MODULE DhKeys -------------------------------
(***************************************************************************)
(* The numbers of a key negotiation on their way: dh.gkey and dh.gsecret   *)
(* of lib/so/luadh1.c, the Diffie-Hellman functions of OpenSSL they call,  *)
(* and the base 64 of the dh frames.  luadh1.c keeps every number in       *)
(* KeyLen (16) bytes and aligns it to the left, so that one with a leading *)
(* zero byte is read back as another.  ElinkSession abstracts from all     *)
(* this: a secret is `exact' there when SecretsAgree says so here.         *)
(***************************************************************************)
EXTENDS Base64

CONSTANTS
  KeyLen,  \* the bytes of a key
  P, G,    \* dh128_p, dh128_g
  GwPrivs, \* the private keys the gateway may draw
  Junk     \* what uninitialised memory may hold, byte by byte

\* How many numbers there are of so many bytes.
Span[n \in Nat] == IF n = 0 THEN 1 ELSE Span[n - 1] * Byte

Full == Span[KeyLen - 1]   \* from here on a number fills its bytes

ASSUME DhAssumption ==
  /\ KeyLen \in Nat \ {0} /\ P \in Nat /\ G \in 2 .. P - 2
  /\ 2 * P >= Byte * Full /\ P < Byte * Full
  /\ GwPrivs \subseteq 1 .. P - 2 /\ Junk \subseteq 0 .. Byte - 1

VARIABLES
  stage,     \* what has happened so far
  priv,      \* the bytes of devinfo.privkey
  pub,       \* the agent's public key, the number
  dhKey,     \* the letters of dh_key in the agent's dh
  gwPub,     \* the gateway's public key, the number
  gwDhKey,   \* the letters of dh_key in the gateway's dh
  gwSecret,  \* the secret of the gateway, the number
  ownSecret  \* the bytes of devinfo.secret

dhVars == <<stage, priv, pub, dhKey, gwPub, gwDhKey, gwSecret, ownSecret>>

Zeros == [i \in 1 .. KeyLen |-> 0]

DhInit ==
  /\ stage = "idle" /\ priv = Zeros /\ ownSecret = Zeros
  /\ pub = 0 /\ gwPub = 0 /\ gwSecret = 0 /\ dhKey = <<>> /\ gwDhKey = <<>>

-----------------------------------------------------------------------------
(* OpenSSL.                                                                *)

ModExp(b, e) ==
  LET pow[n \in Nat] ==
        IF n = 0 THEN 1
        ELSE LET h == pow[n \div 2] IN (h * h % P) * (IF n % 2 = 1 THEN b ELSE 1) % P
  IN pow[e]

\* Mutant: BN_rand is not asked to set the top bit.
AnyPriv == 1 .. (Byte * Full) \div 2 - 1

\* DH_generate_key draws one bit less than P has, with the top bit set: a
\* private key never has a leading zero byte.
Privs == (Byte * Full) \div 4 .. (Byte * Full) \div 2 - 1

NumBytes(n) == CHOOSE k \in 0 .. KeyLen : n < Span[k] /\ (k > 0 => n >= Span[k - 1])

\* BN_bn2bin into a buffer that held rest; BN_bin2bn of a whole buffer.
BN_bn2bin(n, rest) ==
  LET k == NumBytes(n) IN
  [i \in 1 .. KeyLen |-> IF i <= k THEN (n \div Span[k - i]) % Byte ELSE rest[i]]

BN_bin2bn(s) ==
  LET num[n \in 0 .. Len(s)] == IF n = 0 THEN 0 ELSE num[n - 1] * Byte + s[n]
  IN num[Len(s)]

-----------------------------------------------------------------------------
(* luadh1.c.                                                               *)

\* gkey, and the dh of send2GwDH: 16 bytes, however short the number.
gkey ==
  /\ stage = "idle" /\ stage' = "asked"
  /\ \E x \in Privs :
       /\ priv' = BN_bn2bin(x, Zeros) /\ pub' = ModExp(G, x)
       /\ dhKey' = encodeBase64(BN_bn2bin(pub', Zeros))
  /\ UNCHANGED <<gwPub, gwDhKey, gwSecret, ownSecret>>

\* KeyLen bytes from a Lua string, which ends in a zero if it is shorter.
ReadKey(s, junk) ==
  [i \in 1 .. KeyLen |-> IF i <= Len(s) THEN s[i] ELSE IF i = Len(s) + 1 THEN 0 ELSE junk[i]]

\* Mutant: the arguments in the order a comment of elink.lua still shows.
gsecretSwapped ==
  /\ stage = "answered" /\ stage' = "derived"
  /\ \E junk \in [1 .. KeyLen -> Junk] :
       LET y == BN_bin2bn(priv) IN
       ownSecret' = IF y \in 2 .. P - 2
                 THEN BN_bn2bin(ModExp(y, BN_bin2bn(ReadKey(decodeBase64(gwDhKey), junk))), junk)
                 ELSE junk
  /\ UNCHANGED <<priv, pub, dhKey, gwPub, gwDhKey, gwSecret>>

\* gsecret: DH_compute_key refuses a public key outside 2 .. P - 2, and what
\* it leaves of its buffer is uninitialised; nobody looks at its result.
gsecret ==
  /\ stage = "answered" /\ stage' = "derived"
  /\ \E junk \in [1 .. KeyLen -> Junk] :
       LET y == BN_bin2bn(ReadKey(decodeBase64(gwDhKey), junk)) IN
       ownSecret' = IF y \in 2 .. P - 2 THEN BN_bn2bin(ModExp(y, BN_bin2bn(priv)), junk) ELSE junk
  /\ UNCHANGED <<priv, pub, dhKey, gwPub, gwDhKey, gwSecret>>

-----------------------------------------------------------------------------
(* The gateway (not in the repository) reads base 64, and numbers with or  *)
(* without leading zeros; it sends its own in either way.                  *)

WithZeros(n)  == [i \in 1 .. KeyLen |-> (n \div Span[KeyLen - i]) % Byte]
Minimal(n) == SubSeq(WithZeros(n), KeyLen - NumBytes(n) + 1, KeyLen)

\* decodeBase64 without its last step, and no more than a key.
GwReads(t) ==
  SubSeq(FlattenSeq([n \in 1 .. Groups(t, 4) |-> DecodeGroup(Group(t, 4, n))]), 1, KeyLen)

GwAnswer ==
  /\ stage = "asked" /\ stage' = "answered"
  /\ \E x \in GwPrivs :
       /\ gwPub' = ModExp(G, x)
       /\ gwSecret' = ModExp(BN_bin2bn(GwReads(dhKey)), x)
       /\ gwDhKey' \in {encodeBase64(WithZeros(gwPub')), encodeBase64(Minimal(gwPub'))}
  /\ UNCHANGED <<priv, pub, dhKey, ownSecret>>

DhNext == gkey \/ gsecret \/ GwAnswer

DhSpec == DhInit /\ [][DhNext]_dhVars

-----------------------------------------------------------------------------
(* Properties.                                                             *)

\* The key the gateway sent reaches gsecret as it is, if it fills its bytes or
\* was sent with its leading zeros.
GwPubReadable == gwPub >= Full \/ gwDhKey = encodeBase64(WithZeros(gwPub))

\* Both sides hold the same KeyLen bytes, unless one of three numbers, and the
\* private key is not among them, has a leading zero byte; zeros at the end
\* survive decodeBase64 on both ways (luadh1.c:41-56, 77-114; base64.lua:79-82).
SecretsAgree ==
  /\ stage = "derived" /\ pub >= Full /\ GwPubReadable
  /\ gwPub \in 2 .. P - 2 /\ gwSecret >= Full
  => ownSecret = WithZeros(gwSecret)

\* What gsecret makes of devinfo.privkey is the number gkey drew, although
\* gkey aligns it to the left: OpenSSL never draws a short one (luadh1.c:42, 95).
PrivateKeyKept == stage # "idle" => ModExp(G, BN_bin2bn(priv)) = pub
=============================================================================
