------------------------------ MODULE MCDhKeys ------------------------------
(* The run of Base64 and DhKeys: from the start either a string grows, or  *)
(* keys are exchanged.                                                     *)
EXTENDS DhKeys, MCBase64

\* Every third key: all remainders modulo Byte, and short and long secrets.
SomePrivs == {x \in 1 .. P - 2 : x % 3 = 0}

WireInit == DhInit /\ s = <<>>

WireNext ==
  \/ DhNext /\ s = <<>> /\ UNCHANGED s
  \/ AddByte /\ stage = "idle" /\ UNCHANGED dhVars

WireSpec == WireInit /\ [][WireNext]_<<dhVars, s>>
=============================================================================
