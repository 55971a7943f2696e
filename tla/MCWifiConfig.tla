---------------------------- MODULE MCWifiConfig ----------------------------
(* Constants of the run of WifiConfig.                                     *)
EXTENDS WifiConfig

Good == [ssid |-> "word", channel |-> "ok", auth |-> "psk", key |-> "word", encrypt |-> "wpa"]
Wep  == [Good EXCEPT !.auth = "shared"]

Cmd(switch, aps) == [switch |-> switch, aps |-> aps]

\* A good command of each kind, one for each way to fail, and combinations of
\* the switch with a network.
EveryKind ==
  {Cmd("none", <<a>>) : a \in
     {Good, Wep,
      [Good EXCEPT !.auth = "open", !.encrypt = "wep"],
      [Good EXCEPT !.channel = "bad", !.auth = "bad"],
      [Good EXCEPT !.encrypt = "bad"],
      [Good EXCEPT !.ssid = "words"], [Good EXCEPT !.key = "words"],
      [Good EXCEPT !.channel = "none"], [Good EXCEPT !.key = "none"]}}
  \cup {Cmd("none", <<Good, Good>>), Cmd("ON", <<>>), Cmd("OFF", <<>>), Cmd("ON", <<Good>>)}
=============================================================================
