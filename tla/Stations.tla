------------------------------ MODULE Stations ------------------------------
(***************************************************************************)
(* What the agent tells a gateway of its WiFi stations: wifista.stainfo    *)
(* reads the tables of the two radios one after the other, get.lua's       *)
(* staInfo keeps the stations it was asked about at the places they were   *)
(* listed, and cjson makes a message of that, or refuses to.  Stations come*)
(* and go on their own; the driver lists them in any order.  Addresses are *)
(* model values: the colons getRssiInfo takes out are left out.            *)
(***************************************************************************)
EXTENDS Integers, FiniteSets, Sequences

CONSTANTS
  Mac,     \* the addresses of the stations
  Ratio,   \* DEFAULT_SPARSE_RATIO of cjson
  Safe     \* DEFAULT_SPARSE_SAFE

ASSUME StationsAssumption == IsFiniteSet(Mac) /\ Ratio \in Nat /\ Safe \in Nat

Bands   == {"2.4G", "5G"}
Entries == [mac : Mac, band : Bands]

VARIABLES
  radio,    \* of each station: the radio it is connected to, or "none"
  pc,       \* "second": one radio is read, "format": both are
  asked,    \* the addresses the gateway asks about
  list,     \* what stainfo has listed: addresses, with their radio
  answer,   \* the table staInfo returns: from places to what is there
  unsure    \* stations that moved since the first radio was read, or whose
            \* radio could not be

vars == <<radio, pc, asked, list, answer, unsure>>

\* answer is what Encode makes of the others.
TypeOK ==
  /\ radio \in [Mac -> Bands \cup {"none"}] /\ asked \subseteq Mac /\ unsure \subseteq Mac
  /\ pc \in {"idle", "second", "format", "answered", "raised"}
  /\ list \in Seq(Entries)

Init ==
  /\ radio \in [Mac -> Bands \cup {"none"}]
  /\ pc = "idle" /\ asked = {} /\ list = <<>> /\ answer = <<>> /\ unsure = {}

On(band) == {m \in Mac : radio[m] = band}

\* RTPRIV_IOCTL_GET_MAC_TABLE: each station of a radio at one place, in any
\* order.
Tables(band) ==
  LET entry == [mac : On(band), band : {band}] IN
  {t \in [1 .. Cardinality(On(band)) -> entry] :
     \A m \in On(band) : \E n \in DOMAIN t : \A i \in DOMAIN t : t[i].mac = m <=> i = n}

-----------------------------------------------------------------------------
(* The stations.                                                           *)

\* One joins, leaves or goes to the other radio.
Move(m) ==
  /\ \E band \in (Bands \cup {"none"}) \ {radio[m]} : radio' = [radio EXCEPT ![m] = band]
  /\ unsure' = unsure \cup {m}
  /\ UNCHANGED <<pc, asked, list, answer>>

-----------------------------------------------------------------------------
(* The agent.                                                              *)

\* Mutant: the places are counted from one again.
ReadOver(band, before, doubts) ==
  \/ \E t \in Tables(band) :
       list' = t \o SubSeq(before, Len(t) + 1, Len(before)) /\ unsure' = doubts
  \/ list' = before /\ unsure' = doubts \cup On(band)

\* stainfo reads a radio; when the ioctl fails it goes on without it.
Read(band, before, doubts) ==
  \/ \E t \in Tables(band) : list' = before \o t /\ unsure' = doubts
  \/ list' = before /\ unsure' = doubts \cup On(band)

\* Mutant: what was listed for the last question is not thrown away.
GetRssiInfoMore(macs) ==
  /\ pc \notin {"second", "format"} /\ pc' = "second"
  /\ asked' = macs /\ answer' = <<>> /\ Read("2.4G", list, {})
  /\ UNCHANGED radio

\* A gateway asks about macs: send2GWrssiinfo and getRssiInfo, up to the first
\* ioctl.  getAllChildDev lists the stations in the same way and, its function
\* returning nothing, keeps what getRssiInfo keeps when it is asked about none.
GetRssiInfo(macs) ==
  /\ pc \notin {"second", "format"} /\ pc' = "second"
  /\ asked' = macs /\ answer' = <<>> /\ Read("2.4G", <<>>, {})
  /\ UNCHANGED radio

ReadSecond ==
  /\ pc = "second" /\ pc' = "format" /\ Read("5G", list, unsure)
  /\ UNCHANGED <<radio, asked, answer>>

\* staInfo: a station that is not asked about leaves a hole.
Kept == [n \in {i \in 1 .. Len(list) : list[i].mac \in asked} |-> list[n]]

\* lua_array_length: the last place is too far behind.
Sparse(t) == \E n \in DOMAIN t : n > Cardinality(DOMAIN t) * Ratio /\ n > Safe

\* An error of json.encode ends the coroutine, and with it the session.
Encode ==
  /\ pc = "format" /\ answer' = Kept
  /\ pc' = IF Sparse(answer') THEN "raised" ELSE "answered"
  /\ UNCHANGED <<radio, asked, list, unsure>>

Next ==
  \/ \E m \in Mac : Move(m)
  \/ \E macs \in SUBSET Mac : GetRssiInfo(macs)
  \/ ReadSecond \/ Encode

Spec == Init /\ [][Next]_vars

-----------------------------------------------------------------------------
(* Properties.                                                             *)

\* A station that stays where it is while the radios are read one after the
\* other is in the answer exactly if it is connected and asked about, once and
\* with its radio; and nothing else is in it (wifista.c:144-156, get.lua:90-104).
AskedOnce ==
  pc = "answered" =>
    /\ \A n \in DOMAIN answer : answer[n].mac \in asked
    /\ \A m \in asked \ unsure :
         LET places == {n \in DOMAIN answer : answer[n].mac = m} IN
         IF radio[m] = "none" THEN places = {}
         ELSE \E n \in places : places = {n} /\ answer[n].band = radio[m]

\* A gateway that asks about no fewer than one in Ratio of the stations there
\* are, or has no more than Safe of them, is never cut off for it: however they
\* move between the two readings, one that stays is listed once, and any other
\* once for each radio at most (wifista.c:144-240, lua_cjson.c:517-528).
RefusedWhenFewAsked ==
  pc = "raised" =>
    LET settled == {m \in Mac \ unsure : radio[m] # "none"}
        most    == Cardinality(settled) + 2 * Cardinality(unsure)
    IN most > Safe /\ most > Ratio * Cardinality(settled \cap asked)
=============================================================================
