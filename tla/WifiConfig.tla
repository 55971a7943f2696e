----------------------------- MODULE WifiConfig -----------------------------
(***************************************************************************)
(* What a cfg command does to the 2.4G radio: setWiFiswitch and setWiFi of *)
(* set.lua, which run in the agent, and the processes they leave behind:   *)
(* `ifconfig ra0 up &`, `ifconfig ra0 down &` and `uttwifiset.sh ... &`.   *)
(*                                                                         *)
(* Settings live in three places: the driver's file RT2860.dat, which the  *)
(* agent rewrites; the driver itself, which reads the file when ra0 comes  *)
(* up; and the configuration memory, which uttwifiset.sh fills one field   *)
(* at a time and get_status reads.  A value is named by the number of the  *)
(* command it came with, 0 for those of the factory, and by whether it is  *)
(* whole: setWiFi puts the ssid and the key on a command line as they are, *)
(* where white space ends an argument.                                     *)
(***************************************************************************)
EXTENDS Naturals, Sequences

CONSTANTS
  Cmds,       \* the commands the gateway may send
  MaxCmd,     \* how many it sends
  MaxRestart  \* how often the router restarts, at most

\* An access point of a command, by what the script takes of it.  Texts are one
\* word or "words": several, or the empty text, whose place on the command line
\* the next option takes.  "open" is OPEN and WEPAUTO, "psk" the three modes of
\* WPA, "wpa" any cipher but WEP; "bad" is what the script does not know.
\* Missing: "none".
AP == [ssid : {"word", "words"}, channel : {"ok", "bad", "none"},
       auth : {"shared", "open", "psk", "bad", "none"}, key : {"word", "words", "none"},
       encrypt : {"wep", "wpa", "bad", "none"}]

ASSUME WifiAssumption ==
  /\ MaxCmd \in Nat /\ MaxRestart \in Nat
  /\ Cmds \subseteq [switch : {"ON", "OFF", "none"}, aps : Seq(AP)]

Fields == {"ssid", "channel", "mode", "wep", "psk", "encrypt"}

\* What stands for a value of the defaults, which RT2860.dat holds between its
\* two rewrites.
Blank == MaxCmd + 1

Stored   == [Fields -> [by : 0 .. MaxCmd, whole : BOOLEAN]]
Settings == [Fields -> [by : 0 .. Blank, whole : BOOLEAN]]

All(n) == [f \in Fields |-> [by |-> n, whole |-> TRUE]]

VARIABLES
  log,       \* the commands taken so far
  pc, ap,    \* where the agent is, and with which access point
  radio,     \* ra0 is "up" or "down"
  dat,       \* the settings in RT2860.dat
  run,       \* the settings the driver read when ra0 last came up
  nvram,     \* the settings in the configuration memory
  active,    \* wireless active, the switch
  script,    \* where each uttwifiset.sh is: number 0 is the agent's own
  ups, downs,       \* ifconfig processes that have not run yet
  elinkFlag, added, \* Elink_flag; how often bridge_vif.sh add has run
  restarts,
  lateUp,    \* an `up` was under way when setWiFi last took ra0 down
  mixed,     \* scripts overlapped since the latest one, alone, set the ssid
  blame      \* why ra0 is down although it should not be

agent   == <<log, pc, ap>>
store   == <<nvram, active, elinkFlag>>
jobs    == <<ups, downs>>
history == <<lateUp, mixed, blame>>
vars    == <<agent, radio, dat, run, store, script, jobs, added, restarts, history>>

Stages == {"idle", "switch", "wait", "down", "write", "copy", "append", "up", "launch"}
Steps  == {"none", "ssid", "channel", "auth", "key", "wep", "psk", "encrypt",
           "check", "add", "clear"}
TypeOK ==
  /\ log \in Seq(Cmds) /\ Len(log) <= MaxCmd /\ pc \in Stages /\ ap \in Nat
  /\ radio \in {"up", "down"} /\ dat \in Settings /\ run \in Settings
  /\ nvram \in Stored
  /\ active \in BOOLEAN /\ script \in [0 .. MaxCmd -> Steps]
  /\ ups \in Nat /\ downs \in Nat /\ elinkFlag \in {0, 1} /\ added \in Nat
  /\ restarts \in 0 .. MaxRestart
  /\ lateUp \in BOOLEAN /\ mixed \in BOOLEAN /\ blame \in {"none", "raise", "late"}

Init ==
  /\ log = <<>> /\ pc = "idle" /\ ap = 1
  /\ radio = "up" /\ dat = All(0) /\ run = All(0) /\ nvram = All(0)
  /\ active = TRUE /\ script = [p \in 0 .. MaxCmd |-> "none"]
  /\ ups = 0 /\ downs = 0 /\ elinkFlag = 1 /\ added = 0 /\ restarts = 0
  /\ lateUp = FALSE /\ mixed = FALSE /\ blame = "none"

Now     == Len(log)
Aps(n)  == log[n].aps
Net(n)  == Aps(n)[1]
Goto(l) == pc' = l /\ UNCHANGED <<log, ap>>

-----------------------------------------------------------------------------
(* The steps of a script.                                                  *)

\* Mutants: the key is looked at before the mode is set; the ssid comes last.
KeyBeforeAuth ==
  [start |-> "ssid", ssid |-> "channel", channel |-> "key", auth |-> "encrypt",
   wep |-> "auth", psk |-> "auth", encrypt |-> "check"]

SsidLast ==
  [start |-> "channel", channel |-> "auth", auth |-> "key",
   wep |-> "encrypt", psk |-> "encrypt", encrypt |-> "ssid", ssid |-> "check"]

\* Mutant: setWiFi leaves the option of the cipher out.
NoCipher ==
  [start |-> "ssid", ssid |-> "channel", channel |-> "auth", auth |-> "key",
   wep |-> "check", psk |-> "check", encrypt |-> "check"]

\* The options in the order in which setWiFi writes them.
After ==
  [start |-> "ssid", ssid |-> "channel", channel |-> "auth", auth |-> "key",
   wep |-> "encrypt", psk |-> "encrypt", encrypt |-> "check"]

\* An option whose argument is not one word: its first word, or the next
\* option, is all the script sees of it, and getopts stops at what follows.
Cut(p, step) ==
  \/ step = "ssid" /\ Net(p).ssid = "words"
  \/ step \in {"wep", "psk"} /\ Net(p).key = "words"

Past(p, step) == IF Cut(p, step) THEN "check" ELSE After[step]

-----------------------------------------------------------------------------
(* The agent: setConfig takes wifiswitch first, then wifi.                 *)

\* The stage in which access point i of command c begins, if there is one.
Wifi(c, i) == IF i <= Len(c.aps) THEN "down" ELSE "idle"

Take(c) ==
  /\ pc = "idle" /\ Now < MaxCmd
  /\ log' = Append(log, c) /\ ap' = 1
  /\ pc' = IF c.switch # "none" THEN "switch" ELSE Wifi(c, 1)
  /\ UNCHANGED <<radio, dat, run, store, script, jobs, added, restarts, history>>

\* setWiFiswitch: `uttwifiset.sh -e`, whose ifconfig runs in the background;
\* the agent waits for the rest of the script.
Switch ==
  /\ pc = "switch" /\ Goto("wait")
  /\ active' = (log[Now].switch = "ON")
  /\ IF active' THEN ups' = ups + 1 /\ UNCHANGED downs
                ELSE downs' = downs + 1 /\ UNCHANGED ups
  /\ script' = [script EXCEPT ![0] = "check"]
  /\ UNCHANGED <<radio, dat, run, nvram, elinkFlag, added, restarts, history>>

SwitchDone ==
  /\ pc = "wait" /\ script[0] = "none" /\ Goto(Wifi(log[Now], 1))
  /\ UNCHANGED <<radio, dat, run, store, script, jobs, added, restarts, history>>

\* Mutant: the radio is not taken down.
DownForgotten ==
  /\ pc = "down" /\ Goto("write") /\ lateUp' = (ups > 0)
  /\ UNCHANGED <<radio, dat, run, store, script, jobs, added, restarts, mixed, blame>>

\* setWiFi, for each access point with an ssid.
Down ==
  /\ pc = "down" /\ Goto("write")
  /\ radio' = "down" /\ lateUp' = (ups > 0)
  /\ UNCHANGED <<dat, run, store, script, jobs, added, restarts, mixed, blame>>

Current == Aps(Now)[ap]

\* The file is closed within the loop: a second access point writes to a
\* closed file, and raises; so does one without a channel.
Writable == ap = 1 /\ Current.channel # "none"

Write ==
  /\ pc = "write" /\ Writable /\ Goto("copy")
  /\ UNCHANGED <<radio, dat, run, store, script, jobs, added, restarts, history>>

CopyDefaults ==
  /\ pc = "copy" /\ Goto("append") /\ dat' = All(Blank)
  /\ UNCHANGED <<radio, run, store, script, jobs, added, restarts, history>>

\* An AP with the mode "shared" is given WEP; its key goes where WEP keys go.
Cipher(a) == IF a.auth = "shared" /\ a.encrypt # "none" THEN "wep" ELSE a.encrypt
Slot(a)   == IF Cipher(a) = "wep" THEN "wep" ELSE "psk"

\* The lines of wireless2g.dat; the defaults stay in force for the rest.
Lines(a) ==
  {"ssid", "channel"} \cup {f \in {"mode"} : a.auth # "none"}
  \cup {f \in {Slot(a)} : a.key # "none"} \cup {f \in {"encrypt"} : a.encrypt # "none"}

File(n) ==
  [f \in Fields |-> [by |-> IF f \in Lines(Net(n)) THEN n ELSE Blank, whole |-> TRUE]]

AppendSettings ==
  /\ pc = "append" /\ Goto("up") /\ dat' = File(Now)
  /\ UNCHANGED <<radio, run, store, script, jobs, added, restarts, history>>

\* Mutant: the switch is compared with "yes", which it never equals.
LaunchUpNever ==
  /\ pc = "up" /\ Goto("launch") /\ UNCHANGED ups
  /\ UNCHANGED <<radio, dat, run, store, script, downs, added, restarts, history>>

LaunchUp ==
  /\ pc = "up" /\ Goto("launch") /\ ups' = IF active THEN ups + 1 ELSE ups
  /\ UNCHANGED <<radio, dat, run, store, script, downs, added, restarts, history>>

\* The command line of the script needs auth, key and encrypt.
Complete(a) == a.auth # "none" /\ a.key # "none" /\ a.encrypt # "none"

Others(p) == {q \in 0 .. MaxCmd : q # p /\ script[q] # "none"}

Launch ==
  /\ pc = "launch" /\ Complete(Current)
  /\ script' = [script EXCEPT ![Now] = After["start"]]
  /\ mixed' = (mixed \/ Others(Now) # {})
  /\ ap' = ap + 1 /\ pc' = Wifi(log[Now], ap + 1)
  /\ UNCHANGED <<log, radio, dat, run, store, jobs, added, restarts, lateUp, blame>>

\* The coroutine dies; the radio stays as it is.
Raise ==
  /\ \/ pc = "write" /\ ~Writable
     \/ pc = "launch" /\ ~Complete(Current)
  /\ Goto("idle") /\ blame' = "raise"
  /\ UNCHANGED <<radio, dat, run, store, script, jobs, added, restarts, lateUp, mixed>>

-----------------------------------------------------------------------------
(* The processes in the background.                                        *)

\* The driver reads its file when the interface comes up, not before.
JobUp ==
  /\ ups > 0 /\ ups' = ups - 1
  /\ radio' = "up" /\ run' = (IF radio = "up" THEN run ELSE dat) /\ blame' = "none"
  /\ UNCHANGED <<agent, dat, store, script, downs, added, restarts, lateUp, mixed>>

JobDown ==
  /\ downs > 0 /\ downs' = downs - 1
  /\ radio' = "down" /\ blame' = (IF active THEN "late" ELSE blame)
  /\ UNCHANGED <<agent, dat, run, store, script, ups, added, restarts, lateUp, mixed>>

-----------------------------------------------------------------------------
(* uttwifiset.sh -s -c -a -p -t, one uttcli2 at a time.                    *)

At(p, s) == script[p] = s
Then(p, s) == script' = [script EXCEPT ![p] = s]

ScriptOnly == UNCHANGED <<agent, radio, dat, run, active, jobs, restarts, lateUp, blame>>

Put(f, p) == nvram' = [nvram EXCEPT ![f] = [by |-> p, whole |-> ~Cut(p, f)]]

SetSsid(p) ==
  /\ At(p, "ssid") /\ Then(p, Past(p, "ssid")) /\ Put("ssid", p)
  /\ mixed' = (Others(p) # {} \/ dat.ssid.by # p)
  /\ ScriptOnly /\ UNCHANGED <<elinkFlag, added>>

\* A channel, mode or cipher the script does not know leaves the old one in
\* place.
Keep(f, p) ==
  \/ f = "channel" /\ Net(p).channel # "ok"
  \/ f = "mode" /\ Net(p).auth = "bad"
  \/ f = "encrypt" /\ Cipher(Net(p)) = "bad"

Set(f, p) == IF Keep(f, p) THEN UNCHANGED nvram ELSE Put(f, p)

SetChannel(p) ==
  /\ At(p, "channel") /\ Then(p, Past(p, "channel")) /\ Set("channel", p)
  /\ ScriptOnly /\ UNCHANGED <<elinkFlag, added, mixed>>

SetAuth(p) ==
  /\ At(p, "auth") /\ Then(p, Past(p, "auth")) /\ Set("mode", p)
  /\ ScriptOnly /\ UNCHANGED <<elinkFlag, added, mixed>>

\* Where the key goes is decided by the mode in the memory.
Shared == nvram.mode.by # 0 /\ Net(nvram.mode.by).auth = "shared"

ReadMode(p) ==
  /\ At(p, "key") /\ Then(p, IF Shared THEN "wep" ELSE "psk")
  /\ ScriptOnly /\ UNCHANGED <<nvram, elinkFlag, added, mixed>>

SetRest(p) ==
  /\ \E f \in {"wep", "psk", "encrypt"} : At(p, f) /\ Then(p, Past(p, f)) /\ Set(f, p)
  /\ ScriptOnly /\ UNCHANGED <<elinkFlag, added, mixed>>

\* Mutant: the flag is taken down where it is read.
CheckAndClear(p) ==
  /\ At(p, "check") /\ Then(p, IF elinkFlag = 1 THEN "add" ELSE "none")
  /\ elinkFlag' = 0
  /\ ScriptOnly /\ UNCHANGED <<nvram, added, mixed>>

CheckFlag(p) ==
  /\ At(p, "check") /\ Then(p, IF elinkFlag = 1 THEN "add" ELSE "none")
  /\ ScriptOnly /\ UNCHANGED <<nvram, elinkFlag, added, mixed>>

AddVif(p) ==
  /\ At(p, "add") /\ Then(p, "clear") /\ added' = added + 1
  /\ ScriptOnly /\ UNCHANGED <<nvram, elinkFlag, mixed>>

ClearFlag(p) ==
  /\ At(p, "clear") /\ Then(p, "none") /\ elinkFlag' = 0
  /\ ScriptOnly /\ UNCHANGED <<nvram, added, mixed>>

-----------------------------------------------------------------------------
(* The router (not in the repository).  It may restart at any time, on     *)
(* command or not: processes are gone, and the driver is set up from the   *)
(* configuration memory.                                                   *)
Restart ==
  /\ restarts < MaxRestart /\ restarts' = restarts + 1
  /\ pc' = "idle" /\ script' = [p \in 0 .. MaxCmd |-> "none"]
  /\ ups' = 0 /\ downs' = 0
  /\ dat' = nvram /\ run' = nvram
  /\ radio' = (IF active THEN "up" ELSE "down")
  /\ lateUp' = FALSE /\ blame' = "none"
  /\ UNCHANGED <<log, ap, store, added, mixed>>

-----------------------------------------------------------------------------
AgentStep ==
  \/ \E c \in Cmds : Take(c)
  \/ Switch \/ SwitchDone \/ Down \/ Write \/ CopyDefaults \/ AppendSettings
  \/ LaunchUp \/ Launch \/ Raise

ScriptStep(p) ==
  \/ SetSsid(p) \/ SetChannel(p) \/ SetAuth(p) \/ ReadMode(p) \/ SetRest(p)
  \/ CheckFlag(p) \/ AddVif(p) \/ ClearFlag(p)

Next == AgentStep \/ JobUp \/ JobDown \/ Restart \/ \E p \in 0 .. MaxCmd : ScriptStep(p)

Spec == Init /\ [][Next]_vars

-----------------------------------------------------------------------------
(* Properties.                                                             *)

\* The driver runs what RT2860.dat holds, never the defaults or an earlier
\* command's settings: the one way to get there is an `ifconfig ra0 up &`
\* that is still under way when a later setWiFi takes the interface down
\* (set.lua:12, 44-49).
RunsWhatWasWritten == radio = "up" /\ ~lateUp => run = dat

\* An interface that stays down while the switch is on is due to a handler
\* that raised half-way, or to an `ifconfig ra0 down &` that came late
\* (set.lua:12, 34, 47-51; uttwifiset.sh:96-102).
OutageExplained ==
  pc = "idle" /\ active /\ radio = "down" /\ ups = 0 => blame # "none"

\* Unless scripts overlapped, a power cut in the middle of one never leaves a
\* key, mode, channel or cipher that is newer than the ssid
\* (uttwifiset.sh:16-91).
SsidNewest == ~mixed => \A f \in Fields : nvram[f].by <= nvram.ssid.by

\* Unless scripts overlapped, the script stores the key of a network whose mode
\* it knows in the slot in which setWiFi has given it to the driver
\* (uttwifiset.sh:61-68, set.lua:20-33).  The one exception is WEP without the
\* mode SHARED, whose key the script takes for one of WPA.
KeyInItsSlot ==
  LET n == nvram.ssid.by IN
  ~mixed /\ n > 0 /\ Net(n).auth # "bad" =>
    /\ nvram.wep.by = n => Slot(Net(n)) = "wep"
    /\ nvram.psk.by = n =>
         Slot(Net(n)) = "psk" \/ (Net(n).auth # "shared" /\ Net(n).encrypt = "wep")

AtRest == pc = "idle" /\ ups = 0 /\ downs = 0 /\ \A p \in 0 .. MaxCmd : script[p] = "none"

\* What get_status reports; the password is always that of WPA.
Reported == {"ssid", "channel", "mode", "psk", "encrypt"}

\* What of it reaches the memory by way of the script: it is not started when
\* a field is missing, sees one word of a text and nothing behind a second,
\* and leaves out what it does not know.
Conveyed(a) ==
  {f \in Reported :
     /\ Complete(a) /\ a.ssid = "word"
     /\ f = "channel" => a.channel = "ok"
     /\ f \in {"mode", "psk"} => a.auth # "bad"
     /\ f = "psk" => Slot(a) = "psk" /\ a.key = "word"
     /\ f = "encrypt" => Cipher(a) # "bad" /\ a.key = "word"}

Told(n) == IF n \in 1 .. Now THEN Conveyed(Net(n)) ELSE Reported

\* When everything has come to rest, what get_status reports of the network
\* (asking the memory) is what the radio runs, in every field that could be
\* conveyed, word for word; restarts, half-written memories, dead handlers and
\* late jobs notwithstanding (set.lua:43-51, uttwifiset.sh:16-91,
\* uttelink.sh:49-55, get.lua:102-121).
StatusTellsTruth ==
  AtRest /\ radio = "up" /\ ~lateUp /\ ~mixed
  => \A f \in Told(run.ssid.by) : nvram[f] = run[f]

\* Wherever the router restarts, Elink_flag is not cleared before the
\* management interface was added (uttwifiset.sh:125-129).
AddNotLost == elinkFlag = 0 => added > 0
=============================================================================
