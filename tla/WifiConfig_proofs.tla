-------------------------- MODULE WifiConfig_proofs --------------------------
(***************************************************************************)
(* Theorems about WifiConfig, for any set of commands, any number of them, *)
(* any interleaving of the processes they leave behind, and any number of  *)
(* restarts.                                                               *)
(***************************************************************************)
EXTENDS WifiConfig, SequenceTheorems, TLAPS

-----------------------------------------------------------------------------
(* Type correctness.  It needs to be known where the agent can be, and that *)
(* a script was started for a complete access point only.                  *)
InWifi  == {"down", "write", "copy", "append", "up", "launch"}
Written == {"copy", "append", "up", "launch"}

PlaceInv ==
  /\ ap >= 1 /\ (pc # "idle" => Now >= 1)
  /\ pc \in InWifi => ap <= Len(Aps(Now))
  /\ pc \in Written \cup {"switch", "wait"} => ap = 1

ScriptInv ==
  /\ script[0] \in {"none", "check", "add", "clear"}
  /\ \A p \in 1 .. MaxCmd :
       script[p] # "none" => p <= Now /\ Len(Aps(p)) >= 1 /\ Complete(Net(p))

TypeInv == TypeOK /\ PlaceInv /\ ScriptInv

LEMMA SettingsTypes ==
  /\ \A n \in 0 .. MaxCmd : All(n) \in Stored
  /\ All(Blank) \in Settings /\ Stored \subseteq Settings
  /\ \A n \in 1 .. MaxCmd : File(n) \in Settings
<1>1. MaxCmd \in Nat /\ Blank \in 0 .. Blank /\ 0 .. MaxCmd \subseteq 0 .. Blank
  BY WifiAssumption DEF Blank
<1>2. \A n \in 0 .. MaxCmd : All(n) \in Stored
  BY DEF All, Stored
<1>3. All(Blank) \in Settings
  BY <1>1 DEF All, Settings
<1>4. Stored \subseteq Settings
  <2> SUFFICES ASSUME NEW t \in Stored PROVE t \in Settings
    OBVIOUS
  <2>1. \A f \in Fields : t[f] \in [by : 0 .. Blank, whole : BOOLEAN]
    BY <1>1 DEF Stored
  <2>. QED BY <2>1 DEF Stored, Settings
<1>5. ASSUME NEW n \in 1 .. MaxCmd PROVE File(n) \in Settings
  <2>1. \A f \in Fields :
          [by |-> IF f \in Lines(Net(n)) THEN n ELSE Blank, whole |-> TRUE]
          \in [by : 0 .. Blank, whole : BOOLEAN]
    BY <1>1, WifiAssumption
  <2>. QED BY <2>1 DEF File, Settings
<1>. QED
  BY <1>2, <1>3, <1>4, <1>5

\* What the file of a command names.
LEMMA FileNames ==
  ASSUME NEW n \in 1 .. MaxCmd
  PROVE  /\ File(n).ssid.by = n
         /\ \A f \in Lines(Net(n)) \cap Fields : File(n)[f] = [by |-> n, whole |-> TRUE]
  BY DEF File, Lines, Fields

\* What the memory holds has a name.
LEMMA StoredNames ==
  ASSUME TypeOK
  PROVE  /\ \A f \in Fields : nvram[f] \in [by : 0 .. MaxCmd, whole : BOOLEAN]
         /\ \A f \in Fields : nvram[f].by \in 0 .. MaxCmd
         /\ dat.ssid \in [by : 0 .. Blank, whole : BOOLEAN] /\ dat.ssid.by \in 0 .. Blank
         /\ nvram.ssid.by \in 0 .. MaxCmd /\ nvram.mode.by \in 0 .. MaxCmd
         /\ nvram.wep.by \in 0 .. MaxCmd /\ nvram.psk.by \in 0 .. MaxCmd
<1>1. nvram \in [Fields -> [by : 0 .. MaxCmd, whole : BOOLEAN]]
      /\ dat \in [Fields -> [by : 0 .. Blank, whole : BOOLEAN]]
  BY DEF TypeOK, Stored, Settings
<1>2. \A f \in Fields : nvram[f] \in [by : 0 .. MaxCmd, whole : BOOLEAN]
  BY <1>1
<1>. QED
  BY <1>1, <1>2 DEF Fields

\* Storing a field leaves the others.
LEMMA Puts ==
  ASSUME TypeOK, NEW p \in 0 .. MaxCmd, NEW f \in Fields, Put(f, p)
  PROVE  /\ nvram' \in Stored /\ nvram'[f] = [by |-> p, whole |-> ~Cut(p, f)]
         /\ nvram'[f].by = p /\ \A g \in Fields : g # f => nvram'[g] = nvram[g]
<1> DEFINE w == ~Cut(p, f)
<1>1. w \in BOOLEAN
  BY Zenon
<1>2. nvram' = [nvram EXCEPT ![f] = [by |-> p, whole |-> w]]
  BY Zenon DEF Put
<1> HIDE DEF w
<1>3. nvram \in [Fields -> [by : 0 .. MaxCmd, whole : BOOLEAN]]
  BY DEF TypeOK, Stored
<1>4. /\ nvram' \in Stored /\ nvram'[f] = [by |-> p, whole |-> w]
      /\ nvram'[f].by = p /\ \A g \in Fields : g # f => nvram'[g] = nvram[g]
  BY <1>1, <1>2, <1>3 DEF Stored
<1>. QED
  BY <1>4, Zenon DEF w

LEMMA InitType == Init => TypeInv
<1> SUFFICES ASSUME Init PROVE TypeInv
  OBVIOUS
<1>1. /\ MaxCmd \in Nat /\ 0 \in 0 .. MaxCmd /\ 0 \in 0 .. MaxRestart
      /\ All(0) \in Stored /\ All(0) \in Settings
  BY WifiAssumption, SettingsTypes
<1>2. TypeOK
  <2>1. log \in Seq(Cmds) /\ Len(log) <= MaxCmd
    BY <1>1 DEF Init
  <2>. QED
    BY <1>1, <2>1 DEF Init, TypeOK, Stages, Steps
<1>3. PlaceInv /\ ScriptInv
  BY <1>1 DEF Init, PlaceInv, ScriptInv, Now, InWifi, Written
<1>. QED
  BY <1>2, <1>3 DEF TypeInv

\* What a logged command looks like.
LEMMA Logged ==
  ASSUME TypeOK, NEW n \in 1 .. Now
  PROVE  log[n] \in Cmds /\ Aps(n) \in Seq(AP) /\ log[n].switch \in {"ON", "OFF", "none"}
  BY WifiAssumption DEF TypeOK, Now, Aps

\* Taking a command leaves the earlier ones as they are.
LEMMA LogGrows ==
  ASSUME TypeOK, NEW c \in Cmds, log' = Append(log, c)
  PROVE  /\ log' \in Seq(Cmds) /\ Now' = Now + 1 /\ log'[Now + 1] = c
         /\ \A n \in 1 .. Now : log'[n] = log[n]
  BY DEF TypeOK, Now

\* Steps that leave the log and the scripts alone keep ScriptInv.
LEMMA ScriptsSame == ASSUME ScriptInv, UNCHANGED <<log, script>> PROVE ScriptInv'
  BY DEF ScriptInv, Now, Aps, Net

\* A script moves on; it has been started, and stays within its steps.
LEMMA ScriptMoves ==
  ASSUME TypeOK, ScriptInv, UNCHANGED log, NEW p \in 0 .. MaxCmd, NEW t, Then(p, t),
         script[p] # "none", t \in Steps,
         p = 0 => t \in {"none", "check", "add", "clear"}
  PROVE  script' \in [0 .. MaxCmd -> Steps] /\ ScriptInv'
<1>1. script' \in [0 .. MaxCmd -> Steps] /\ 0 \in 0 .. MaxCmd
  BY WifiAssumption DEF Then, TypeOK
<1>2. script'[0] \in {"none", "check", "add", "clear"}
  BY <1>1 DEF Then, TypeOK, ScriptInv
<1>3. ASSUME NEW q \in 1 .. MaxCmd, script'[q] # "none"
      PROVE  q <= Now /\ Len(Aps(q)) >= 1 /\ Complete(Net(q))
  <2>1. script[q] # "none"
    BY <1>3 DEF Then, TypeOK
  <2>. QED BY <2>1 DEF ScriptInv
<1>. QED
  BY <1>1, <1>2, <1>3 DEF ScriptInv, Now, Aps, Net

LEMMA TakeType == ASSUME TypeInv, NEW c \in Cmds, Take(c) PROVE TypeInv'
<1> USE DEF TypeInv
<1>1. /\ log' \in Seq(Cmds) /\ Now' = Now + 1 /\ log'[Now + 1] = c
      /\ \A n \in 1 .. Now : log'[n] = log[n]
  BY LogGrows DEF Take
<1>2. c.aps \in Seq(AP) /\ Now \in Nat
  BY WifiAssumption DEF TypeOK, Now
<1>3. TypeOK'
  <2>1. Len(log') <= MaxCmd
    BY <1>1, <1>2, WifiAssumption DEF Take, Now
  <2>2. pc' \in Stages /\ ap' \in Nat
    BY DEF Take, Wifi, Stages
  <2>. QED BY <1>1, <2>1, <2>2 DEF Take, TypeOK, store, jobs, history
<1>4. PlaceInv'
  BY <1>1, <1>2 DEF Take, PlaceInv, Wifi, Aps, InWifi, Written
<1>5. ScriptInv'
  <2>1. ASSUME NEW p \in 1 .. MaxCmd, script[p] # "none"
        PROVE  p <= Now + 1 /\ Len(log'[p].aps) >= 1 /\ Complete(log'[p].aps[1])
    <3>1. p \in 1 .. Now
      BY <1>2, <2>1, WifiAssumption DEF ScriptInv
    <3>2. log'[p] = log[p]
      BY <1>1, <3>1
    <3>3. Len(log[p].aps) >= 1 /\ Complete(log[p].aps[1]) /\ p <= Now
      BY <2>1, <3>1 DEF ScriptInv, Aps, Net
    <3>. QED BY <1>2, <3>2, <3>3
  <2>. QED BY <1>1, <2>1 DEF Take, ScriptInv, Aps, Net
<1>. QED
  BY <1>3, <1>4, <1>5

\* The agent's other steps keep to the command it has taken.
LEMMA AgentType ==
  ASSUME TypeInv,
         Switch \/ SwitchDone \/ Down \/ Write \/ CopyDefaults \/ AppendSettings
         \/ LaunchUp \/ Launch \/ Raise
  PROVE  TypeInv'
<1> USE DEF TypeInv
<1>0. Now \in Nat /\ Now <= MaxCmd /\ MaxCmd \in Nat /\ 0 \in 0 .. MaxCmd /\ UNCHANGED log
  BY WifiAssumption DEF TypeOK, Now, Switch, SwitchDone, Down, Write, CopyDefaults,
     AppendSettings, LaunchUp, Launch, Raise, Goto
<1>1. pc # "idle" => Now \in 1 .. MaxCmd /\ Aps(Now) \in Seq(AP)
  BY <1>0, Logged DEF PlaceInv
<1>2. CASE Switch
  <2>1. TypeOK'
    BY <1>0, <1>2 DEF Switch, Goto, TypeOK, Stages, Steps, history
  <2>2. PlaceInv'
    BY <1>0, <1>2 DEF Switch, Goto, PlaceInv, Now, Aps, InWifi, Written
  <2>3. ScriptInv'
    BY <1>0, <1>2 DEF Switch, TypeOK, ScriptInv, Now, Aps, Net
  <2>. QED BY <2>1, <2>2, <2>3
<1>3. CASE SwitchDone
  <2>1. TypeOK'
    BY <1>0, <1>3 DEF SwitchDone, Goto, Wifi, TypeOK, Stages, store, jobs, history
  <2>2. PlaceInv'
    BY <1>0, <1>1, <1>3 DEF SwitchDone, Goto, Wifi, PlaceInv, Now, Aps, InWifi, Written
  <2>. QED BY <1>0, <1>3, <2>1, <2>2, ScriptsSame DEF SwitchDone
<1>4. CASE Down \/ Write \/ CopyDefaults \/ AppendSettings \/ LaunchUp \/ Raise
  <2>1. TypeOK'
    <3>1. All(Blank) \in Settings /\ (pc = "append" => File(Now) \in Settings)
      BY <1>1, SettingsTypes
    <3>2. CASE Down
      BY <3>2 DEF Down, Goto, TypeOK, Stages, store, jobs
    <3>3. CASE Write
      BY <3>3 DEF Write, Goto, TypeOK, Stages, store, jobs, history
    <3>4. CASE CopyDefaults \/ AppendSettings
      BY <3>1, <3>4 DEF CopyDefaults, AppendSettings, Goto, TypeOK, Stages, store, jobs, history
    <3>5. CASE LaunchUp
      <4>1. ups' \in Nat
        BY <3>5 DEF LaunchUp, TypeOK
      <4>. QED BY <3>5, <4>1 DEF LaunchUp, Goto, TypeOK, Stages, store, history
    <3>6. CASE Raise
      BY <3>6 DEF Raise, Goto, TypeOK, Stages, store, jobs
    <3>. QED BY <1>4, <3>2, <3>3, <3>4, <3>5, <3>6
  <2>2. PlaceInv'
    BY <1>0, <1>1, <1>4 DEF Down, Write, Writable, CopyDefaults, AppendSettings, LaunchUp, Raise,
       Goto, PlaceInv, Now, Aps, InWifi, Written
  <2>. QED
    BY <1>0, <1>4, <2>1, <2>2, ScriptsSame
       DEF Down, Write, CopyDefaults, AppendSettings, LaunchUp, Raise
<1>5. CASE Launch
  <2>1. ap = 1 /\ Now \in 1 .. MaxCmd /\ Len(Aps(Now)) >= 1 /\ Aps(Now) \in Seq(AP)
    BY <1>1, <1>5 DEF Launch, PlaceInv, InWifi, Written
  <2>2. mixed' \in BOOLEAN
    BY <1>5 DEF Launch, TypeOK
  <2>3. script' \in [0 .. MaxCmd -> Steps]
    BY <1>5, <2>1 DEF Launch, After, TypeOK, Steps
  <2>4. TypeOK'
    BY <1>5, <2>1, <2>2, <2>3 DEF Launch, Wifi, TypeOK, Stages, store, jobs
  <2>5. PlaceInv'
    BY <1>0, <1>5, <2>1 DEF Launch, Wifi, PlaceInv, Now, Aps, InWifi, Written
  <2>6. ScriptInv'
    <3>1. script'[0] = script[0]
      BY <1>0, <1>5, <2>1 DEF Launch, TypeOK
    <3>2. ASSUME NEW p \in 1 .. MaxCmd, script'[p] # "none"
          PROVE  p <= Now /\ Len(Aps(p)) >= 1 /\ Complete(Net(p))
      <4>1. CASE p = Now
        BY <1>0, <1>5, <2>1, <4>1 DEF Launch, Current, Net
      <4>2. CASE p # Now
        BY <1>5, <3>2, <4>2 DEF Launch, ScriptInv, TypeOK
      <4>. QED BY <4>1, <4>2
    <3>. QED BY <1>0, <3>1, <3>2 DEF ScriptInv, Now, Aps, Net
  <2>. QED BY <2>4, <2>5, <2>6
<1>. QED
  BY <1>2, <1>3, <1>4, <1>5

LEMMA PlaceSame == ASSUME PlaceInv, UNCHANGED agent PROVE PlaceInv'
  BY DEF PlaceInv, agent, Now, Aps

LEMMA JobType == ASSUME TypeInv, JobUp \/ JobDown PROVE TypeInv'
<1> USE DEF TypeInv
<1>1. UNCHANGED <<agent, script>> /\ UNCHANGED log
  BY DEF JobUp, JobDown, agent
<1>2. TypeOK'
  <2>1. CASE JobUp
    <3>1. run' \in Settings /\ ups' \in Nat
      BY <2>1 DEF JobUp, TypeOK
    <3>. QED BY <2>1, <3>1 DEF JobUp, TypeOK, agent, store
  <2>2. CASE JobDown
    <3>1. blame' \in {"none", "raise", "late"} /\ downs' \in Nat
      BY <2>2 DEF JobDown, TypeOK
    <3>. QED BY <2>2, <3>1 DEF JobDown, TypeOK, agent, store
  <2>. QED BY <2>1, <2>2
<1>. QED
  BY <1>1, <1>2, PlaceSame, ScriptsSame

\* The step a script goes to, and what it leaves in the memory.
LEMMA ScriptType == ASSUME TypeInv, NEW p \in 0 .. MaxCmd, ScriptStep(p) PROVE TypeInv'
<1> USE DEF TypeInv
<1>0. /\ UNCHANGED agent /\ UNCHANGED log /\ ScriptOnly
      /\ script[p] # "none" /\ script \in [0 .. MaxCmd -> Steps]
  BY DEF ScriptStep, SetSsid, SetChannel, SetAuth, ReadMode, SetRest, CheckFlag, AddVif,
     ClearFlag, ScriptOnly, agent, At, TypeOK
<1>1. PICK t \in Steps : Then(p, t) /\ (p = 0 => t \in {"none", "check", "add", "clear"})
  <2>1. p = 0 => script[p] \in {"none", "check", "add", "clear"}
    BY DEF ScriptInv
  <2>2. CASE SetSsid(p) \/ SetChannel(p) \/ SetAuth(p) \/ SetRest(p)
    BY <2>1, <2>2 DEF SetSsid, SetChannel, SetAuth, SetRest, At, Past, After, Steps
  <2>3. CASE ReadMode(p)
    BY <2>1, <2>3 DEF ReadMode, At, Steps
  <2>4. CASE CheckFlag(p) \/ AddVif(p) \/ ClearFlag(p)
    BY <2>4 DEF CheckFlag, AddVif, ClearFlag, At, Steps
  <2>. QED BY <2>2, <2>3, <2>4 DEF ScriptStep
<1>2. script' \in [0 .. MaxCmd -> Steps] /\ ScriptInv'
  BY <1>0, <1>1, ScriptMoves
<1>3. nvram' \in Stored
  <2>1. ASSUME NEW f \in Fields, Put(f, p) PROVE nvram' \in Stored
    BY <2>1, Puts
  <2>2. CASE UNCHANGED nvram
    BY <2>2 DEF TypeOK
  <2>. QED
    BY <2>1, <2>2 DEF ScriptStep, SetSsid, SetChannel, SetAuth, ReadMode, SetRest, Set,
       CheckFlag, AddVif, ClearFlag, Fields
<1>4. elinkFlag' \in {0, 1} /\ added' \in Nat /\ mixed' \in BOOLEAN
  <2>1. CASE SetSsid(p)
    <3>1. mixed' \in BOOLEAN
      BY <2>1, Zenon DEF SetSsid
    <3>. QED BY <2>1, <3>1 DEF SetSsid, TypeOK
  <2>2. CASE SetChannel(p) \/ SetAuth(p) \/ ReadMode(p) \/ SetRest(p)
    BY <2>2 DEF SetChannel, SetAuth, ReadMode, SetRest, TypeOK
  <2>3. CASE CheckFlag(p) \/ AddVif(p) \/ ClearFlag(p)
    BY <2>3 DEF CheckFlag, AddVif, ClearFlag, TypeOK
  <2>. QED BY <2>1, <2>2, <2>3 DEF ScriptStep
<1>5. TypeOK'
  BY <1>0, <1>2, <1>3, <1>4 DEF ScriptOnly, TypeOK, agent, jobs
<1>. QED
  BY <1>0, <1>2, <1>5, PlaceSame

LEMMA RestartType == ASSUME TypeInv, Restart PROVE TypeInv'
<1> USE DEF TypeInv
<1>1. MaxRestart \in Nat /\ 0 \in 0 .. MaxCmd /\ nvram \in Settings
  BY WifiAssumption, SettingsTypes DEF TypeOK
<1>2. TypeOK'
  <2>1. radio' \in {"up", "down"} /\ restarts' \in 0 .. MaxRestart
    BY <1>1 DEF Restart, TypeOK
  <2>. QED BY <1>1, <2>1 DEF Restart, TypeOK, Stages, Steps, store
<1>3. PlaceInv' /\ ScriptInv'
  BY <1>1 DEF Restart, PlaceInv, ScriptInv, InWifi, Written
<1>. QED
  BY <1>2, <1>3

LEMMA NextType == ASSUME TypeInv, [Next]_vars PROVE TypeInv'
<1>1. CASE UNCHANGED vars
  BY <1>1 DEF vars, agent, store, jobs, history, TypeInv, TypeOK, PlaceInv, ScriptInv, Now, Aps, Net
<1>. QED
  BY <1>1, TakeType, AgentType, JobType, ScriptType, RestartType DEF Next, AgentStep

\* Every stage, field, counter and process keeps its type.
THEOREM TypeCorrect == Spec => []TypeOK
<1>1. TypeInv => TypeOK
  BY DEF TypeInv
<1>. QED
  BY <1>1, InitType, NextType, PTL DEF Spec

-----------------------------------------------------------------------------
(* The driver and its file.  While the agent rewrites the file the         *)
(* interface stays down, unless an `up` was under way when it went down.   *)
Rewriting == {"write", "copy", "append", "up"}

DriverInv ==
  /\ RunsWhatWasWritten
  /\ pc \in Rewriting /\ ~lateUp => radio = "down" /\ ups = 0

\* An interface that is down for no reason is about to be brought up.
OutageInv ==
  active /\ radio = "down" /\ ups = 0 /\ blame = "none" => pc \in Rewriting

LEMMA AgentDriver == ASSUME TypeInv, DriverInv, AgentStep PROVE DriverInv'
<1> USE DEF TypeInv, DriverInv, RunsWhatWasWritten, Rewriting
<1>1. CASE Down
  <2>1. ~lateUp' => ups = 0
    <3>1. ~lateUp' => ~(ups > 0)
      BY <1>1, Zenon DEF Down
    <3>2. ~(ups > 0) => ups = 0
      BY DEF TypeOK
    <3>. QED BY <3>1, <3>2
  <2>. QED BY <1>1, <2>1 DEF Down, Goto, jobs
<1>2. CASE Write \/ CopyDefaults \/ AppendSettings \/ LaunchUp
  BY <1>2 DEF Write, CopyDefaults, AppendSettings, LaunchUp, Goto, jobs, history
<1>3. CASE Switch \/ SwitchDone \/ Launch \/ Raise
  BY <1>3 DEF Switch, SwitchDone, Launch, Raise, Goto, Wifi, jobs, history
<1>4. CASE \E c \in Cmds : Take(c)
  BY <1>4 DEF Take, Wifi, jobs, history
<1>. QED
  BY <1>1, <1>2, <1>3, <1>4 DEF AgentStep

LEMMA ScriptKeeps ==
  ASSUME NEW p \in 0 .. MaxCmd, ScriptStep(p)
  PROVE  UNCHANGED <<log, pc, ap, radio, dat, run, active, ups, downs, lateUp, blame>>
  BY DEF ScriptStep, SetSsid, SetChannel, SetAuth, ReadMode, SetRest, CheckFlag, AddVif,
     ClearFlag, ScriptOnly, agent, jobs

LEMMA NextDriver == ASSUME TypeInv, DriverInv, [Next]_vars PROVE DriverInv'
<1>1. CASE JobUp \/ JobDown \/ Restart
  BY <1>1 DEF JobUp, JobDown, Restart, agent, DriverInv, RunsWhatWasWritten, Rewriting,
     TypeInv, TypeOK
<1>2. ASSUME NEW p \in 0 .. MaxCmd, ScriptStep(p) PROVE DriverInv'
  BY <1>2, ScriptKeeps DEF DriverInv, RunsWhatWasWritten
<1>3. CASE UNCHANGED vars
  BY <1>3 DEF vars, agent, jobs, history, DriverInv, RunsWhatWasWritten
<1>. QED
  BY <1>1, <1>2, <1>3, AgentDriver DEF Next

\* The driver runs what its file holds, unless an `up` came late.
THEOREM DriverFollows == Spec => []RunsWhatWasWritten
<1>1. Init => TypeInv /\ DriverInv
  BY InitType DEF Init, DriverInv, RunsWhatWasWritten, Rewriting
<1>2. TypeInv /\ DriverInv /\ [Next]_vars => (TypeInv /\ DriverInv)'
  BY NextType, NextDriver
<1>3. DriverInv => RunsWhatWasWritten
  BY DEF DriverInv
<1>. QED
  BY <1>1, <1>2, <1>3, PTL DEF Spec

LEMMA AgentOutage == ASSUME TypeInv, OutageInv, AgentStep PROVE OutageInv'
<1> USE DEF TypeInv, OutageInv, Rewriting
<1>1. CASE Down \/ Write \/ CopyDefaults \/ AppendSettings
  BY <1>1 DEF Down, Write, CopyDefaults, AppendSettings, Goto
<1>2. CASE LaunchUp
  <2>1. active => ups' # 0
    BY <1>2 DEF LaunchUp, TypeOK
  <2>. QED BY <1>2, <2>1 DEF LaunchUp, store
<1>3. CASE Switch
  <2>1. active' => ups' # 0
    BY <1>3 DEF Switch, TypeOK
  <2>. QED BY <2>1
<1>4. CASE SwitchDone \/ Launch \/ Raise
  BY <1>4 DEF SwitchDone, Launch, Raise, Goto, store, jobs, history
<1>5. CASE \E c \in Cmds : Take(c)
  BY <1>5 DEF Take, store, jobs, history
<1>. QED
  BY <1>1, <1>2, <1>3, <1>4, <1>5 DEF AgentStep

LEMMA NextOutage == ASSUME TypeInv, OutageInv, [Next]_vars PROVE OutageInv'
<1>1. CASE JobUp \/ JobDown \/ Restart
  BY <1>1 DEF JobUp, JobDown, Restart, agent, store, OutageInv
<1>2. ASSUME NEW p \in 0 .. MaxCmd, ScriptStep(p) PROVE OutageInv'
  BY <1>2, ScriptKeeps DEF OutageInv
<1>3. CASE UNCHANGED vars
  BY <1>3 DEF vars, agent, store, jobs, history, OutageInv
<1>. QED
  BY <1>1, <1>2, <1>3, AgentOutage DEF Next

\* An outage has a cause: a handler that raised, or a `down` that came late.
THEOREM OutagesHaveCauses == Spec => []OutageExplained
<1>1. Init => TypeInv /\ OutageInv
  BY InitType DEF Init, OutageInv
<1>2. TypeInv /\ OutageInv /\ [Next]_vars => (TypeInv /\ OutageInv)'
  BY NextType, NextOutage
<1>3. OutageInv => OutageExplained
  BY DEF OutageInv, OutageExplained, Rewriting
<1>. QED
  BY <1>1, <1>2, <1>3, PTL DEF Spec

-----------------------------------------------------------------------------
(* The file.  A script that is under way works for the command whose       *)
(* settings the driver's file holds: whoever else rewrites the file either *)
(* starts a script as well, which mixes the two, or dies without the       *)
(* fields a script needs.                                                  *)
Busy   == {p \in 1 .. MaxCmd : script[p] # "none"}
Steady == pc \notin {"append", "up", "launch"}
Owner  == dat.ssid.by

CompleteFile == Owner > 0 => Owner <= Now /\ Complete(Net(Owner))

FileInv ==
  /\ pc \in {"up", "launch"} => dat = File(Now)
  /\ pc # "append" => Owner <= Now
  /\ \A p \in Busy : script[p] = "ssid" /\ Owner = p => dat = File(p)
  /\ ~mixed /\ Steady /\ CompleteFile =>
       \A p \in Busy : script[p] # "ssid" => dat = File(p)

\* Files and networks of commands taken earlier stay what they are.
LEMMA TakeKeeps ==
  ASSUME TypeInv, NEW c \in Cmds, Take(c)
  PROVE  /\ Now' = Now + 1 /\ Now \in Nat
         /\ \A n \in 1 .. Now : Net(n)' = Net(n) /\ File(n)' = File(n)
         /\ Busy' = Busy /\ Busy \subseteq 1 .. Now
<1>1. Now' = Now + 1 /\ Now \in Nat /\ \A n \in 1 .. Now : log'[n] = log[n]
  BY LogGrows DEF Take, TypeInv, TypeOK, Now
<1>2. \A n \in 1 .. Now : Net(n)' = Net(n)
  BY <1>1 DEF Net, Aps
<1>3. \A n \in 1 .. Now : File(n)' = File(n)
  BY <1>2, Zenon DEF File
<1>4. Busy' = Busy /\ Busy \subseteq 1 .. Now
  BY <1>1, WifiAssumption DEF Take, Busy, TypeInv, ScriptInv
<1>. QED
  BY <1>1, <1>2, <1>3, <1>4

LEMMA TakeFile == ASSUME TypeInv, FileInv, NEW c \in Cmds, Take(c) PROVE FileInv'
<1>1. /\ Now' = Now + 1 /\ Now \in Nat /\ Owner' = Owner /\ Owner \in Nat /\ dat' = dat
      /\ \A n \in 1 .. Now : Net(n)' = Net(n) /\ File(n)' = File(n)
      /\ Busy' = Busy /\ Busy \subseteq 1 .. Now
  BY TakeKeeps, StoredNames, WifiAssumption DEF Take, TypeInv, Owner, Blank
<1>2. pc = "idle" /\ pc' \notin {"append", "up", "launch"} /\ Owner <= Now /\ Steady
  BY DEF Take, Wifi, FileInv, Steady
<1>3. CompleteFile' => CompleteFile
  <2> SUFFICES ASSUME CompleteFile', Owner > 0 PROVE Complete(Net(Owner))
    BY <1>2 DEF CompleteFile
  <2>1. Owner \in 1 .. Now /\ Net(Owner)' = Net(Owner)
    BY <1>1, <1>2
  <2>. QED BY <1>1, <2>1 DEF CompleteFile, Complete
<1>4. UNCHANGED <<script, mixed>>
  BY DEF Take, history
<1>. QED
  BY <1>1, <1>2, <1>3, <1>4 DEF FileInv

LEMMA SameFile ==
  UNCHANGED <<dat, log>> =>
    CompleteFile' = CompleteFile /\ Owner' = Owner /\ \A n : File(n)' = File(n)
  BY DEF CompleteFile, Owner, Now, Aps, Net, File

LEMMA AgentFile ==
  ASSUME TypeInv, FileInv,
         Switch \/ SwitchDone \/ Down \/ Write \/ CopyDefaults \/ AppendSettings
         \/ LaunchUp \/ Launch \/ Raise
  PROVE  FileInv'
<1>0. UNCHANGED log /\ Now' = Now /\ Now \in 1 .. MaxCmd /\ MaxCmd \in Nat
  BY WifiAssumption DEF TypeInv, TypeOK, PlaceInv, Now, Switch, SwitchDone, Down, Write,
     CopyDefaults, AppendSettings, LaunchUp, Launch, Raise, Goto
<1>00. File(Now)' = File(Now) /\ \A p : File(p)' = File(p)
  BY <1>0 DEF File, Net, Aps, Now
<1>1. CASE Switch
  <2>1. /\ UNCHANGED <<dat, nvram, mixed>> /\ pc' = "wait" /\ pc = "switch"
        /\ \A p \in 1 .. MaxCmd : script'[p] = script[p]
    BY <1>0, <1>1 DEF Switch, Goto, history, TypeInv, TypeOK
  <2>2. Busy' = Busy
    BY <2>1 DEF Busy
  <2>. QED BY <1>0, <2>1, <2>2, SameFile DEF FileInv, Steady, Busy
<1>2. CASE SwitchDone \/ Down \/ Write
  <2>1. /\ UNCHANGED <<dat, nvram, mixed, script>>
        /\ pc' \notin {"append", "up", "launch"} /\ pc \notin {"append", "up", "launch"}
    BY <1>2 DEF SwitchDone, Down, Write, Goto, Wifi, store, history
  <2>. QED BY <1>0, <2>1, SameFile DEF FileInv, Busy, Steady
<1>3. CASE CopyDefaults \/ AppendSettings
  <2>1. pc' \in {"append", "up"} /\ UNCHANGED <<script, mixed>>
    BY <1>3 DEF CopyDefaults, AppendSettings, Goto, history
  <2>2. CASE CopyDefaults
    <3>1. Owner' = Blank /\ pc' = "append"
      BY <2>2 DEF CopyDefaults, Goto, Owner, All, Fields
    <3>2. \A p \in Busy' : Owner' # p
      BY <1>0, <3>1 DEF Busy, Blank
    <3>. QED BY <3>1, <3>2 DEF FileInv, Steady
  <2>3. CASE AppendSettings
    <3>1. dat' = File(Now) /\ pc' = "up"
      BY <2>3 DEF AppendSettings, Goto
    <3>2. Owner' = Now
      BY <1>0, <3>1, FileNames DEF Owner
    <3>. QED BY <1>0, <1>00, <3>1, <3>2 DEF FileInv, Steady
  <2>. QED BY <1>3, <2>2, <2>3
<1>4. CASE LaunchUp
  <2>1. UNCHANGED <<dat, script, mixed>> /\ pc = "up" /\ pc' = "launch"
    BY <1>4 DEF LaunchUp, Goto, history
  <2>. QED BY <1>0, <1>00, <2>1, SameFile DEF FileInv, Steady, Busy
<1>5. CASE Launch
  <2>1. /\ ap = 1 /\ dat = File(Now) /\ dat' = dat
        /\ script' = [script EXCEPT ![Now] = "ssid"]
    BY <1>5 DEF Launch, After, TypeInv, PlaceInv, InWifi, Written, FileInv
  <2>2. Owner = Now /\ Owner' = Now
    BY <1>0, <2>1, FileNames DEF Owner
  <2>3. ~mixed' => Others(Now) = {}
    BY <1>5, Zenon DEF Launch
  <2>4. ~mixed' => \A p \in Busy' : script'[p] = "ssid"
    <3> SUFFICES ASSUME ~mixed', NEW p \in Busy' PROVE script'[p] = "ssid"
      OBVIOUS
    <3>1. p # Now => script[p] # "none" /\ p \in 0 .. MaxCmd
      BY <1>0, <2>1 DEF Busy, TypeInv, TypeOK
    <3>2. p = Now => script'[p] = "ssid"
      BY <1>0, <2>1 DEF TypeInv, TypeOK
    <3>. QED BY <2>3, <3>1, <3>2 DEF Others
  <2>5. pc' \notin {"up", "launch", "append"}
    BY <1>5 DEF Launch, Wifi
  <2>. QED BY <1>0, <1>00, <2>1, <2>2, <2>4, <2>5 DEF FileInv
<1>6. CASE Raise
  <2>1. UNCHANGED <<dat, mixed, script>> /\ pc' = "idle"
    BY <1>6 DEF Raise, Goto
  <2>2. CASE pc = "write"
    BY <1>0, <2>1, <2>2, SameFile DEF FileInv, Steady, Busy
  <2>3. CASE pc = "launch"
    <3>1. ap = 1 /\ dat = File(Now) /\ ~Complete(Net(Now))
      BY <1>6, <2>3 DEF Raise, Current, FileInv, TypeInv, PlaceInv, InWifi, Written, Net
    <3>2. Owner = Now
      BY <1>0, <3>1, FileNames DEF Owner
    <3>3. ~CompleteFile'
      BY <1>0, <2>1, <3>1, <3>2, SameFile DEF CompleteFile
    <3>. QED BY <1>0, <1>00, <2>1, <3>2, <3>3, SameFile DEF FileInv, Busy
  <2>. QED BY <1>6, <2>2, <2>3 DEF Raise
<1>. QED
  BY <1>1, <1>2, <1>3, <1>4, <1>5, <1>6

LEMMA ScriptFile == ASSUME TypeInv, FileInv, NEW p \in 0 .. MaxCmd, ScriptStep(p) PROVE FileInv'
<1>0. UNCHANGED <<log, pc, dat>> /\ Now' = Now
  BY ScriptKeeps DEF Now
<1>1. PICK t \in Steps : t # "ssid" /\ script' = [script EXCEPT ![p] = t]
  BY DEF ScriptStep, SetSsid, SetChannel, SetAuth, ReadMode, SetRest, CheckFlag, AddVif,
     ClearFlag, Then, Past, After, Steps
<1>2. script[p] # "none" /\ script \in [0 .. MaxCmd -> Steps]
  BY DEF ScriptStep, SetSsid, SetChannel, SetAuth, ReadMode, SetRest, CheckFlag, AddVif,
     ClearFlag, At, TypeInv, TypeOK
<1>3. /\ \A q \in Busy' : q \in Busy /\ (q # p => script'[q] = script[q])
      /\ \A q \in Busy' : script'[q] = "ssid" => script[q] = "ssid"
  BY <1>1, <1>2 DEF Busy
<1>4. CASE SetSsid(p)
  <2>1. ~mixed' => Owner = p /\ Others(p) = {}
    BY <1>4, Zenon DEF SetSsid, Owner
  <2>2. ~mixed' => \A q \in Busy' : q = p
    BY <1>3, <2>1 DEF Others, Busy
  <2>3. p \in Busy /\ script[p] = "ssid"
    BY <1>4, WifiAssumption DEF SetSsid, At, Busy, TypeInv, ScriptInv
  <2>4. ~mixed' => dat = File(p)
    BY <2>1, <2>3 DEF FileInv
  <2>. QED BY <1>0, <1>3, <2>2, <2>4, SameFile DEF FileInv
<1>5. CASE ~SetSsid(p)
  <2>1. UNCHANGED mixed /\ script[p] # "ssid"
    BY <1>5 DEF ScriptStep, SetChannel, SetAuth, ReadMode, SetRest, CheckFlag, AddVif,
       ClearFlag, At
  <2>2. \A q \in Busy' : script'[q] # "ssid" => script[q] # "ssid"
    BY <1>3, <2>1
  <2>. QED BY <1>0, <1>3, <2>1, <2>2, SameFile DEF FileInv, Steady
<1>. QED
  BY <1>4, <1>5

\* Nothing in the memory is newer than the last command.
FieldInv == \A f \in Fields : nvram[f].by <= Now

\* A script writes nothing but its own number, field by field.
LEMMA ScriptPuts ==
  ASSUME TypeInv, NEW p \in 0 .. MaxCmd, ScriptStep(p), NEW f \in Fields
  PROVE  \/ nvram'[f] = nvram[f]
         \/ nvram'[f].by = p /\ p \in 1 .. Now
<1>1. CASE \E g \in Fields : Put(g, p) /\ script[p] \notin {"none", "check", "add", "clear"}
  <2>1. p # 0 /\ script[p] # "none"
    BY <1>1 DEF TypeInv, ScriptInv
  <2>2. p \in 1 .. Now
    BY <2>1, WifiAssumption DEF TypeInv, TypeOK, ScriptInv, Now
  <2>3. nvram'[f] = nvram[f] \/ nvram'[f].by = p
    BY <1>1, Puts DEF TypeInv
  <2>. QED BY <2>2, <2>3
<1>2. CASE UNCHANGED nvram
  BY <1>2
<1>. QED
  BY <1>1, <1>2 DEF ScriptStep, SetSsid, SetChannel, SetAuth, ReadMode, SetRest, Set,
     CheckFlag, AddVif, ClearFlag, At, Fields

\* The steps of a script that write a field, and that leave it alone.
Writing(f) == IF f = "mode" THEN {"auth"} ELSE {f}

LEMMA OthersKeep ==
  ASSUME TypeInv, NEW p \in 0 .. MaxCmd, ScriptStep(p)
  PROVE  \A f \in Fields : script[p] \notin Writing(f) => nvram'[f] = nvram[f]
<1> SUFFICES ASSUME NEW f \in Fields, script[p] \notin Writing(f) PROVE nvram'[f] = nvram[f]
  OBVIOUS
<1>1. ASSUME NEW g \in Fields, Put(g, p), g # f PROVE nvram'[f] = nvram[f]
  BY <1>1, Puts DEF TypeInv
<1>2. CASE UNCHANGED nvram
  BY <1>2
<1>3. CASE SetSsid(p)
  BY <1>1, <1>3 DEF SetSsid, At, Writing, Fields
<1>4. CASE SetChannel(p)
  BY <1>1, <1>2, <1>4 DEF SetChannel, Set, At, Writing, Fields
<1>5. CASE SetAuth(p)
  BY <1>1, <1>2, <1>5 DEF SetAuth, Set, At, Writing, Fields
<1>6. CASE SetRest(p)
  BY <1>1, <1>2, <1>6 DEF SetRest, Set, At, Writing, Fields
<1>7. CASE ReadMode(p) \/ CheckFlag(p) \/ AddVif(p) \/ ClearFlag(p)
  BY <1>2, <1>7 DEF ReadMode, CheckFlag, AddVif, ClearFlag
<1>. QED
  BY <1>3, <1>4, <1>5, <1>6, <1>7 DEF ScriptStep

LEMMA NextField == ASSUME TypeInv, FieldInv, [Next]_vars PROVE FieldInv'
<1>0. Now \in Nat /\ \A f \in Fields : nvram[f].by \in 0 .. MaxCmd
  BY StoredNames DEF TypeInv, TypeOK, Now
<1>1. ASSUME NEW c \in Cmds, Take(c) PROVE FieldInv'
  <2>1. Now' = Now + 1 /\ UNCHANGED nvram
    BY <1>1, LogGrows DEF Take, TypeInv, store
  <2>. QED BY <1>0, <2>1 DEF FieldInv
<1>2. ASSUME NEW p \in 0 .. MaxCmd, ScriptStep(p) PROVE FieldInv'
  <2>1. Now' = Now
    BY <1>2, ScriptKeeps DEF Now
  <2>. QED BY <1>0, <1>2, <2>1, ScriptPuts DEF FieldInv
<1>3. ASSUME UNCHANGED <<log, nvram>> PROVE FieldInv'
  BY <1>3 DEF FieldInv, Now
<1>. QED
  BY <1>1, <1>2, <1>3 DEF Next, AgentStep, Switch, SwitchDone, Down, Write, CopyDefaults,
     AppendSettings, LaunchUp, Launch, Raise, JobUp, JobDown, Restart, Goto, agent, store, vars

LEMMA InitFile == Init => FieldInv /\ FileInv
  BY WifiAssumption DEF Init, FieldInv, FileInv, Busy, Owner, All, Now, Fields

LEMMA NextFile == ASSUME TypeInv, FieldInv, FileInv, [Next]_vars PROVE FileInv'
<1>1. CASE JobUp \/ JobDown \/ UNCHANGED vars
  <2>1. UNCHANGED <<log, pc, dat, mixed, script>> /\ Now' = Now
    BY <1>1 DEF JobUp, JobDown, vars, agent, history, Now
  <2>. QED BY <2>1, SameFile DEF FileInv, Busy, Steady
<1>2. CASE Restart
  <2>1. dat' = nvram /\ pc' = "idle" /\ Now' = Now /\ Busy' = {}
    BY <1>2, WifiAssumption DEF Restart, Now, Busy
  <2>2. Owner' <= Now
    BY <2>1 DEF FieldInv, Fields, Owner
  <2>. QED BY <2>1, <2>2 DEF FileInv
<1>. QED
  BY <1>1, <1>2, TakeFile, AgentFile, ScriptFile DEF Next, AgentStep

-----------------------------------------------------------------------------
(* A power cut in the middle of a script.  As long as a script runs        *)
(* nothing in the memory is newer than the driver's file; if it is not     *)
(* mixed with another, its own number is the ssid once it has set it.      *)
NewestInv ==
  /\ SsidNewest
  /\ \A p \in Busy : p <= Owner /\ \A f \in Fields : nvram[f].by <= Owner
  /\ ~mixed => \A p \in Busy : script[p] # "ssid" => nvram.ssid.by = p

LEMMA AgentNewest ==
  ASSUME TypeInv, FieldInv, FileInv, NewestInv,
         Switch \/ SwitchDone \/ Down \/ Write \/ CopyDefaults \/ AppendSettings
         \/ LaunchUp \/ Launch \/ Raise
  PROVE  NewestInv'
<1>0. /\ UNCHANGED nvram /\ Now \in 1 .. MaxCmd /\ MaxCmd \in Nat
      /\ \A f \in Fields : nvram[f].by \in 0 .. MaxCmd
  BY WifiAssumption, StoredNames DEF TypeInv, TypeOK, PlaceInv, Now, Switch, SwitchDone, Down,
     Write, CopyDefaults, AppendSettings, LaunchUp, Launch, Raise, store
<1>1. CASE Switch
  <2>1. \A p \in 1 .. MaxCmd : script'[p] = script[p]
    BY <1>1 DEF Switch, TypeInv, TypeOK
  <2>2. Busy' = Busy
    BY <2>1 DEF Busy
  <2>. QED BY <1>0, <1>1, <2>1, <2>2 DEF Switch, history, NewestInv, SsidNewest, Busy, Owner
<1>2. CASE SwitchDone \/ Down \/ Write \/ LaunchUp \/ Raise
  <2>1. UNCHANGED <<dat, mixed, script>>
    BY <1>2 DEF SwitchDone, Down, Write, LaunchUp, Raise, store, history
  <2>. QED BY <1>0, <2>1 DEF NewestInv, SsidNewest, Busy, Owner
<1>3. CASE CopyDefaults \/ AppendSettings
  <2>1. Owner' \in {Now, Blank}
    <3>1. CASE CopyDefaults
      BY <3>1 DEF CopyDefaults, Owner, All, Fields
    <3>2. CASE AppendSettings
      <4>1. dat' = File(Now)
        BY <3>2 DEF AppendSettings
      <4>. QED BY <1>0, <4>1, FileNames DEF Owner
    <3>. QED BY <1>3, <3>1, <3>2
  <2>2. \A f \in Fields : nvram[f].by <= Owner'
    BY <1>0, <2>1 DEF Blank, FieldInv
  <2>3. \A p \in Busy : p <= Owner'
    BY <1>0, <2>1 DEF Blank, Busy, TypeInv, ScriptInv
  <2>4. UNCHANGED <<mixed, script>>
    BY <1>3 DEF CopyDefaults, AppendSettings, history
  <2>. QED BY <1>0, <2>2, <2>3, <2>4 DEF NewestInv, SsidNewest, Busy
<1>4. CASE Launch
  <2>1. dat = File(Now) /\ dat' = dat /\ script' = [script EXCEPT ![Now] = "ssid"]
    BY <1>4 DEF Launch, After, TypeInv, PlaceInv, InWifi, Written, FileInv
  <2>2. ~mixed' => ~mixed /\ Others(Now) = {}
    BY <1>4, Zenon DEF Launch
  <2>3. ASSUME ~mixed', NEW p \in Busy', script'[p] # "ssid" PROVE nvram'.ssid.by = p
    <3>1. p # Now => script[p] # "none" /\ p \in 0 .. MaxCmd
      BY <1>0, <2>1, <2>3 DEF Busy, TypeInv, TypeOK
    <3>2. p = Now => script'[p] = "ssid"
      BY <1>0, <2>1 DEF TypeInv, TypeOK
    <3>. QED BY <2>2, <2>3, <3>1, <3>2 DEF Others
  <2>4. Owner' = Now
    BY <1>0, <2>1, FileNames DEF Owner
  <2>5. \A f \in Fields : nvram'[f].by <= Owner'
    BY <1>0, <2>4 DEF FieldInv
  <2>6. SsidNewest'
    BY <1>0, <2>2 DEF NewestInv, SsidNewest
  <2>7. \A p \in Busy' : p <= Owner'
    BY <1>0, <2>1, <2>4 DEF Busy, TypeInv, TypeOK, ScriptInv
  <2>. QED BY <2>3, <2>5, <2>6, <2>7 DEF NewestInv
<1>. QED
  BY <1>1, <1>2, <1>3, <1>4

LEMMA ScriptNewest ==
  ASSUME TypeInv, NewestInv, NEW p \in 0 .. MaxCmd, ScriptStep(p) PROVE NewestInv'
<1>0. /\ \A f \in Fields : nvram[f].by \in 0 .. MaxCmd
      /\ Owner \in Nat /\ Owner' = Owner /\ Now \in Nat /\ MaxCmd \in Nat
  <2>1. TypeOK /\ MaxCmd \in Nat /\ Blank \in Nat /\ Now \in Nat
    BY WifiAssumption DEF TypeInv, TypeOK, Blank, Now
  <2>2. dat' = dat
    BY ScriptKeeps
  <2>. QED BY <2>1, <2>2, StoredNames DEF Owner
<1>1. CASE SetSsid(p)
  <2>1. p \in Busy
    BY <1>1, WifiAssumption DEF SetSsid, At, TypeInv, ScriptInv, Busy
  <2>2. ~mixed' => Others(p) = {} /\ Owner = p
    BY <1>1, Zenon DEF SetSsid, Owner
  <2>3. nvram'.ssid.by = p /\ \A f \in Fields : nvram'[f].by \in {nvram[f].by, p}
    <3>1. Put("ssid", p) /\ "ssid" \in Fields /\ TypeOK
      BY <1>1 DEF SetSsid, Fields, TypeInv
    <3>. QED BY <3>1, Puts
  <2>4. p <= Owner
    BY <2>1 DEF NewestInv
  <2>5. \A f \in Fields : nvram'[f].by <= Owner'
    BY <1>0, <2>1, <2>3, <2>4 DEF NewestInv
  <2>6. SsidNewest'
    BY <1>0, <2>2, <2>3, <2>5 DEF SsidNewest
  <2>7. ASSUME ~mixed', NEW q \in Busy' PROVE nvram'.ssid.by = q
    <3>1. q # p => script[q] # "none" /\ q \in 0 .. MaxCmd
      BY <1>1, <2>7 DEF SetSsid, Then, Busy, TypeInv, TypeOK
    <3>. QED BY <2>2, <2>3, <2>7, <3>1 DEF Others
  <2>8. \A q \in Busy' : q <= Owner'
    BY <1>0, <1>1, <2>4 DEF SetSsid, Then, Busy, NewestInv, TypeInv, TypeOK
  <2>. QED BY <2>5, <2>6, <2>7, <2>8 DEF NewestInv
<1>2. CASE ~SetSsid(p)
  <2>1. mixed' = mixed /\ script[p] \notin {"none", "ssid"}
    BY <1>2 DEF ScriptStep, SetChannel, SetAuth, ReadMode, SetRest, CheckFlag, AddVif,
       ClearFlag, At
  <2>2. PICK t : script' = [script EXCEPT ![p] = t]
    BY <1>2 DEF ScriptStep, SetChannel, SetAuth, ReadMode, SetRest, CheckFlag, AddVif,
       ClearFlag, Then
  <2>3. Busy' \subseteq Busy /\ \A q \in Busy' : q # p => script'[q] = script[q]
    BY <2>1, <2>2 DEF Busy, TypeInv, TypeOK
  <2>4. nvram'.ssid = nvram.ssid
    BY <2>1, OthersKeep DEF Writing, Fields
  <2>5. \A f \in Fields : nvram'[f].by = nvram[f].by \/ (nvram'[f].by = p /\ p \in Busy)
    <3>1. p \in 1 .. Now => p \in Busy
      BY <1>0, <2>1 DEF Busy, TypeInv, TypeOK, Now
    <3>. QED BY <3>1, ScriptPuts
  <2>6. ASSUME ~mixed, p \in Busy PROVE nvram.ssid.by = p
    BY <2>1, <2>6 DEF NewestInv
  <2>7. SsidNewest'
    BY <1>0, <2>1, <2>4, <2>5, <2>6 DEF NewestInv, SsidNewest, Fields
  <2>8. \A q \in Busy' : q <= Owner' /\ \A f \in Fields : nvram'[f].by <= Owner'
    BY <1>0, <2>3, <2>5 DEF NewestInv
  <2>9. ~mixed' => \A q \in Busy' : script'[q] # "ssid" => nvram'.ssid.by = q
    BY <2>1, <2>3, <2>4, <2>6 DEF NewestInv
  <2>. QED BY <2>7, <2>8, <2>9 DEF NewestInv
<1>. QED
  BY <1>1, <1>2

LEMMA NextNewest ==
  ASSUME TypeInv, FieldInv, FileInv, NewestInv, [Next]_vars PROVE NewestInv'
<1>1. ASSUME UNCHANGED <<nvram, dat, mixed, script>> PROVE NewestInv'
  BY <1>1 DEF NewestInv, SsidNewest, Busy, Owner
<1>2. CASE Restart
  <2>1. Busy' = {}
    BY <1>2, WifiAssumption DEF Restart, Busy
  <2>. QED BY <1>2, <2>1 DEF Restart, store, NewestInv, SsidNewest
<1>3. CASE JobUp \/ JobDown \/ UNCHANGED vars \/ \E c \in Cmds : Take(c)
  BY <1>1, <1>3 DEF JobUp, JobDown, Take, vars, store, history
<1>. QED
  BY <1>2, <1>3, AgentNewest, ScriptNewest DEF Next, AgentStep

\* Unless scripts overlapped, the ssid in the memory is its newest setting.
THEOREM SsidStaysNewest == Spec => []SsidNewest
<1>1. Init => TypeInv /\ FieldInv /\ FileInv /\ NewestInv
  <2>1. Init => NewestInv
    BY WifiAssumption DEF Init, NewestInv, SsidNewest, Busy, Fields, All
  <2>. QED BY <2>1, InitType, InitFile
<1>2. TypeInv /\ FieldInv /\ FileInv /\ NewestInv /\ [Next]_vars
      => (TypeInv /\ FieldInv /\ FileInv /\ NewestInv)'
  BY NextType, NextField, NextFile, NextNewest
<1>3. NewestInv => SsidNewest
  BY DEF NewestInv
<1>. QED
  BY <1>1, <1>2, <1>3, PTL DEF Spec

-----------------------------------------------------------------------------
(* The key.  Nobody else has used the number of the command that is being  *)
(* carried out, so its script finds both slots without it; and as long as  *)
(* no other script has set the ssid since, the mode it decides by is the   *)
(* one it has set itself.                                                  *)
Known(p)     == Net(p).auth # "bad"
Unwritten(p) == nvram.wep.by # p /\ nvram.psk.by # p

KeyPlaced(p, stage) ==
  /\ stage = "key" => nvram.mode.by = p
  /\ stage = "wep" => Net(p).auth = "shared"
  /\ stage = "psk" => Net(p).auth # "shared"

SlotInv ==
  /\ KeyInItsSlot
  /\ pc # "idle" /\ ap = 1 => Unwritten(Now) /\ script[Now] = "none"
  /\ \A p \in Busy : script[p] = "ssid" => Unwritten(p)
  /\ ~mixed => \A p \in Busy : Known(p) => KeyPlaced(p, script[p])

\* The agent takes a command: its number is new.
LEMMA TakeSlot ==
  ASSUME TypeInv, FieldInv, SlotInv, NEW c \in Cmds, Take(c) PROVE SlotInv'
<1>1. /\ Now' = Now + 1 /\ Now \in Nat /\ UNCHANGED <<nvram, script, mixed>>
      /\ \A n \in 1 .. Now : Net(n)' = Net(n)
      /\ Busy' = Busy /\ Busy \subseteq 1 .. Now
  BY TakeKeeps DEF Take, store, history
<1>2. \A f \in Fields : nvram[f].by \in Nat /\ nvram[f].by <= Now
  BY StoredNames, WifiAssumption DEF TypeInv, FieldInv
<1>3. Unwritten(Now)' /\ script'[Now'] = "none"
  <2>1. Unwritten(Now)'
    BY <1>1, <1>2 DEF Unwritten, Fields
  <2>2. Now + 1 \in 1 .. MaxCmd /\ ~(Now + 1 <= Now)
    BY <1>1, WifiAssumption DEF Take
  <2>. QED BY <1>1, <2>1, <2>2 DEF TypeInv, ScriptInv
<1>4. nvram.ssid.by > 0 => Net(nvram.ssid.by)' = Net(nvram.ssid.by)
  BY <1>1, <1>2 DEF Fields
<1>5. KeyInItsSlot'
  BY <1>1, <1>4 DEF SlotInv, KeyInItsSlot, Slot, Cipher
<1>6. \A p \in Busy : Net(p)' = Net(p)
  BY <1>1
<1>7. \A p \in Busy' : script'[p] = "ssid" => Unwritten(p)'
  BY <1>1 DEF SlotInv, Unwritten
<1>8. ~mixed' => \A p \in Busy' : Known(p)' => KeyPlaced(p, script[p])'
  BY <1>1, <1>6 DEF SlotInv, Known, KeyPlaced
<1>. QED
  BY <1>1, <1>3, <1>5, <1>7, <1>8 DEF SlotInv

\* The rest of what the agent does leaves the memory alone.
LEMMA AgentSlot ==
  ASSUME TypeInv, FileInv, SlotInv,
         Switch \/ SwitchDone \/ Down \/ Write \/ CopyDefaults \/ AppendSettings
         \/ LaunchUp \/ Launch \/ Raise
  PROVE  SlotInv'
<1>1. /\ UNCHANGED <<nvram, log>> /\ Now' = Now /\ pc # "idle"
      /\ Now \in 1 .. MaxCmd /\ MaxCmd \in Nat
  BY WifiAssumption DEF TypeInv, TypeOK, PlaceInv, Now, Switch, SwitchDone, Down, Write,
     CopyDefaults, AppendSettings, LaunchUp, Launch, Raise, store, Goto
<1>2. \A p : Net(p)' = Net(p)
  BY <1>1 DEF Net, Aps
<1>3. (~mixed' => ~mixed) => KeyInItsSlot'
  BY <1>1, <1>2 DEF SlotInv, KeyInItsSlot, Slot, Cipher
<1>4. CASE Switch \/ SwitchDone \/ Down \/ Write \/ CopyDefaults \/ AppendSettings
           \/ LaunchUp \/ Raise
  <2>1. UNCHANGED <<mixed, ap>>
    BY <1>4 DEF Switch, SwitchDone, Down, Write, CopyDefaults, AppendSettings, LaunchUp,
       Raise, Goto, history
  <2>2. \A p \in 1 .. MaxCmd : script'[p] = script[p]
    <3>1. CASE Switch
      BY <3>1 DEF Switch, TypeInv, TypeOK
    <3>2. CASE ~Switch
      BY <1>4, <3>2 DEF SwitchDone, Down, Write, CopyDefaults, AppendSettings, LaunchUp, Raise
    <3>. QED BY <3>1, <3>2
  <2>3. Busy' = Busy /\ \A p \in Busy : p \in 1 .. MaxCmd
    BY <2>2 DEF Busy
  <2>4. \A p \in Busy' : script'[p] = "ssid" => Unwritten(p)'
    BY <1>1, <2>2, <2>3 DEF SlotInv, Unwritten
  <2>5. ~mixed' => \A p \in Busy' : Known(p)' => KeyPlaced(p, script[p])'
    BY <1>1, <1>2, <2>1, <2>2, <2>3 DEF SlotInv, Known, KeyPlaced
  <2>. QED BY <1>1, <1>3, <2>1, <2>2, <2>4, <2>5 DEF SlotInv, Unwritten
<1>5. CASE Launch
  <2>1. ap = 1 /\ ap' = 2 /\ script' = [script EXCEPT ![Now] = "ssid"]
    BY <1>1, <1>5 DEF Launch, After, TypeInv, PlaceInv, InWifi, Written
  <2>2. ~mixed' => ~mixed
    BY <1>5, Zenon DEF Launch
  <2>3. Unwritten(Now)
    BY <1>1, <2>1 DEF SlotInv
  <2>4. \A p \in Busy' : (p = Now /\ script'[p] = "ssid") \/ (p \in Busy /\ script'[p] = script[p])
    BY <2>1 DEF Busy, TypeInv, TypeOK
  <2>5. \A p \in Busy' : script'[p] = "ssid" => Unwritten(p)'
    BY <1>1, <2>3, <2>4 DEF SlotInv, Unwritten
  <2>6. ASSUME ~mixed', NEW p \in Busy', Known(p)' PROVE KeyPlaced(p, script[p])'
    BY <1>1, <1>2, <2>2, <2>4, <2>6 DEF SlotInv, Known, KeyPlaced
  <2>. QED BY <1>3, <2>1, <2>2, <2>5, <2>6 DEF SlotInv
<1>. QED
  BY <1>4, <1>5

\* Where a script is after a step of its own, and what it has written then.
LEMMA ScriptSlot ==
  ASSUME TypeInv, NewestInv, SlotInv, NEW p \in 0 .. MaxCmd, ScriptStep(p) PROVE SlotInv'
<1>1. /\ UNCHANGED <<log, pc, ap>> /\ Now' = Now /\ \A q : Net(q)' = Net(q)
      /\ TypeOK /\ MaxCmd \in Nat
  BY ScriptKeeps, WifiAssumption DEF TypeInv, Now, Net, Aps
<1>2. PICK t \in Steps : t # "ssid" /\ script' = [script EXCEPT ![p] = t]
  BY DEF ScriptStep, SetSsid, SetChannel, SetAuth, ReadMode, SetRest, CheckFlag, AddVif,
     ClearFlag, Then, Past, After, Steps
<1>3. script[p] # "none" /\ (p # 0 => p \in Busy) /\ script' \in [0 .. MaxCmd -> Steps]
  <2>1. script[p] # "none"
    BY DEF ScriptStep, SetSsid, SetChannel, SetAuth, ReadMode, SetRest, CheckFlag, AddVif,
       ClearFlag, At
  <2>. QED BY <1>1, <1>2, <2>1 DEF Busy, TypeOK
<1>4. /\ script'[p] = t /\ \A q \in Busy' : q \in Busy /\ (q # p => script'[q] = script[q])
      /\ \A q \in 1 .. MaxCmd : q # p => script'[q] = script[q]
  BY <1>1, <1>2, <1>3 DEF Busy, TypeOK
<1>5. \A q : q # p /\ Unwritten(q) => Unwritten(q)'
  <2>1. \A f \in Fields : nvram'[f] = nvram[f] \/ nvram'[f].by = p
    BY ScriptPuts
  <2>. QED BY <2>1 DEF Unwritten, Fields
<1>6. \A q \in Busy' : script'[q] = "ssid" => Unwritten(q)'
  BY <1>2, <1>4, <1>5 DEF SlotInv
<1>7. pc' # "idle" /\ ap' = 1 => Unwritten(Now)' /\ script'[Now'] = "none"
  <2> SUFFICES ASSUME pc # "idle", ap = 1 PROVE Unwritten(Now)' /\ script'[Now] = "none"
    BY <1>1
  <2>1. Unwritten(Now) /\ script[Now] = "none" /\ Now \in 1 .. MaxCmd /\ p # Now
    BY <1>1, <1>3 DEF SlotInv, TypeInv, TypeOK, PlaceInv, Now
  <2>. QED BY <1>1, <1>4, <1>5, <2>1 DEF Unwritten
<1>8. CASE SetSsid(p)
  <2>1. p \in Busy /\ script[p] = "ssid" /\ Unwritten(p)
    BY <1>1, <1>3, <1>8 DEF SetSsid, At, SlotInv, TypeInv, ScriptInv
  <2>2. /\ nvram'.ssid.by = p /\ nvram'.wep = nvram.wep /\ nvram'.psk = nvram.psk
    <3>1. Put("ssid", p)
      BY <1>8 DEF SetSsid
    <3>. QED BY <1>1, <3>1, Puts DEF Fields
  <2>3. ~mixed' => Others(p) = {}
    BY <1>8, Zenon DEF SetSsid
  <2>4. KeyInItsSlot'
    BY <2>1, <2>2 DEF KeyInItsSlot, Unwritten
  <2>5. t \in {"channel", "check"}
    BY <1>2, <1>4, <1>8 DEF SetSsid, Then, Past, After, TypeInv, TypeOK
  <2>6. ~mixed' => \A q \in Busy' : q = p
    BY <1>4, <2>3 DEF Others, Busy
  <2>7. ~mixed' => \A q \in Busy' : KeyPlaced(q, script[q])'
    BY <1>4, <2>5, <2>6 DEF KeyPlaced
  <2>. QED BY <1>6, <1>7, <2>4, <2>7 DEF SlotInv
<1>9. CASE ~SetSsid(p)
  <2>1. mixed' = mixed /\ script[p] # "ssid"
    BY <1>9 DEF ScriptStep, SetChannel, SetAuth, ReadMode, SetRest, CheckFlag, AddVif,
       ClearFlag, At
  <2>2. /\ nvram'.ssid = nvram.ssid
        /\ script[p] # "auth" => nvram'.mode = nvram.mode
        /\ nvram'.wep = nvram.wep \/ (nvram'.wep.by = p /\ script[p] = "wep")
        /\ nvram'.psk = nvram.psk \/ (nvram'.psk.by = p /\ script[p] = "psk")
    <3>1. \A f \in Fields : nvram'[f] = nvram[f] \/ nvram'[f].by = p
      BY ScriptPuts
    <3>. QED BY <2>1, <3>1, OthersKeep DEF Writing, Fields
  <2>3. ~mixed /\ p # 0 => nvram.ssid.by = p /\ \A q \in Busy : script[q] # "ssid" => q = p
    BY <1>3, <2>1 DEF NewestInv
  <2>4. p = 0 => nvram'.ssid = nvram.ssid /\ nvram'.wep = nvram.wep /\ nvram'.psk = nvram.psk
                 /\ nvram'.mode = nvram.mode
    BY <2>2 DEF TypeInv, ScriptInv
  <2>5. p # 0 => Complete(Net(p))
    BY <1>3 DEF Busy, TypeInv, ScriptInv
  <2>6. KeyInItsSlot'
    <3> SUFFICES ASSUME ~mixed, nvram.ssid.by > 0, Known(nvram.ssid.by)
                 PROVE  LET n == nvram.ssid.by IN
                        /\ nvram'.wep.by = n => Slot(Net(n)) = "wep"
                        /\ nvram'.psk.by = n =>
                             Slot(Net(n)) = "psk" \/ (Net(n).auth # "shared" /\ Net(n).encrypt = "wep")
      BY <1>1, <2>1, <2>2, Zenon DEF KeyInItsSlot, Known, Slot, Cipher
    <3>1. CASE nvram'.wep = nvram.wep /\ nvram'.psk = nvram.psk
      BY <3>1 DEF SlotInv, KeyInItsSlot, Known
    <3>2. CASE p # 0 /\ script[p] \in {"wep", "psk"}
      <4>1. nvram.ssid.by = p /\ KeyPlaced(p, script[p]) /\ Complete(Net(p))
        BY <1>3, <2>3, <2>5, <3>2 DEF SlotInv
      <4>2. CASE script[p] = "wep"
        <5>1. Net(p).auth = "shared" /\ nvram'.psk = nvram.psk
          BY <2>2, <4>1, <4>2 DEF KeyPlaced
        <5>2. Slot(Net(p)) = "wep"
          BY <4>1, <5>1 DEF Complete, Slot, Cipher
        <5>. QED BY <4>1, <5>1, <5>2 DEF SlotInv, KeyInItsSlot, Known
      <4>3. CASE script[p] = "psk"
        <5>1. Net(p).auth # "shared" /\ nvram'.wep = nvram.wep
          BY <2>2, <4>1, <4>3 DEF KeyPlaced
        <5>2. Slot(Net(p)) = "psk" \/ Net(p).encrypt = "wep"
          BY <5>1 DEF Slot, Cipher
        <5>. QED BY <4>1, <5>1, <5>2 DEF SlotInv, KeyInItsSlot, Known
      <4>. QED BY <3>2, <4>2, <4>3
    <3>. QED BY <2>2, <2>4, <3>1, <3>2
  <2>7. ASSUME ~mixed', NEW q \in Busy', Known(q)' PROVE KeyPlaced(q, script[q])'
    <3>1. q \in Busy /\ Known(q) /\ ~mixed /\ q # 0 /\ Net(q)' = Net(q)
      BY <1>1, <1>4, <2>1, <2>7 DEF Known, Busy
    <3>2. KeyPlaced(q, script[q])
      BY <3>1 DEF SlotInv
    <3>3. CASE q # p
      <4>1. script'[q] = script[q] /\ (p # 0 => script[q] = "ssid")
        BY <1>4, <2>3, <2>7, <3>1, <3>3
      <4>. QED BY <2>4, <3>1, <3>2, <4>1 DEF KeyPlaced
    <3>4. CASE q = p
      <4>1. CASE SetAuth(p)
        <5>1. t = "key" /\ Put("mode", p)
          BY <1>2, <1>4, <3>1, <3>4, <4>1 DEF SetAuth, Then, Past, Cut, After, Set, Keep, Known,
             TypeInv, TypeOK
        <5>2. nvram'.mode.by = p
          BY <1>1, <5>1, Puts DEF Fields
        <5>. QED BY <1>4, <3>4, <5>1, <5>2 DEF KeyPlaced
      <4>2. CASE ReadMode(p)
        <5>1. nvram.mode.by = p
          BY <3>2, <3>4, <4>2 DEF ReadMode, At, KeyPlaced
        <5>2. t = IF Shared THEN "wep" ELSE "psk"
          BY <1>4, <4>2 DEF ReadMode, Then, TypeInv, TypeOK
        <5>3. Shared <=> Net(p).auth = "shared"
          BY <3>1, <3>4, <5>1 DEF Shared
        <5>. QED BY <1>4, <3>1, <3>4, <5>2, <5>3 DEF KeyPlaced
      <4>3. CASE ~SetAuth(p) /\ ~ReadMode(p)
        <5>0. \A s : Past(p, s) \in {"check", After[s]}
          BY Zenon DEF Past
        <5>1. t \notin {"key", "wep", "psk"}
          <6>1. CASE SetChannel(p)
            BY <1>1, <1>4, <5>0, <6>1 DEF SetChannel, Then, After, TypeOK
          <6>2. CASE SetRest(p)
            BY <1>1, <1>4, <5>0, <6>2 DEF SetRest, Then, After, TypeOK
          <6>3. CASE CheckFlag(p) \/ AddVif(p) \/ ClearFlag(p)
            BY <1>1, <1>4, <6>3 DEF CheckFlag, AddVif, ClearFlag, Then, TypeOK
          <6>. QED BY <1>9, <4>3, <6>1, <6>2, <6>3 DEF ScriptStep
        <5>. QED BY <1>4, <3>4, <5>1 DEF KeyPlaced
      <4>. QED BY <4>1, <4>2, <4>3
    <3>. QED BY <3>3, <3>4
  <2>. QED BY <1>6, <1>7, <2>6, <2>7 DEF SlotInv
<1>. QED
  BY <1>8, <1>9

LEMMA NextSlot ==
  ASSUME TypeInv, FieldInv, FileInv, NewestInv, SlotInv, [Next]_vars PROVE SlotInv'
<1>1. CASE Restart
  <2>1. Busy' = {} /\ pc' = "idle" /\ UNCHANGED <<nvram, log, mixed>>
    BY <1>1, WifiAssumption DEF Restart, Busy, store
  <2>. QED BY <2>1 DEF SlotInv, KeyInItsSlot, Aps, Net, Slot, Cipher
<1>2. CASE JobUp \/ JobDown \/ UNCHANGED vars
  <2>1. UNCHANGED <<nvram, log, mixed, pc, ap, script>> /\ Now' = Now
    BY <1>2 DEF JobUp, JobDown, vars, agent, store, history, Now
  <2>. QED
    BY <2>1 DEF SlotInv, KeyInItsSlot, Unwritten, Known, Busy, Aps, Net, KeyPlaced, Slot, Cipher
<1>. QED
  BY <1>1, <1>2, TakeSlot, AgentSlot, ScriptSlot DEF Next, AgentStep

\* Unless scripts overlapped, the key is stored in the slot in which the driver
\* was given it, but for WEP without SHARED.
THEOREM KeyStaysInItsSlot == Spec => []KeyInItsSlot
<1>1. Init => TypeInv /\ FieldInv /\ FileInv /\ NewestInv /\ SlotInv
  <2>1. Init => NewestInv /\ SlotInv
    BY WifiAssumption DEF Init, NewestInv, SsidNewest, Busy, Fields, All, SlotInv, KeyInItsSlot
  <2>. QED BY <2>1, InitType, InitFile
<1>2. TypeInv /\ FieldInv /\ FileInv /\ NewestInv /\ SlotInv /\ [Next]_vars
      => (TypeInv /\ FieldInv /\ FileInv /\ NewestInv /\ SlotInv)'
  BY NextType, NextField, NextFile, NextNewest, NextSlot
<1>3. SlotInv => KeyInItsSlot
  BY DEF SlotInv
<1>. QED
  BY <1>1, <1>2, <1>3, PTL DEF Spec

-----------------------------------------------------------------------------
(* What get_status says.  Once a script that is not mixed with another has *)
(* passed the steps before a field, the memory agrees with the driver's    *)
(* file in it, if the script conveys it at all; a restart makes the file   *)
(* from the memory.                                                        *)
Before(f) ==
  {"ssid"} \cup {s \in {"channel"} : f # "ssid"}
  \cup {s \in {"auth"} : f \in {"mode", "psk", "encrypt"}}
  \cup {s \in {"key", "wep", "psk"} : f \in {"psk", "encrypt"}}
  \cup {s \in {"encrypt"} : f = "encrypt"}

Due(f) == \E p \in Busy : script[p] \in Before(f)

AgreeInv == ~mixed /\ Steady => \A f \in Told(Owner) : ~Due(f) => nvram[f] = dat[f]

LEMMA ToldFields == \A n : Told(n) \subseteq Reported /\ Reported \subseteq Fields
  BY DEF Told, Conveyed, Reported, Fields

\* What is told of a command's file is in it, whole.
LEMMA ToldInFile ==
  ASSUME NEW n \in 1 .. MaxCmd, n <= Now, NEW f \in Told(n)
  PROVE  f \in Conveyed(Net(n)) /\ File(n)[f] = [by |-> n, whole |-> TRUE]
<1>1. n \in 1 .. Now
  BY WifiAssumption DEF Now
<1>2. f \in Conveyed(Net(n))
  BY <1>1 DEF Told
<1>3. f \in Lines(Net(n)) \cap Fields
  BY <1>2 DEF Conveyed, Reported, Complete, Lines, Fields
<1>. QED
  BY <1>2, <1>3, FileNames

LEMMA PutWhole ==
  ASSUME TypeOK, NEW p \in 0 .. MaxCmd, NEW f \in Fields, Put(f, p), ~Cut(p, f)
  PROVE  nvram'[f] = [by |-> p, whole |-> TRUE]
<1>1. nvram'[f] = [by |-> p, whole |-> ~Cut(p, f)]
  BY Puts
<1>2. (~Cut(p, f)) = TRUE
  BY Zenon
<1>. QED
  BY <1>1, <1>2, Zenon

\* Steps that leave file, memory and log alone.
LEMMA ToldSame == UNCHANGED <<dat, log>> => Owner' = Owner /\ Told(Owner)' = Told(Owner)
  BY DEF Owner, Told, Now, Net, Aps

LEMMA TakeAgree ==
  ASSUME TypeInv, FileInv, AgreeInv, NEW c \in Cmds, Take(c) PROVE AgreeInv'
<1>1. /\ Now' = Now + 1 /\ Now \in Nat /\ Owner' = Owner /\ Owner \in Nat
      /\ UNCHANGED <<dat, nvram, mixed, script>>
      /\ \A n \in 1 .. Now : Net(n)' = Net(n)
  BY TakeKeeps, StoredNames, WifiAssumption DEF Take, TypeInv, Owner, Blank, store, history
<1>2. pc = "idle" /\ Owner <= Now /\ Steady
  BY DEF Take, FileInv, Steady
<1>3. Told(Owner)' = Told(Owner)
  BY <1>1, <1>2 DEF Told
<1>. QED
  BY <1>1, <1>2, <1>3 DEF AgreeInv, Due, Busy

LEMMA AgentAgree ==
  ASSUME TypeInv, FileInv, AgreeInv,
         Switch \/ SwitchDone \/ Down \/ Write \/ CopyDefaults \/ AppendSettings
         \/ LaunchUp \/ Launch \/ Raise
  PROVE  AgreeInv'
<1>0. UNCHANGED <<log, nvram>> /\ Now' = Now /\ Now \in 1 .. MaxCmd /\ MaxCmd \in Nat
  BY WifiAssumption DEF TypeInv, TypeOK, PlaceInv, Now, Switch, SwitchDone, Down, Write,
     CopyDefaults, AppendSettings, LaunchUp, Launch, Raise, Goto, store
<1>1. ASSUME UNCHANGED <<dat, mixed>>, Steady, \A p \in 1 .. MaxCmd : script'[p] = script[p]
      PROVE  AgreeInv'
  <2>1. \A f : Due(f)' = Due(f)
    BY <1>1 DEF Due, Busy
  <2>. QED BY <1>0, <1>1, <2>1, ToldSame DEF AgreeInv
<1>2. CASE Switch
  <2>1. \A p \in 1 .. MaxCmd : script'[p] = script[p]
    BY <1>2 DEF Switch, TypeInv, TypeOK
  <2>. QED BY <1>1, <1>2, <2>1 DEF Switch, Steady, history
<1>3. CASE SwitchDone \/ Down \/ Write \/ (Raise /\ pc = "write")
  BY <1>1, <1>3 DEF SwitchDone, Down, Write, Raise, Steady, store, history
<1>4. CASE CopyDefaults \/ AppendSettings \/ LaunchUp
  BY <1>4 DEF CopyDefaults, AppendSettings, LaunchUp, Goto, AgreeInv, Steady
<1>5. CASE Launch
  <2>1. script'[Now] = "ssid"
    BY <1>0, <1>5 DEF Launch, After, TypeInv, TypeOK
  <2>2. \A f : Due(f)'
    BY <1>0, <2>1 DEF Due, Busy, Before
  <2>. QED BY <2>2 DEF AgreeInv
<1>6. CASE Raise /\ pc = "launch"
  <2>1. ap = 1 /\ dat = File(Now) /\ ~Complete(Net(Now)) /\ dat' = dat
    BY <1>6 DEF Raise, Current, FileInv, TypeInv, PlaceInv, InWifi, Written, Net
  <2>2. Owner = Now
    BY <1>0, <2>1, FileNames DEF Owner
  <2>3. Told(Owner) = {}
    BY <1>0, <2>1, <2>2 DEF Told, Conveyed
  <2>. QED BY <1>0, <2>1, <2>3, ToldSame DEF AgreeInv
<1>. QED
  BY <1>2, <1>3, <1>4, <1>5, <1>6 DEF Raise

\* A script's own step: a field that was due and is no more has been stored.
LEMMA StepStores ==
  ASSUME TypeInv, SlotInv, ~mixed, NEW p \in Busy, dat = File(p), p <= Now,
         ScriptStep(p), ~SetSsid(p), NEW f \in Told(p),
         script[p] \in Before(f), script'[p] \notin Before(f)
  PROVE  nvram'[f] = dat[f]
<1>1. /\ p \in 1 .. MaxCmd /\ p \in 0 .. MaxCmd /\ TypeOK /\ script \in [0 .. MaxCmd -> Steps]
      /\ script[p] # "none"
  BY DEF Busy, TypeInv, TypeOK
<1>2. /\ f \in Conveyed(Net(p)) /\ f \in Reported /\ f \in Fields
      /\ dat[f] = [by |-> p, whole |-> TRUE]
  BY <1>1, ToldInFile, ToldFields
<1>3. SUFFICES Put(f, p) /\ ~Cut(p, f)
  BY <1>1, <1>2, PutWhole
<1>4. Complete(Net(p)) /\ \A s : ~Cut(p, s) => Past(p, s) = After[s]
  BY <1>2 DEF Conveyed, Past
<1>5. CASE SetChannel(p)
  <2>1. script[p] = "channel" /\ script'[p] = "auth" /\ ~Cut(p, "channel")
    BY <1>1, <1>4, <1>5 DEF SetChannel, At, Then, Cut, After
  <2>2. f = "channel"
    BY <1>2, <2>1 DEF Before, Reported
  <2>3. ~Keep("channel", p)
    BY <1>2, <2>2 DEF Conveyed, Keep
  <2>. QED BY <1>5, <2>1, <2>2, <2>3 DEF SetChannel, Set
<1>6. CASE SetAuth(p)
  <2>1. script[p] = "auth" /\ script'[p] = "key" /\ ~Cut(p, "mode") /\ ~Cut(p, "auth")
    BY <1>1, <1>4, <1>6 DEF SetAuth, At, Then, Cut, After
  <2>2. f = "mode"
    BY <1>2, <2>1 DEF Before, Reported
  <2>3. ~Keep("mode", p)
    BY <1>2, <2>2 DEF Conveyed, Keep
  <2>. QED BY <1>6, <2>1, <2>2, <2>3 DEF SetAuth, Set
<1>7. CASE ReadMode(p)
  <2>1. script[p] = "key" /\ script'[p] \in {"wep", "psk"}
    BY <1>1, <1>7 DEF ReadMode, At, Then
  <2>. QED BY <1>2, <2>1 DEF Before, Reported
<1>8. CASE SetRest(p)
  <2>1. PICK g \in {"wep", "psk", "encrypt"} : At(p, g) /\ Then(p, Past(p, g)) /\ Set(g, p)
    BY <1>8 DEF SetRest
  <2>2. script[p] = g /\ script'[p] = Past(p, g)
    BY <1>1, <2>1 DEF At, Then
  <2>3. f \in {"psk", "encrypt"} /\ Net(p).key = "word"
    BY <1>2, <2>2 DEF Before, Reported, Conveyed
  <2>4. ~Cut(p, g) /\ script'[p] = After[g]
    BY <1>4, <2>2, <2>3 DEF Cut
  <2>5. f = g
    <3>1. CASE g = "encrypt"
      BY <2>2, <2>3, <3>1 DEF Before
    <3>2. CASE g = "wep"
      <4>1. f = "psk"
        BY <2>2, <2>3, <2>4, <3>2 DEF Before, After
      <4>2. Known(p)
        BY <1>2, <4>1 DEF Conveyed, Known
      <4>3. Net(p).auth = "shared"
        BY <2>2, <3>2, <4>2 DEF SlotInv, KeyPlaced
      <4>4. Slot(Net(p)) = "wep"
        BY <1>4, <4>3 DEF Slot, Cipher, Complete
      <4>. QED BY <1>2, <4>1, <4>4 DEF Conveyed
    <3>3. CASE g = "psk"
      BY <2>2, <2>3, <2>4, <3>3 DEF Before, After
    <3>. QED BY <3>1, <3>2, <3>3
  <2>6. ~Keep(g, p)
    BY <1>2, <2>3, <2>5 DEF Conveyed, Keep
  <2>. QED BY <2>1, <2>4, <2>5, <2>6 DEF Set
<1>9. CASE CheckFlag(p) \/ AddVif(p) \/ ClearFlag(p)
  <2>1. script[p] \in {"check", "add", "clear"}
    BY <1>9 DEF CheckFlag, AddVif, ClearFlag, At
  <2>. QED BY <2>1 DEF Before
<1>. QED
  BY <1>5, <1>6, <1>7, <1>8, <1>9 DEF ScriptStep

LEMMA ScriptAgree ==
  ASSUME TypeInv, FieldInv, FileInv, NewestInv, SlotInv, AgreeInv,
         NEW p \in 0 .. MaxCmd, ScriptStep(p)
  PROVE  AgreeInv'
<1>1. /\ UNCHANGED <<log, dat, pc>> /\ Owner' = Owner /\ Told(Owner)' = Told(Owner)
      /\ Steady' = Steady /\ MaxCmd \in Nat
  BY ScriptKeeps, ToldSame, WifiAssumption DEF Steady
<1>2. /\ script[p] # "none" /\ script \in [0 .. MaxCmd -> Steps] /\ TypeOK
      /\ \E t : script' = [script EXCEPT ![p] = t]
  BY DEF ScriptStep, SetSsid, SetChannel, SetAuth, ReadMode, SetRest, CheckFlag, AddVif,
     ClearFlag, At, Then, TypeInv, TypeOK
<1>3. \A q \in 1 .. MaxCmd : q # p => script'[q] = script[q]
  BY <1>2
<1>4. SUFFICES ASSUME ~mixed', Steady, NEW f \in Told(Owner), ~Due(f)' PROVE nvram'[f] = dat[f]
  BY <1>1, Zenon DEF AgreeInv
<1>5. f \in Reported /\ f \in Fields
  BY ToldFields
<1>6. CASE SetSsid(p)
  <2>1. Owner = p /\ script[p] = "ssid"
    BY <1>4, <1>6, Zenon DEF SetSsid, Owner, At
  <2>2. p \in Busy /\ p \in 1 .. MaxCmd /\ p <= Now
    BY <1>1, <2>1 DEF Busy, TypeInv, ScriptInv
  <2>3. dat = File(p)
    BY <2>1, <2>2 DEF FileInv
  <2>4. f \in Conveyed(Net(p)) /\ dat[f] = [by |-> p, whole |-> TRUE]
    BY <1>4, <2>1, <2>2, <2>3, ToldInFile
  <2>5. ~Cut(p, "ssid")
    BY <2>4 DEF Conveyed, Cut
  <2>6. script'[p] = "channel"
    BY <1>2, <1>6, <2>5 DEF SetSsid, Then, Past, After
  <2>7. f = "ssid"
    BY <1>4, <1>5, <2>2, <2>6 DEF Due, Busy, Before
  <2>8. nvram'.ssid = [by |-> p, whole |-> TRUE]
    BY <1>2, <1>6, <2>5, PutWhole DEF SetSsid, Fields
  <2>. QED BY <2>4, <2>7, <2>8
<1>7. CASE ~SetSsid(p)
  <2>1. ~mixed /\ script[p] # "ssid"
    BY <1>4, <1>7 DEF ScriptStep, SetChannel, SetAuth, ReadMode, SetRest, CheckFlag, AddVif,
       ClearFlag, At
  <2>2. CASE ~Due(f)
    <3>1. nvram[f] = dat[f]
      BY <1>4, <2>1, <2>2 DEF AgreeInv
    <3>2. script[p] \notin Before(f)
      BY <1>2, <2>2 DEF Due, Busy, TypeInv, ScriptInv, Before
    <3>3. script[p] \notin Writing(f)
      BY <1>5, <3>2 DEF Before, Writing, Reported
    <3>. QED BY <1>5, <3>1, <3>3, OthersKeep
  <2>3. CASE Due(f)
    <3>1. PICK q \in Busy : script[q] \in Before(f)
      BY <2>3 DEF Due
    <3>2. q = p
      BY <1>3, <1>4, <3>1 DEF Due, Busy
    <3>3. p \in Busy /\ p \in 1 .. MaxCmd /\ p <= Now /\ p <= Owner
      BY <1>1, <3>1, <3>2 DEF Busy, TypeInv, ScriptInv, NewestInv
    <3>4. Owner \in 1 .. Now
      <4>1. Owner \in Nat /\ Now \in Nat /\ Owner <= Now
        BY <1>2, <1>4, StoredNames, WifiAssumption DEF Owner, Blank, FileInv, Steady, Now, TypeOK
      <4>. QED BY <3>3, <4>1
    <3>5. CompleteFile
      BY <1>4, <3>4 DEF CompleteFile, Told, Conveyed
    <3>6. dat = File(p)
      BY <1>4, <2>1, <3>3, <3>5 DEF FileInv
    <3>7. Owner = p
      BY <3>3, <3>6, FileNames DEF Owner
    <3>8. script'[p] \notin Before(f)
      <4>1. script'[p] # "none" => p \in Busy'
        BY <3>3 DEF Busy
      <4>2. "none" \notin Before(f)
        BY DEF Before
      <4>. QED BY <1>4, <4>1, <4>2 DEF Due
    <3>. QED BY <1>4, <1>7, <2>1, <3>1, <3>2, <3>3, <3>6, <3>7, <3>8, StepStores
  <2>. QED BY <2>2, <2>3
<1>. QED
  BY <1>6, <1>7

LEMMA NextAgree ==
  ASSUME TypeInv, FieldInv, FileInv, NewestInv, SlotInv, AgreeInv, [Next]_vars PROVE AgreeInv'
<1>1. CASE Restart
  <2>1. dat' = nvram /\ nvram' = nvram
    BY <1>1 DEF Restart, store
  <2>. QED BY <2>1 DEF AgreeInv
<1>2. CASE JobUp \/ JobDown \/ UNCHANGED vars
  <2>1. UNCHANGED <<nvram, log, mixed, pc, dat, script>>
    BY <1>2 DEF JobUp, JobDown, vars, agent, store, history
  <2>. QED BY <2>1, ToldSame DEF AgreeInv, Due, Busy, Steady
<1>. QED
  BY <1>1, <1>2, TakeAgree, AgentAgree, ScriptAgree DEF Next, AgentStep

\* At rest, and unless scripts overlapped or an `up` came late, what get_status
\* reports of the network is what the radio runs, in every field that the
\* script could convey.
THEOREM StatusTrue == Spec => []StatusTellsTruth
<1> DEFINE IInv == TypeInv /\ DriverInv /\ FieldInv /\ FileInv /\ NewestInv /\ SlotInv /\ AgreeInv
<1>1. Init => IInv
  <2>1. Init => DriverInv /\ NewestInv /\ SlotInv /\ AgreeInv
    BY WifiAssumption DEF Init, DriverInv, RunsWhatWasWritten, Rewriting, NewestInv, SsidNewest,
       Busy, Fields, All, SlotInv, KeyInItsSlot, AgreeInv
  <2>. QED BY <2>1, InitType, InitFile
<1>2. IInv /\ [Next]_vars => IInv'
  BY NextType, NextDriver, NextField, NextFile, NextNewest, NextSlot, NextAgree
<1>3. IInv => StatusTellsTruth
  <2> SUFFICES ASSUME IInv, AtRest, radio = "up", ~lateUp, ~mixed, NEW f \in Told(run.ssid.by)
               PROVE  nvram[f] = run[f]
    BY DEF StatusTellsTruth
  <2>1. run = dat /\ Steady
    BY DEF DriverInv, RunsWhatWasWritten, AtRest, Steady
  <2>2. ~Due(f)
    BY WifiAssumption DEF AtRest, Due, Busy
  <2>. QED BY <2>1, <2>2 DEF AgreeInv, Owner
<1>. QED
  BY <1>1, <1>2, <1>3, PTL DEF Spec

-----------------------------------------------------------------------------
(* Elink_flag: whoever is about to take it down has added the interface.   *)
AddInv == AddNotLost /\ \A p \in 0 .. MaxCmd : script[p] = "clear" => added > 0

LEMMA NextAdd == ASSUME TypeInv, AddInv, [Next]_vars PROVE AddInv'
<1>0. added \in Nat /\ script \in [0 .. MaxCmd -> Steps]
  BY DEF TypeInv, TypeOK
<1>1. ASSUME NEW p \in 0 .. MaxCmd, ScriptStep(p) PROVE AddInv'
  <2>1. CASE AddVif(p)
    BY <1>0, <2>1 DEF AddVif, AddInv, AddNotLost
  <2>2. CASE ClearFlag(p)
    BY <1>0, <2>2 DEF ClearFlag, At, Then, AddInv, AddNotLost
  <2>3. CASE ~AddVif(p) /\ ~ClearFlag(p)
    <3>1. UNCHANGED <<added, elinkFlag>>
      BY <1>1, <2>3 DEF ScriptStep, SetSsid, SetChannel, SetAuth, ReadMode, SetRest, CheckFlag
    <3>2. \E t : t # "clear" /\ script' = [script EXCEPT ![p] = t]
      BY <1>1, <2>3 DEF ScriptStep, SetSsid, SetChannel, SetAuth, ReadMode, SetRest,
         CheckFlag, Then, Past, After
    <3>. QED BY <1>0, <3>1, <3>2 DEF AddInv, AddNotLost
  <2>. QED BY <2>1, <2>2, <2>3
<1>2. ASSUME UNCHANGED <<added, elinkFlag>>,
             \A q \in 0 .. MaxCmd : script'[q] \in {script[q], "check", "ssid", "none"}
      PROVE  AddInv'
  BY <1>2 DEF AddInv, AddNotLost
<1>3. CASE Switch \/ Launch \/ Restart
  BY <1>0, <1>2, <1>3 DEF Switch, Launch, Restart, After, store
<1>4. CASE \/ \E c \in Cmds : Take(c)
           \/ SwitchDone \/ Down \/ Write \/ CopyDefaults \/ AppendSettings \/ LaunchUp
           \/ Raise \/ JobUp \/ JobDown \/ UNCHANGED vars
  <2>1. UNCHANGED <<added, elinkFlag, script>>
    BY <1>4 DEF Take, SwitchDone, Down, Write, CopyDefaults, AppendSettings, LaunchUp,
       Raise, JobUp, JobDown, vars, store
  <2>. QED BY <1>2, <2>1
<1>. QED
  BY <1>1, <1>3, <1>4 DEF Next, AgentStep

\* Wherever the router restarts, the flag is not down before the interface is
\* there.
THEOREM AddStaysDue == Spec => []AddNotLost
<1>1. Init => TypeInv /\ AddInv
  BY InitType DEF Init, AddInv, AddNotLost
<1>2. TypeInv /\ AddInv /\ [Next]_vars => (TypeInv /\ AddInv)'
  BY NextType, NextAdd
<1>3. AddInv => AddNotLost
  BY DEF AddInv
<1>. QED
  BY <1>1, <1>2, <1>3, PTL DEF Spec
=============================================================================
