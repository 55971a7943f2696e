# The Elink agent: a verification project

TLA+ models of the agent in this repository: `elink.lua`, which keeps an
access point registered with its upstream gateway and carries out the
gateway's commands, and the parts it stands on (`base64.lua`,
`lib/so/luadh1.c`, `lib/so/luaaes.c`, the sockets of luasocket, `set.lua`,
`uttwifiset.sh`, and `get.lua` with `lib/wifista.c` where they report
stations). TLC checks every model on small instances; TLAPS proves the main
safety properties for every value of the constants.

    tlc -config ElinkSession_keys.cfg MCElinkSession     one run
    tlapm ElinkSession_proofs.tla                        one module of proofs

`PROJECT.json` lists the components, the runs with what each is about, the
code lines every definition stands for, the mutants that show a property can
fail, the hazards and the theorems.

## 1. The system

| Component | State it keeps | Operations | Talks to |
|---|---|---|---|
| Session, `elinka` in `elink.lua` | `devinfo` (sequence, DH keys, secret), `sendMsgLog` (deadline, keepalive flag), a socket; all locals of one coroutine | connect, `keyngreq`, `dh`, `dev_reg`, `keepRun` with `ack`, `cfg`, `get_status`, `deassociation`, `getrssiinfo`; keepalive; time-out | gateway (TCP or UNIX socket), setters, getters, dh, aes, base 64 |
| Scheduler, `elink.lua:590-630` | two coroutines | resume in turn, replace a dead one | both sessions |
| Framing, `tcpSendData`, `tcpRecivedData` | the byte stream of the socket | header of eight bytes, body, half-second time-outs | luasocket |
| luasocket, `buffer.c`, `usocket.c`, `timeout.c`, `select.c` | a read buffer, the start of the call; in the kernel, bytes on their way in and out | `send`, `receive(n)`, `select` | kernel |
| Base 64, `base64.lua` | none | `encodeBase64`, `decodeBase64` | session |
| DH binding, `lib/so/luadh1.c` | none | `gkey`, `gsecret` | OpenSSL |
| AES binding, `lib/so/luaaes.c` | the round keys and `Iv`, static, shared by both sessions | `encrypt_cbc`, `decrypt_cbc` | session |
| Setters, `set.lua` | `RT2860.dat`, the interface `ra0`, `/tmp/roam_tmp.json` | `setWiFi`, `setWiFiswitch`, LED, WPS, reboot, roaming, ... | driver, `uttwifiset.sh` |
| `uttwifiset.sh` | the configuration memory (`uttcli2`), `Elink_flag` | `-s -c -a -p -t -e -l` | started in the background by `setWiFi` |
| Getters, `get.lua`, `uttelink.sh`, `lib/wifista.c` | none; the tables they read are the driver's | one reading each | router commands, driver |

A session blocks nowhere: `tcpRecivedData` polls its socket for 50 ms and, when
there is nothing, tests the deadline, sends a keepalive and yields. Handlers
run to their end inside the coroutine, and so does every `os.execute` that does
not end in `&`. Those that do leave processes behind which run beside the agent
and beside each other. A Lua error anywhere in a session ends its coroutine;
its locals go, its socket waits for the collector, and the scheduler makes a
new one. Everything the router must remember is in the configuration memory
and in the `.dat` file.

What is hard here: connections break or go silent at any point of the
negotiation, while `devinfo` outlives them; errors come half-way through a
handler; one deadline serves frames of three kinds; the two coroutines share
descriptors and a collector; background jobs of consecutive commands overlap;
numbers travel in buffers of fixed length; the byte stream pauses, trickles
and ends anywhere, and part of it sits in a buffer the kernel knows nothing of;
stations move while they are listed. `PROJECT.json`, "hazards", has each at its line.

What makes each part correct: a session encrypts what it must under the secret
the gateway has, and answers commands once, in order, and truthfully; a living
gateway is kept and a dead one left; no socket is stolen or lost; frames come
out whole and go out in place, and no call outlasts its half second; what one
side seals the other opens; conversions lose nothing; a station is told of once;
the driver runs what was configured, and what `get_status` reports of a network
is what the radio runs, in the fields that reach the configuration memory.

## 2. The modules

| Module | Models | Checked by | Proofs |
|---|---|---|---|
| `ElinkSession` | one coroutine of `elinka` and its gateway | `ElinkSession_{keys,commands}` | `ElinkSession_proofs` |
| `CommandService` | the promise about commands, abstract | `CommandService` | `CommandService_proofs` |
| `ElinkSessionRefines` | the mapping from the first to the second | `ElinkSession_refines` | `ElinkSession_proofs` |
| `ElinkTimer` | the timers of `keepRun` and `tcpRecivedData` | `ElinkTimer_{keepalives,reports}` | `ElinkTimer_proofs` |
| `ElinkMain` | both coroutines, scheduler, descriptors, bridge flag | `ElinkMain` | `ElinkMain_proofs` |
| `Framing` | `tcpRecivedData` on the bytes of the stream, abstract | `LuaSocket` (as a property) | `LuaSocket_proofs` |
| `LuaSocket` (extends `Framing`) | luasocket's buffer, select and time-outs, `tcpSendData` | `LuaSocket` | `LuaSocket_proofs` |
| `Base64` | `base64.lua` | `Wire` | `Wire_proofs` |
| `DhKeys` (extends `Base64`) | `luadh1.c` and the `dh` frames | `Wire` | `Wire_proofs` |
| `AesCbc` | the chaining, the padding and the statics of `luaaes.c` | `AesCbc` | `Wire_proofs` |
| `Aes` | the cipher of `luaaes.c` | `AesCbc` (as the cipher, with FIPS-197's vectors) | |
| `Stations` | `wifista.c`, `dev_status` and the table of stations in `get.lua` | `Stations` | `Stations_proofs` |
| `WifiConfig` | `setWiFi`, `setWiFiswitch`, `uttwifiset.sh`, driver | `WifiConfig` | `WifiConfig_proofs` |

`MC*` modules only give constants (for `Base64` the enumeration, for `Aes` the
test vectors, for `Stations` the symmetry of the stations: nothing in the code
or the properties tells one from another).

**ElinkSession.** A connection is a pair of append-only logs, one each way,
with what each side has read. The agent's program counter follows the code:
`build` (in the main loop, before `buildDevinfo`), `reg`, `run`, `apply` and
`answer` (in `keepRun`, before and after the handler), `close`, `dead`. The
locals are those of `elinka`; `devinfo` survives a lost connection and goes
with the coroutine. A frame has its type, the secret it is sealed with, its
sequence and the key it publishes; a secret is the pair of private keys it
comes from. `exact` says that no number of the exchange lost a leading zero
byte: when that is so is what `DhKeys` works out (`SecretsAgree`). A frame cut
by a close or a pause (`cut`) is what `Framing` calls `BodyFails`. Time is left
out: a deadline may pass whenever nothing can be read (`ElinkTimer` has the
rest). The gateway is not in the repository; its actions are what `elink.lua`
expects of it plus the faults, among them a second `keyngack`, a `dh` nobody
asked for, garbage, and commands without argument or sequence. Handlers apply
or raise; after a raise it is open whether part of a `cfg` was carried out.
`keepRun` reports its stations before it looks at the type of a frame, and that
may raise: `ReportError` is such an end on a frame that is no command. For a
command it is `ApplyError`, since the two differ only in whether the report has
gone out, which no property looks at.

**CommandService** says what the gateway may rely on: one command in hand, in
order of arrival, carried out once or not at all, answered only when gone
through with, never in hand for ever. `ElinkSessionRefines` maps the number of
commands read, the command between `apply` and `answer`, the log of applied
commands and the answers of each connection onto it, and `ServesCommands`
states the implementation, fairness included.

**ElinkTimer** keeps `sendMsgLog.timeout`, the age of `.time` and `.headtime` in
whole seconds, the frames the agent can read, and the ages of those the gateway
owes an acknowledgement. `Tick` lets a second pass for all of them; it waits
until the agent has looked for input (`polled`), which the code does every
60 ms.

**ElinkMain** has the two coroutines with their sockets as numbered
descriptors, which are reused at once as a kernel does; what happens inside a
connection is reduced to reading a frame, raising, yielding and ending. A TCP
socket has no descriptor before it connects (`tcp.c` makes it with
`SOCKET_INVALID`, `inet_tryconnect` opens it); a UNIX socket has one from the
start. Everything that reads the router (`io.popen`) needs a descriptor to spare
and raises when there is none (`Full`); the pipe of `getGW` is closed again just
before `connect`, so that one is left for the socket.
`UnixWorks = FALSE` is what the vendored luasocket does: `require("socket.unix")`
returns a table, so that `tcp_init()` raises in the UNIX coroutine at every turn.

**Framing** counts bytes: how many arrived, how many were read, what was
returned, as places in the stream. It is what `elink.lua` may rely on. A
`receive` that outlasts half a second is a pause (`Stall`), and what it had is
dropped, as `elink.lua` ignores the partial result. When the header was torn
the agent reads the rest of the stream with the wrong boundaries; the length it
finds there is any number. `receive(0)` waits for a byte too (`buffer.c` fills
the buffer before it looks at the count), so that an empty frame is returned
when the next one begins, and given up if it is the last.

**LuaSocket** adds what is below. What arrived is in the kernel, in the read
buffer (`Held` bytes, the first at `Place` in the stream) or taken. A call goes
round `recvraw` or `sendraw`; each wait may last what is left of the half
second counted from the start of the call (`timeout_getretry`), in ticks of a
clock that runs only while the call waits, since the rest of a call takes no
time worth counting. The gateway reads or does not; the kernel takes `SndBuf`
bytes before it has. `SocketSpec` uses the variables of `Framing` under their
own names, so the refinement mapping is the identity and `ReceivesAsFraming`
is `Framing`'s `Spec`. Errors such as ECONNRESET behave as the close the next
`receive` finds.

**Base64** and **DhKeys** are the conversions as functions on sequences of
bytes, over any alphabet of the geometry of base 64: a byte is four and a letter
three of the same digits (of two bits in the code, of one in the run), so that
four letters hold three bytes. `DhKeys` has the left-aligned
buffers, OpenSSL's way to draw a private key and to refuse a public one, the
uninitialised tail of a short secret, and the base 64 on both ways.

**AesCbc** keeps what the C statics hold between calls: the round keys and `Iv`
of whichever session called last. A call runs to its end, since Lua has one
thread; what another session left behind is what a call finds. The cipher is a
parameter: the run takes **Aes**, the proofs any cipher that inverts. `Aes` is
`SubBytes`, `ShiftRows`, `MixColumns`, the key expansion and their inverses on
sequences of bytes, with the S-box as the code's table. `Multiply` stops at the
four bits of its second operand that the constants of `MixColumns` have. A
message is padded with zeros to whole blocks by the binding; its length is then
a multiple of 16, so that the branch for a remainder in `AES128_CBC_*` never
runs.

**Stations** has the driver's two tables of stations, in any order, with a
station in at most one table and in one place. `wifista.c` reads one table, then
the other; between the two ioctls stations come, go and move, and an ioctl may
fail. `staInfo` keeps the stations it was asked about at the places they were
listed at; those it drops leave holes in the table, which cjson fills with null
or refuses as excessively sparse. `getRssiInfo` adds keys to a table while it traverses it,
which is undefined in Lua; in Lua 5.3, which the agent needs (`string.pack`),
the array part is traversed first and the keys are there already, so it does no
harm here.
`getAllChildDev` returns nothing, so that `dev` of a report is always empty: that
is the case of no station asked for.

**WifiConfig** names a value by the number of the command it came with (`by`),
so that "which network is this field of" can be asked of the `.dat` file, of the
running driver and of each field of the configuration memory, and by whether it
is all of what was sent (`whole`). The file gets texts as they are. The script
gets them through a command line on which nothing is quoted (`set.lua:51`): an
ssid or key of several words reaches the memory as its first word, an empty one
as the next option, and in both cases `getopts` stops there, so that the options
behind it are not seen (`Cut`, `Past`). A channel, mode or cipher the script does
not know leaves the old value in place (`Keep`); which slot a key goes to depends
on the mode the memory has by then (`Shared`). `setWiFi` is one action per command
it gives the router (down, write, copy the defaults, append, up, start the
script), since each takes time and the background jobs of earlier commands run
between any two. Each script writes one field per step. A restart ends all
processes and sets the driver up from the configuration memory. Of the eight
`cfg` settings the two that touch the radio are modelled, for one 2.4G entry of a
command and for access points that have an ssid (`setWiFi` skips the others);
other characters a shell gives a meaning to are left out.

## 3. The runs

Sizes are distinct states; every run ends within two minutes on two workers.

| Run | Question and answer | Bounds and why they are enough |
|---|---|---|
| `session_keys` 151,412 | Is anything sent in the clear after registration or sealed before it; do the secrets agree; is a private key ever used on two connections; does the agent reconnect without cause? No stray frame, secret or connection, except with a gateway that asks for two keys or sends an unasked `dh`, as the properties say. | Two faults give three connections: one to leave a key behind, one to break in the middle, one to use it. One keepalive and one acknowledgement, since more repeat the same steps. |
| `session_commands` 638,140 | Are commands applied and answered once, in order, truthfully? Yes; `AckedIsApplied` needs that the commands of the connection have a sequence, since `ACK` falls back to the agent's own. | Two commands of each of six kinds in every order, one fault, two connections: order and confusion between answers need two. |
| `service` 4,951 | The abstract promise alone. | Two connections, three commands each. |
| `session_refines` 87,671 | Does the session keep the promise, is the agent registered again after any fault, and does every command settle? Yes, all three. | Two commands of three kinds, changing, answered and silent, and one fault anywhere. |
| `timer_keepalives` 1,213 | A gateway that acknowledges keepalives only: kept, as long as handlers take at most four seconds; left, when it dies. | The code's own 5, 4 and 3 seconds; two commands waiting. |
| `timer_reports` 19,619 | A gateway that acknowledges every report, handlers of any length (22 s, longer than the long deadline): silence is bounded; the reports and acknowledgements in circulation never become fewer. That this gateway is kept as well is `LivingGatewayKept`, proved. | As above, acknowledgements up to four seconds late; beyond four frames in circulation time is not followed. |
| `main` 30,677 | Does a close or a collection ever take the socket of a live coroutine; is one ever lost; is the bridge script started twice; are both coroutines resumed for ever, and is the gateway served in the end although UNIX dies at every turn? No, no, no, yes, yes. | Three descriptors for two coroutines: one can leak, then they run out. Four faults. |
| `socket` 344,638 | Are frames whole and in order; is anything lost before a close; is what can be read always read; do frames go out in place; does any call outlast half a second; can agent and gateway block each other for ever; does luasocket do what `Framing` says? Yes, as long as no pause falls into a header and no send was given up. | Up to two frames behind headers of two bytes, bodies of none or one; a buffer of three bytes, so that a frame does not end where the buffer does; two sends of three bytes in steps of two through a kernel that takes two; half a second of two ticks. Each boundary meets each other one. |
| `wire` 80,290 | Is it base 64, and what survives? All strings but those of whole groups that end in a zero, which lose it. When do both sides end up with the same secret? When the agent's public key and the secret have no leading zero byte, and the gateway's public key has none or is sent with it; the private key always survives. | Every string of up to four bytes: one whole group and the start of a second. Every private key of the agent and every third of the gateway, over a prime whose length is that of the buffer. |
| `aes` 1,525 | Does a call find anything of another session in the statics; is what comes out CBC; does it open to what was sealed? No, yes, yes. Before it starts TLC checks the cipher against the vectors of the comment at `luaaes.c:1-24`. | Two secrets; messages that leave one byte of a block, fill it, and take three; two frames, calls in any order. |
| `stations` 32,268 | Is a station that stays reported once, with its radio, if and only if it was asked about; can a gateway lose the session by asking? Yes; only by asking about fewer than one in `Ratio` of the stations there are, when these, with those that move counted twice, are more than `Safe`. | Three stations on two radios, moving between any two steps. `Ratio` and `Safe` are 2 and 3 for the 2 and 10 of cjson: a station that goes from the first radio to the second is listed twice, so that more than three entries, too sparse, do occur. |
| `wifi` 1,343,316 | Two commands of thirteen kinds, complete or not, of one word and of several, switch and network, with scripts that overlap and a restart anywhere: what the driver runs, why a radio stays off, where a key is stored, which fields are newer than the ssid, whether the status is true. | Each way to fail once, each combination of two; one restart. The theorems cover three and more scripts at once. |

`CHECK_DEADLOCK FALSE` stands in the runs that come to an end: a fixed number
of commands (`WifiConfig`, `CommandService`), one exchange and strings of a
length (`Wire`), one connection (`LuaSocket`), two frames (`AesCbc`). The agent
itself (`ElinkSession`, `ElinkTimer`, `ElinkMain`) and `Stations` are checked
for deadlock.

**Properties with exceptions.** Several properties name the circumstances in
which the code does not keep them; these are facts about the code that a reader
should know. `KeysAgree`: a second `keyngack` makes a new key. `FreshSecrets`:
an unasked `dh` uses a stale one. `FramesWhole`: a pause inside a header loses
the boundary for the rest of the connection, since the magic number is never
looked at. `NothingLeftBehind`: an empty frame at the end of the stream.
`SentInPlace`: a send given up after half a second (`starved`) leaves part of a
frame on the wire, because the result of `tcp:send` is ignored; what follows is
then read with the wrong boundaries. `AskedOnce`: a station that moved while the
radios were read, or whose radio's ioctl failed (`unsure`), may be missing, out
of date or there twice. `RefusedWhenFewAsked` says when the error of cjson
may end the session. `RunsWhatWasWritten`: an `ifconfig ra0 up &` still under way when
the next command takes the interface down (`lateUp`). `OutageExplained`: a
handler that raises after `ifconfig ra0 down`, or a late `ifconfig ra0 down &`.
`SsidNewest`, `KeyInItsSlot`, `StatusTellsTruth`: overlapping scripts (`mixed`).
`KeyInItsSlot`: WEP without the mode SHARED, whose key the script takes for one
of WPA. `StatusTellsTruth`: a late `up`, and the fields that are not `Conveyed`:
all of them when auth, key or encrypt is missing, since the script is never
started, or when the ssid is not one word; key and cipher when the key is not
one word; a channel, mode or cipher the script does not know; and every WEP key,
since `uttelink.sh` reads `SafepskPsswd` whatever the mode. `GatewayAssumption` of `ElinkTimer` is what a gateway has to keep to;
for one that acknowledges keepalives only it limits the handlers to four
seconds, because a report lowers the deadline before the handler runs.

**Fairness.** The loop at the end of `elink.lua` resumes each coroutine that
is not dead and replaces each that is, so a step a coroutine can take is taken:
weak fairness of the agent's steps (`DeviceStep`, `ProcessStep`, and `Poll`,
the handlers and the clock in `ElinkTimer`; in `LuaSocket` `Process`, which has
the waits and their clock, so that `CallsReturn` and `KeepsReceiving` ask
nothing of the gateway). `Collect` is fair because
every session that ends calls `collectgarbage`, and Lua's collector runs by
itself as a coroutine allocates. The gateway is assumed fair only in reading
and answering what was sent (`GwRecv`) and in seeing a close (`GwSeesClose`);
never in sending commands, and faults are never fair. In `ElinkMain` a peer
pauses now and then, because it sends a bounded number of frames: without that
`BothServed` does not hold, since `tcpRecivedData` yields only when its socket
is empty.

## 4. What is proved

The theorems are in the `*_proofs` modules, each for all constants that satisfy
the assumptions stated beside them; no bound of a run plays a part.

- **`ElinkSession_proofs`**. `TypeCorrect`: the types need `InUse` (a coroutine
  that has a connection is on the latest, which exists). `KeyAgreement`: the
  secret agrees, from `KeyInv`, ten conjuncts about one connection: nothing is
  there before it is opened; what is read was sent; nobody is registered before
  `dev_reg`; a key was asked for by a keyngack read on this connection; there is
  at most one `dh` if there is at most one keyngack; the private key in hand is
  the one of that `dh`; the gateway's `dh` and key name each other; `dev_reg`
  used what was in hand. `KeysAgree` alone is not inductive, since it does not
  say where `privkey` came from, and it survives lost connections. `SealedOnly`
  adds `SealInv`: nobody keeps a connection alive before it is registered, and
  the secret in hand is the one the registration used. `SecretsStayFresh` rests
  on `FreshInv`: a connection publishes its own keys, each once and each newer
  than those before, and one that has asked has such a key in hand; without the
  last part a key of a lost connection could be used. `AcknowledgedWasApplied`
  rests on `AckInv`: the gateway numbers commands in order (`Numbered`), so that
  a number names one command, and a command about to be answered has been
  applied if it is one that can be. `AnsweredInOrder` rests on `AnswerInv`: a
  connection owes its gateway one answer more than it has sent while a handler is
  at work on a command that deserves one, and none otherwise (`Balance`), and the
  i-th answer fits the i-th such command (`Paired`); places are compared by their
  rank, that is by cardinalities. `EveryConnectionExplained` rests on
  `FaultsFirst`: of the connections so far each but the latest has had its own
  fault, and the latest, if it has had none, is at one of five stages of the
  protocol, none of which the agent ends (`Undisturbed`). `ImplementsService`
  is the refinement without its fairness: every action is a step of
  `CommandService` or a stutter. It needs, beside `KeyInv` and `SealInv`, that
  commands come sealed with the key the gateway registered the agent under
  (`Confirmed`, `CommandsKeyed`), since a command that does not decode is not
  taken. What is proved of `CommandService` then holds of the session
  (`CarriedOutInOrder`, `AnswersAreEarned`): no command is carried out twice or
  after a later one.
- **`ElinkTimer_proofs`**. `SilenceNoticed` rests on `SilenceInv`: silence is
  the age of the time stamp, and an agent that has polled in this second is
  within its deadline. `LivingGatewayKept` rests on `TimelyInv`, whose heart is
  `WordComes`: as long as the gateway lives, an acknowledgement is in the inbox,
  owed early enough, or the keepalive that will bring it is due early enough.
  `ReportsBegetReports` is about single steps: what one takes out of the inbox
  another queue gets, counted as cardinalities of sets of places.
- **`CommandService_proofs`**. `OnceInOrder` and `NoUnearnedAnswer`, from
  `ServiceInv`: the command in hand is the newest of the newest connection,
  and all that was carried out had been taken.
- **`ElinkMain_proofs`**. `BridgedOnce`, from `BridgeInv` (a flag of zero means
  never started; a coroutine about to start it has set the flag).
  `SocketsStaySound`: `SocketsSound` is inductive given the types, shown from
  the point of view of one coroutine (`SoundFor`), by what each step does to the
  descriptors held (`TakeFdHeld`, `NewSocketHeld`).
- **`WifiConfig_proofs`**. `TypeCorrect` needs to know where in a command the
  agent is and that scripts are started for complete networks only.
  `DriverFollows` from `DriverInv` (while the file is rewritten the radio is down
  and no `up` is under way, or `lateUp`); `OutagesHaveCauses` from `OutageInv`;
  `SsidStaysNewest` from `NewestInv`, which speaks of the scripts that are still
  writing (`Busy`). `StatusTrue` from `AgreeInv`: a field that no script is still
  to come to (`Due`) is in the memory what it is in the file, if it can be
  conveyed at all; that a script works for the network the file holds is
  `FileInv`, and where its key goes `SlotInv`. `KeyStaysInItsSlot` from `SlotInv`: nobody has used the number of a command
  before its own script does, and the mode a script decides by is the one it has
  set, as long as no other has set the ssid since. `AddStaysDue` from `AddInv`: a
  script about to take the flag down has added the interface.

- **`LuaSocket_proofs`**. Of `Framing`: `FramesComeWhole` and `NoneLeftBehind`,
  from `StreamInv` (what was returned ends at frame boundaries in order, and the
  read position is at the next one unless the stream was `torn`). Of
  `LuaSocket`: `SocketInv` places the bytes in hand in the stream (what was
  consumed and collected ends where the buffer begins), and with it every step
  is a step of `Framing` or a stutter, which is `SocketReceivesAsFraming`; the
  invariants of `Framing` then hold of `LuaSocket` (`SocketFramesWhole`,
  `SocketNothingLeftBehind`). `SocketSentInPlace` from `OutInv` (every finished
  send was complete unless one was given up); `SocketHalfSecond` from the part of
  `SocketInv` that bounds the time spent and the time a select may still last.
- **`Wire_proofs`**, of `Base64` and `DhKeys`. These are theorems about what
  functions over data compute, for strings of every length, so that they rest on
  induction and on the existence of recursive functions. The theorems of the
  library that give them take an operator as a parameter and cannot be used
  here; `NatSets` is induction over a set of numbers, shown from the pigeonhole
  principle, and `RecursionRuns` makes a function step by step out of it. On
  them stand the spans of bytes and letters, `ModExp` as a power
  (repeated squaring is repeated multiplication modulo `P`, and the order of two
  exponents does not matter), and the flattening of groups of one length.
  `StringsComeBack`: each group of one, two or three bytes is decoded to itself,
  the shorter ones with the zero too many that is dropped in the end.
  `LettersAreDigits`: the number of the whole string and the numbers of its
  groups have the same digits in the same places. Both hold of every string `s`
  of bytes, which is the only invariant of `MCBase64` they need.
  `PrivateKeySurvives` and `SecretsMatch` rest on `DhInv`: at every stage
  (`Asked`, `Answered`, `Derived`) what the agent and the gateway hold and have
  sent is what their steps make of private keys they may draw, which `SecretsAgree`
  alone does not say. `P` need not be a prime: that both sides reach the same
  secret does not depend on it.
- **`Wire_proofs`**, of `AesCbc`. `ChainInv`: the statics belong to the call under
  way, and the blocks made so far are the chain. `EveryFrameChained` holds for
  any cipher. `EveryFrameOpens` has the hypothesis `CipherInverts`, that
  deciphering under the round keys undoes enciphering; it is stated in the theorem
  and assumed nowhere else, and the run, with `Aes` as the cipher, does without it.
- **`Stations_proofs`**. `ListInv`: a station that has not moved is in what was
  listed of its radio once, and nowhere else. `ToldOnce` follows. For
  `LostOverFewAsked`, `RowsInv` adds that no station is listed twice for one
  radio: the list is then no longer than the settled stations and twice the
  others (`RowsBounded`), and the answer no smaller than the settled ones asked
  about (`AnswerLarge`), for any number of stations and any limits of cjson.

Each of these modules proves the types of its component first, as part of the
invariant; where `TypeOK` is a theorem TLC does not check it again.

Only model-checked: liveness (`Recovers`, `CommandsSettle`, `DeadGatewayLeft`,
`BothServed`, `GatewayServed`, `CallsReturn`, `KeepsReceiving`) and the
fairness of `CommandService`, which `ServesCommands` includes, since fairness and
ENABLED are out of the prover's reach; and the cipher of `Aes`, on the vectors of
its comment and on the blocks of the run. Every safety property of a run is a
theorem.

## 5. What is not modelled

The getters other than the station lists, and `uttelink.sh`, which keep no state
(that one may raise is modelled); among them `getRoaming`, which is never
reached: `checkRoaming` tests `roaming_json or ...`, and a table is always true.
`wifiinfo` and the neighbour scan of `lib/wifista.c`. The 5G branch and
`uttwifiset5g.sh`, the same steps on another interface, not taken with the
shipped configuration. The setters that print or run one command. The lengths
of the buffers in `luaaes.c` and the memory `luadh1.c` does not give back:
messages are taken to fit. The older agents (`elink_bak.lua`,
`elink_double.lua`) and the test agent. UDP, name resolution, SSL and the other
parts of the vendored libraries, OpenSSL, lua-cjson, luasocket and LuaCrypto,
which are most of the repository's lines: the agent calls a handful of their
functions, and those are modelled where they bear on a property.

Between the modules: `ElinkSession` sends whole frames, the sends that are cut
are `LuaSocket`'s; `ElinkSession` seals and opens in one step, the calls that do
it are `AesCbc`'s; that numbers survive (`exact`) is `DhKeys`'.

## 6. The plan

Done, in this order: session, timers, the abstract service and its refinement,
scheduler, radio configuration, base 64, keys, framing; then the socket below
the framing with both directions and its refinement, the AES binding, and the
station reports. What could come next:

1. That `AesInvCipher` undoes `AesCipher`, as a theorem: the hypothesis
   `CipherInverts` of `EveryFrameOpens`, for the cipher of the code.
2. The radio's other setters where they meet (`reboot` after `setWiFi`), and the
   5G branch as a second instance of `WifiConfig`.
