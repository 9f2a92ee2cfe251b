----------------------------- MODULE RadioLoop ------------------------------
(***************************************************************************)
(* The radio loop of radio.rs on its simulated channel, and the commands   *)
(* of model.rs that steer it.                                              *)
(*                                                                         *)
(* User interfaces put commands on an unbounded channel at any moment; one *)
(* task drains it and then runs a tick: rebuild what a command invalidated,*)
(* read the parameters, transmit a beacon, the typed texts and the test    *)
(* text when due, let the PHY run, and handle the frames it decoded. The   *)
(* view model is written by the drain and by the tick, so a command sent   *)
(* in mid-tick waits for the next drain.                                   *)
(*                                                                         *)
(* Time is counted in ticks. next_tx_at and next_beacon_at are kept as the *)
(* ticks that remain until produced reaches them, 0 when due: the code     *)
(* compares them with produced only, so nothing is lost.                   *)
(***************************************************************************)
EXTENDS Integers, Sequences

CONSTANTS
  Ops,              \* the kinds of command the users send
  Name,             \* node names a user may choose
  Interval,         \* auto-TX intervals a user may choose, in ticks
  Sf,               \* spreading factors a user may choose
  DefaultName, DefaultInterval, DefaultSf,
  START_TX,         \* ticks to the first auto TX after a (re)start: SR_HZ
  START_BEACON,     \* ticks to the first beacon after a (re)start: SR_HZ / 2
  BEACON_INTERVAL,  \* ticks between beacons: 5 * SR_HZ
  Foreign,          \* outcomes of frames heard from other stations
  MaxCommands,      \* bound: commands sent in a behaviour
  MaxBacklog,       \* bound: frames the PHY may leave unfinished after a tick
  MaxForeign        \* bound: frames of others that arrive in a behaviour

(* The operations of Command that reach this model. *)
Operation == {"SetMode", "SetName", "SetIntervalMs", "SetSf", "SetAutoTx",
              "SetRunning", "SetUhdEnabled", "SetTxDest", "SendText"}

ASSUME OpsAssumption == Ops \subseteq Operation
ASSUME DefaultAssumption ==
  DefaultName \in Name /\ DefaultInterval \in Interval /\ DefaultSf \in Sf
ASSUME TickAssumption ==
  /\ Interval \subseteq Nat
  /\ START_TX \in Nat /\ START_BEACON \in Nat /\ BEACON_INTERVAL \in Nat
ASSUME ForeignAssumption == Foreign \subseteq {"relay", "keep", "bad"}
ASSUME RadioBoundAssumption ==
  MaxCommands \in Nat /\ MaxBacklog \in Nat /\ MaxForeign \in Nat

VARIABLES
  cmds,          \* the command channel: <<operation, argument>> pairs
  vm,            \* the ViewModel fields the loop reads
  pc,            \* where the loop is in its tick
  node,          \* the name the current MeshNode was built with
  curSf,         \* the spreading factor both modems were built for
  prevInterval,  \* prev_interval_ms
  txIn,          \* ticks until next_tx_at
  beaconIn,      \* ticks until next_beacon_at
  txAllowed,     \* tx_allowed, read once a tick
  dest,          \* tx_dest, read once a tick
  driver,        \* frames pushed to the PHY and not yet through
  rx,            \* frames the streaming decoder finds in this tick's samples
  count,         \* bounds: [sent |-> commands sent, foreign |-> frames heard]
  uiDest,        \* the destination the user selected last
  texts,         \* history: texts[k] = what text k is, and where it is meant to go
  aired,         \* history: the texts pushed to the driver, in order
  dropped        \* history: the texts given up

loopVars == <<vm, pc, node, curSf, prevInterval, txIn, beaconIn, txAllowed, dest,
              driver, rx, aired, dropped>>
userVars == <<uiDest, texts>>
vars == <<cmds, loopVars, count, userVars>>

Mode == {"Terminal", "Listen"}

(* A destination is named by the number of the command that selected it.   *)
Destination == 0 .. MaxCommands

(* A text is named by its number; Data::encode may exceed MAX_PAYLOAD. *)
Text == 1 .. MaxCommands

Argument(op) ==
  CASE op = "SetMode" -> Mode
    [] op = "SetName" -> Name
    [] op = "SetIntervalMs" -> Interval
    [] op = "SetSf" -> Sf
    [] op \in {"SetAutoTx", "SetRunning"} -> BOOLEAN
    [] op = "SetUhdEnabled" -> {FALSE}
    [] op = "SetTxDest" -> Destination \ {0}
    [] op = "SendText" -> Text

Command == UNION {{op} \X Argument(op) : op \in Ops}

ViewModel ==
  [running : BOOLEAN, mode : Mode, name : Name, txDest : Destination,
   autoTx : BOOLEAN, sf : Sf, interval : Interval,
   rebuildNodes : BOOLEAN, rebuildDriver : BOOLEAN, txQueue : Seq(Text)]

Pushed == [kind : {"beacon", "text", "auto", "relay"}, sf : Sf, name : Name]

Stage == {"drain", "rebuild", "params", "beacon", "manual", "auto", "phy", "decode"}

TypeOK ==
  /\ cmds \in Seq(Command)
  /\ vm \in ViewModel
  /\ pc \in Stage
  /\ node \in Name /\ curSf \in Sf /\ prevInterval \in Interval
  /\ txIn \in Nat /\ beaconIn \in Nat
  /\ txAllowed \in BOOLEAN /\ dest \in Destination
  /\ driver \in Seq(Pushed)
  /\ rx \in Seq({"echo"} \cup Foreign)
  /\ count \in [sent : 0 .. MaxCommands, foreign : 0 .. MaxForeign]
  /\ uiDest \in Destination
  /\ texts \in Seq([dest : Destination, fits : BOOLEAN])
  /\ aired \in Seq([text : Text, dest : Destination])
  /\ dropped \in SUBSET Text

Init ==
  /\ cmds = <<>>
  /\ vm = [running |-> TRUE, mode |-> "Listen", name |-> DefaultName, txDest |-> 0,
           autoTx |-> TRUE, sf |-> DefaultSf, interval |-> DefaultInterval,
           rebuildNodes |-> FALSE, rebuildDriver |-> FALSE, txQueue |-> <<>>]
  /\ pc = "drain"
  /\ node = DefaultName /\ curSf = DefaultSf /\ prevInterval = DefaultInterval
  /\ txIn = START_TX /\ beaconIn = START_BEACON
  /\ txAllowed = FALSE /\ dest = 0
  /\ driver = <<>> /\ rx = <<>>
  /\ count = [sent |-> 0, foreign |-> 0]
  /\ uiDest = 0 /\ texts = <<>> /\ aired = <<>> /\ dropped = {}

-----------------------------------------------------------------------------
(* The users. *)

Send(op, arg) ==
  /\ count.sent < MaxCommands
  /\ count' = [count EXCEPT !.sent = @ + 1]
  /\ cmds' = Append(cmds, <<op, arg>>)
  /\ UNCHANGED loopVars

SendSetting ==
  /\ \E op \in Ops \ {"SetTxDest", "SendText"} : \E arg \in Argument(op) : Send(op, arg)
  /\ UNCHANGED userVars

SendSetTxDest ==
  /\ "SetTxDest" \in Ops
  /\ Send("SetTxDest", count.sent + 1)
  /\ uiDest' = count.sent + 1
  /\ UNCHANGED texts

SendText ==
  /\ "SendText" \in Ops
  /\ Send("SendText", Len(texts) + 1)
  /\ \E fits \in BOOLEAN : texts' = Append(texts, [dest |-> uiDest, fits |-> fits])
  /\ UNCHANGED uiDest

-----------------------------------------------------------------------------
(* The drain: Command::apply on each command that is waiting. *)

(* Mutants: a new text goes to the front; a rename does not ask for a rebuild. *)
QueuedInFront(queue, text) == <<text>> \o queue
RenamedQuietly(v, name) == [v EXCEPT !.name = name]

Queued(queue, text) == Append(queue, text)
Renamed(v, name) == [v EXCEPT !.name = name, !.rebuildNodes = TRUE]

Applied(v, op, arg) ==
  CASE op = "SetMode" -> [v EXCEPT !.mode = arg, !.rebuildNodes = TRUE]
    [] op = "SetName" -> Renamed(v, arg)
    [] op = "SetIntervalMs" -> [v EXCEPT !.interval = arg]
    [] op = "SetSf" -> [v EXCEPT !.sf = arg]
    [] op = "SetAutoTx" -> [v EXCEPT !.autoTx = arg]
    [] op = "SetRunning" -> [v EXCEPT !.running = arg]
    [] op = "SetUhdEnabled" -> [v EXCEPT !.rebuildDriver = TRUE]
    [] op = "SetTxDest" -> [v EXCEPT !.txDest = arg]
    [] op = "SendText" -> [v EXCEPT !.txQueue = Queued(@, arg)]

(* Mutant: the pause is looked at before the channel. *)
ApplyCommandWhenRunning ==
  /\ pc = "drain" /\ cmds # <<>> /\ vm.running
  /\ vm' = Applied(vm, Head(cmds)[1], Head(cmds)[2])
  /\ cmds' = Tail(cmds)
  /\ UNCHANGED <<pc, node, curSf, prevInterval, txIn, beaconIn, txAllowed, dest,
                 driver, rx, aired, dropped, count, userVars>>

ApplyCommand ==
  /\ pc = "drain" /\ cmds # <<>>
  /\ vm' = Applied(vm, Head(cmds)[1], Head(cmds)[2])
  /\ cmds' = Tail(cmds)
  /\ UNCHANGED <<pc, node, curSf, prevInterval, txIn, beaconIn, txAllowed, dest,
                 driver, rx, aired, dropped, count, userVars>>

(* Paused, the loop sleeps and drains again: no step of this model. *)
StartTick ==
  /\ pc = "drain" /\ cmds = <<>> /\ vm.running
  /\ pc' = "rebuild"
  /\ UNCHANGED <<cmds, vm, node, curSf, prevInterval, txIn, beaconIn, txAllowed, dest,
                 driver, rx, aired, dropped, count, userVars>>

(* build_node takes the names as they are now; make_driver starts afresh. *)
Rebuild ==
  /\ pc = "rebuild"
  /\ node' = IF vm.rebuildNodes THEN vm.name ELSE node
  /\ driver' = IF vm.rebuildDriver THEN <<>> ELSE driver
  /\ txIn' = IF vm.rebuildDriver THEN START_TX ELSE txIn
  /\ beaconIn' = IF vm.rebuildDriver THEN START_BEACON ELSE beaconIn
  /\ vm' = [vm EXCEPT !.rebuildNodes = FALSE, !.rebuildDriver = FALSE]
  /\ pc' = "params"
  /\ UNCHANGED <<cmds, curSf, prevInterval, txAllowed, dest, rx, aired, dropped, count, userVars>>

Earlier(s, t) == IF s < t THEN s ELSE t

(* Mutants: a shorter interval waits; a new spreading factor keeps the backlog. *)
PulledInNever == txIn
BacklogKept == driver

PulledIn == IF vm.interval # prevInterval THEN Earlier(txIn, vm.interval) ELSE txIn
Backlog == IF vm.sf # curSf THEN <<>> ELSE driver

(***************************************************************************)
(* A new interval pulls the next auto TX in; a new spreading factor        *)
(* rebuilds both modems and clears what the driver still had to transmit.  *)
(***************************************************************************)
ReadParams ==
  /\ pc = "params"
  /\ prevInterval' = vm.interval
  /\ txIn' = PulledIn
  /\ curSf' = vm.sf
  /\ driver' = Backlog
  /\ txAllowed' = (vm.mode # "Listen")
  /\ pc' = "beacon"
  /\ UNCHANGED <<cmds, vm, node, beaconIn, dest, rx, aired, dropped, count, userVars>>

Push(pending, kind) == Append(pending, [kind |-> kind, sf |-> curSf, name |-> node])

(* Mutant: the destination is read once and kept. *)
ReadDestOnce == IF dest = 0 THEN vm.txDest ELSE dest

ReadDest == vm.txDest

(* The beacon timer restarts also when the beacon may not be sent. *)
Beacon ==
  /\ pc = "beacon"
  /\ beaconIn' = IF beaconIn = 0 THEN BEACON_INTERVAL ELSE beaconIn
  /\ driver' = IF beaconIn = 0 /\ txAllowed THEN Push(driver, "beacon") ELSE driver
  /\ dest' = ReadDest
  /\ pc' = "manual"
  /\ UNCHANGED <<cmds, vm, node, curSf, prevInterval, txIn, txAllowed, rx, aired, dropped,
                 count, userVars>>

(***************************************************************************)
(* Manual TX. The code takes the whole queue and then builds the frames    *)
(* one by one; nobody else touches the queue meanwhile.                    *)
(***************************************************************************)
TransmitText ==
  /\ pc = "manual" /\ txAllowed /\ vm.txQueue # <<>>
  /\ texts[Head(vm.txQueue)].fits
  /\ vm' = [vm EXCEPT !.txQueue = Tail(@)]
  /\ driver' = Push(driver, "text")
  /\ aired' = Append(aired, [text |-> Head(vm.txQueue), dest |-> dest])
  /\ UNCHANGED <<cmds, pc, node, curSf, prevInterval, txIn, beaconIn, txAllowed, dest, rx,
                 dropped, count, userVars>>

(* build_text_frame returns None: the text is skipped without a word. *)
SkipText ==
  /\ pc = "manual" /\ txAllowed /\ vm.txQueue # <<>>
  /\ ~texts[Head(vm.txQueue)].fits
  /\ vm' = [vm EXCEPT !.txQueue = Tail(@)]
  /\ dropped' = dropped \cup {Head(vm.txQueue)}
  /\ UNCHANGED <<cmds, pc, node, curSf, prevInterval, txIn, beaconIn, txAllowed, dest,
                 driver, rx, aired, count, userVars>>

(* Mutant: the queue is kept for a later Terminal mode. *)
QueueAfterManualKept == IF txAllowed THEN <<>> ELSE vm.txQueue

QueueAfterManual == <<>>

(* All texts have gone, or Listen mode clears the queue. *)
EndManual ==
  /\ pc = "manual" /\ (~txAllowed \/ vm.txQueue = <<>>)
  /\ vm' = [vm EXCEPT !.txQueue = QueueAfterManual]
  /\ dropped' = dropped \cup {vm.txQueue[k] : k \in 1 .. Len(vm.txQueue)}
  /\ pc' = "auto"
  /\ UNCHANGED <<cmds, node, curSf, prevInterval, txIn, beaconIn, txAllowed, dest,
                 driver, rx, aired, count, userVars>>

(* Mutants: the timer is set one tick short; it is set again in every tick. *)
AutoTxShort ==
  /\ pc = "auto" /\ txAllowed /\ vm.autoTx /\ txIn = 0
  /\ txIn' = prevInterval - 1
  /\ driver' = Push(driver, "auto")
  /\ pc' = "phy"
  /\ UNCHANGED <<cmds, vm, node, curSf, prevInterval, beaconIn, txAllowed, dest, rx,
                 aired, dropped, count, userVars>>
RestingTimerRearmed == prevInterval

RestingTimer == txIn

AutoTx ==
  /\ pc = "auto" /\ txAllowed /\ vm.autoTx /\ txIn = 0
  /\ txIn' = prevInterval
  /\ driver' = Push(driver, "auto")
  /\ pc' = "phy"
  /\ UNCHANGED <<cmds, vm, node, curSf, prevInterval, beaconIn, txAllowed, dest, rx,
                 aired, dropped, count, userVars>>

NoAutoTx ==
  /\ pc = "auto" /\ ~(txAllowed /\ vm.autoTx /\ txIn = 0)
  /\ txIn' = RestingTimer
  /\ pc' = "phy"
  /\ UNCHANGED <<cmds, vm, node, curSf, prevInterval, beaconIn, txAllowed, dest,
                 driver, rx, aired, dropped, count, userVars>>

(***************************************************************************)
(* driver.tick: the PHY finishes some of the pending frames, oldest first. *)
(* The simulated channel plays them back to our own receiver; a frame of   *)
(* another station may arrive before or after them.                        *)
(***************************************************************************)
Echoes(n) == [k \in 1 .. n |-> "echo"]

OnlyEchoes(n) == rx' = Echoes(n) /\ UNCHANGED count

EchoesAndForeign(n) ==
  /\ count.foreign < MaxForeign
  /\ count' = [count EXCEPT !.foreign = @ + 1]
  /\ \E f \in Foreign : rx' \in {<<f>> \o Echoes(n), Append(Echoes(n), f)}

TickDriver ==
  /\ pc = "phy"
  /\ txIn' = IF txIn = 0 THEN 0 ELSE txIn - 1
  /\ beaconIn' = IF beaconIn = 0 THEN 0 ELSE beaconIn - 1
  /\ \E done \in 0 .. Len(driver) :
       /\ Len(driver) - done <= MaxBacklog
       /\ driver' = SubSeq(driver, done + 1, Len(driver))
       /\ OnlyEchoes(done) \/ EchoesAndForeign(done)
  /\ pc' = "decode"
  /\ UNCHANGED <<cmds, vm, node, curSf, prevInterval, txAllowed, dest, aired, dropped, userVars>>

(* Mutant: the relay does not ask tx_allowed. *)
RelaysAlways(f) == f = "relay"

RelaysNow(f) == f = "relay" /\ txAllowed

(* process_rx_frame asks for a relay of some frames of others, never of ours. *)
DecodeFrame ==
  /\ pc = "decode" /\ rx # <<>>
  /\ driver' = IF RelaysNow(Head(rx)) THEN Push(driver, "relay") ELSE driver
  /\ rx' = Tail(rx)
  /\ UNCHANGED <<cmds, vm, pc, node, curSf, prevInterval, txIn, beaconIn, txAllowed, dest,
                 aired, dropped, count, userVars>>

EndTick ==
  /\ pc = "decode" /\ rx = <<>>
  /\ pc' = "drain"
  /\ UNCHANGED <<cmds, vm, node, curSf, prevInterval, txIn, beaconIn, txAllowed, dest,
                 driver, rx, aired, dropped, count, userVars>>

Users == SendSetting \/ SendSetTxDest \/ SendText

Loop ==
  \/ ApplyCommand \/ StartTick
  \/ Rebuild \/ ReadParams \/ Beacon
  \/ TransmitText \/ SkipText \/ EndManual
  \/ AutoTx \/ NoAutoTx
  \/ TickDriver \/ DecodeFrame \/ EndTick

Next == Users \/ Loop

(***************************************************************************)
(* The runtime keeps resuming the loop's task; users owe it nothing, and   *)
(* the PHY need not finish a frame within any tick.                        *)
(***************************************************************************)
Spec == Init /\ [][Next]_vars
FairSpec == Spec /\ WF_vars(Loop)

-----------------------------------------------------------------------------
(* Properties. *)

Unread == {cmds[k][2] : k \in {i \in DOMAIN cmds : cmds[i][1] = "SendText"}}

QueuedTexts == {vm.txQueue[k] : k \in DOMAIN vm.txQueue}

Outbox == INSTANCE TextOutbox WITH
  typed <- Len(texts),
  waiting <- QueuedTexts \cup Unread,
  aired <- [k \in DOMAIN aired |-> aired[k].text]

(***************************************************************************)
(* The loop implements the outbox: over the channel, the queue of the view *)
(* model and the per-tick drain of radio.rs texts leave in the order they  *)
(* were typed, each at most once, and one that is missing was given up.    *)
(***************************************************************************)
ImplementsOutbox == Outbox!Spec

(***************************************************************************)
(* A text never goes to a destination the user had already left when the   *)
(* text was sent: the channel keeps the selection and the text in order.   *)
(***************************************************************************)
DestNotStale == \A k \in DOMAIN aired : aired[k].dest >= texts[aired[k].text].dest

(***************************************************************************)
(* From the tick that follows a switch to Listen nothing new is handed to  *)
(* the PHY: beacon, typed text, auto text and relay all ask tx_allowed.    *)
(***************************************************************************)
NoPushInListen == [][vm.mode = "Listen" => Len(driver') <= Len(driver)]_vars

(***************************************************************************)
(* What is handed to the PHY carries the name the user gave last: a rename *)
(* in the drain has rebuilt the node before any frame of the tick is built,*)
(* across pauses and driver rebuilds.                                      *)
(***************************************************************************)
FramesNameUs ==
  [][Len(driver') > Len(driver) => driver'[Len(driver')].name = vm.name]_vars

(***************************************************************************)
(* Every frame the PHY still has to send was modulated for the spreading   *)
(* factor our own receiver now listens to.                                 *)
(***************************************************************************)
ModemMatches == \A k \in 1 .. Len(driver) : driver[k].sf = curSf

Later(s, t) == IF s > t THEN s ELSE t

(***************************************************************************)
(* However intervals are changed, and drivers rebuilt, the next auto TX is *)
(* never further away than the current interval (or the initial delay): a  *)
(* shortened interval pulls it in, and nothing pushes it out.              *)
(***************************************************************************)
AutoTxNotStarved == txIn <= Later(prevInterval, START_TX)

(***************************************************************************)
(* A command is read sooner or later, also while the loop is paused: else  *)
(* a pause could not be ended.                                             *)
(***************************************************************************)
CommandsDrained == []<>(cmds = <<>>)

(* If the loop is not paused for good, no text stays in the queue. *)
QueueDrained == []<>vm.running => []<>(vm.txQueue = <<>>)

(***************************************************************************)
(* A running Terminal with auto TX on keeps transmitting test texts,       *)
(* whatever happened to the timers before.                                 *)
(***************************************************************************)
AutoTxGoesOn ==
  <>[](vm.running /\ vm.mode = "Terminal" /\ vm.autoTx) => []<><<AutoTx>>_vars

(***************************************************************************)
(* model.rs:43: "No TX at all"; "the USRP stays completely silent" in      *)
(* Listen mode, once the loop has acted on the mode.                       *)
(***************************************************************************)
SilentInListen == pc = "phy" /\ vm.mode = "Listen" => driver = <<>>
=============================================================================
