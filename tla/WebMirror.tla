----------------------------- MODULE WebMirror -----------------------------
(***************************************************************************)
(* Browser windows on the program of UhdSwitch: the WebSocket task of      *)
(* server.rs, the snapshots of proto_ws.rs, the reader and writer tasks of *)
(* bin/mesh_web.rs, and the same view on a mirrored ViewModel.             *)
(*                                                                         *)
(* The server runs one task per connection. It reads a snapshot one lock   *)
(* after the other while the radio loop and the desktop window write, and  *)
(* sends it; in between it puts the commands of the client on the loop's   *)
(* channel. The browser is one thread: a message is applied, or a frame    *)
(* drawn, as a whole. A connection that is lost is not opened again until   *)
(* the page is loaded again.                                               *)
(*                                                                         *)
(* The arguments and uhd_loading travel like the frequency and are left    *)
(* to UhdSwitch.                                                           *)
(***************************************************************************)
EXTENDS UhdSwitch

CONSTANTS
  Client,     \* browser windows
  Malformed,  \* a command this server does not know, from a page of another version
  Error,      \* the answer to it
  MaxDown     \* bound: messages under way to a client

VARIABLES
  headless,  \* --headless: there is no desktop window
  server,    \* client -> the socket task: how much of a snapshot it has read
  up, down,  \* client -> the two directions of its connection
  open,      \* the clients whose connection stands
  mirror,    \* client -> its copy of the ViewModel
  web,       \* client -> its window: use_uhd, frequency, warning
  tuners,    \* history: who has set the frequency; Sim: some other window
  saw        \* history: clients whose window has seen this use of the USRP

linkVars == <<headless, server, up, down, open>>
webVars == <<linkVars, mirror, web, tuners, saw>>
allVars == <<vars, webVars>>

(* The order in which from_view reads; the mutants swap two and forget one. *)
FieldsWarningFirst == <<"warning", "freq", "useUhd">>
FieldsWithoutFreq == <<"useUhd", "useUhd", "warning">>

Fields == <<"useUhd", "freq", "warning">>

(* old: history, SetUhdEnabled was applied after the first field was read. *)
Snapshot == [useUhd : BOOLEAN, freq : Freq, warning : BOOLEAN, old : BOOLEAN]

ASSUME WebAssumption ==
  /\ MaxDown \in Nat \ {0} /\ Sim \notin Client
  /\ Malformed \notin Command /\ Error \notin Snapshot

(* What ViewModel::new puts in a mirror, and in a snapshot not yet begun. *)
Blank == [useUhd |-> FALSE, freq |-> DefaultFreq, warning |-> FALSE, old |-> FALSE]

WebTypeOK ==
  /\ headless \in BOOLEAN
  /\ server \in [Client -> [read : 0 .. Len(Fields), snapshot : Snapshot, greeted : BOOLEAN]]
  /\ up \in [Client -> Seq(Command \cup {Malformed})]
  /\ down \in [Client -> Seq(Snapshot \cup {Error})]
  /\ open \in SUBSET Client
  /\ mirror \in [Client -> Snapshot]
  /\ web \in [Client -> [useUhd : BOOLEAN, freq : Freq, warning : BOOLEAN]]
  /\ tuners \in SUBSET (Client \cup {Sim})
  /\ saw \in SUBSET Client

NewTask == [read |-> 0, snapshot |-> Blank, greeted |-> FALSE]
NewWindow == [useUhd |-> FALSE, freq |-> DefaultFreq, warning |-> FALSE]

WebInit ==
  /\ Init
  /\ headless \in BOOLEAN
  /\ server = [c \in Client |-> NewTask]
  /\ up = [c \in Client |-> <<>>] /\ down = [c \in Client |-> <<>>]
  /\ open = Client
  /\ mirror = [c \in Client |-> Blank]
  /\ web = [c \in Client |-> NewWindow]
  /\ tuners = {} /\ saw = {}

-----------------------------------------------------------------------------
(* The socket task. *)

Shared(field) == IF field = "warning" THEN warning ELSE vm[field]

(* The first snapshot is sent before the task listens; the others every 100 ms. *)
ReadField(c) ==
  /\ c \in open
  /\ server[c].read < Len(Fields)
  /\ Len(down[c]) < MaxDown
  /\ LET field == Fields[server[c].read + 1]
     IN server' = [server EXCEPT ![c].read = @ + 1, ![c].snapshot[field] = Shared(field)]
  /\ UNCHANGED <<vars, headless, up, down, open, mirror, web, tuners, saw>>

SendSnapshot(c) ==
  /\ c \in open
  /\ server[c].read = Len(Fields)
  /\ down' = [down EXCEPT ![c] = Append(@, server[c].snapshot)]
  /\ server' = [server EXCEPT ![c] = [read |-> 0, snapshot |-> Blank, greeted |-> TRUE]]
  /\ UNCHANGED <<vars, headless, up, open, mirror, web, tuners, saw>>

Listening(c) == c \in open /\ server[c].greeted /\ server[c].read = 0 /\ up[c] # <<>>

(* Mutant: a task per message, and the later one is done first. *)
ForwardLatest(c) ==
  /\ Listening(c)
  /\ LET last == Len(up[c])
     IN /\ up[c][last] # Malformed
        /\ cmds' = Append(cmds, up[c][last])
        /\ up' = [up EXCEPT ![c] = SubSeq(@, 1, last - 1)]
  /\ UNCHANGED <<vm, warning, loopVars, view, sent, failed, seen,
                 headless, server, down, open, mirror, web, tuners, saw>>

ForwardCommand(c) ==
  /\ Listening(c)
  /\ Head(up[c]) # Malformed
  /\ cmds' = Append(cmds, Head(up[c]))
  /\ up' = [up EXCEPT ![c] = Tail(@)]
  /\ UNCHANGED <<vm, warning, loopVars, view, sent, failed, seen,
                 headless, server, down, open, mirror, web, tuners, saw>>

(* The client is told, and stays connected. *)
RefuseText(c) ==
  /\ Listening(c)
  /\ Head(up[c]) = Malformed
  /\ Len(down[c]) < MaxDown
  /\ down' = [down EXCEPT ![c] = Append(@, Error)]
  /\ up' = [up EXCEPT ![c] = Tail(@)]
  /\ UNCHANGED <<vars, headless, server, open, mirror, web, tuners, saw>>

(***************************************************************************)
(* The connection is lost with what is under way, and neither side tries   *)
(* again: the page goes on drawing what it has, of no concern to others.   *)
(***************************************************************************)
LoseConnection(c) ==
  /\ c \in open
  /\ open' = open \ {c}
  /\ up' = [up EXCEPT ![c] = <<>>]
  /\ down' = [down EXCEPT ![c] = <<>>]
  /\ server' = [server EXCEPT ![c] = NewTask]
  /\ mirror' = [mirror EXCEPT ![c] = Blank]
  /\ web' = [web EXCEPT ![c] = NewWindow]
  /\ tuners' = IF c \in tuners THEN tuners \cup {Sim} ELSE tuners
  /\ saw' = saw \ {c}
  /\ UNCHANGED <<vars, headless>>

(* The page is loaded again: a new view model, a new connection. *)
Reload(c) ==
  /\ c \notin open /\ sent < MaxCommands
  /\ sent' = sent + 1
  /\ open' = open \cup {c}
  /\ UNCHANGED <<cmds, vm, warning, loopVars, view, failed, seen,
                 headless, server, up, down, mirror, web, tuners, saw>>

-----------------------------------------------------------------------------
(* The browser. *)

(* Mutant: whatever comes is taken for a snapshot. *)
MirroredAny(old, msg) == msg

(* Only a Snapshot changes the mirror. *)
Mirrored(old, msg) == IF msg = Error THEN old ELSE msg

ApplyMessage(c) ==
  /\ down[c] # <<>>
  /\ mirror' = [mirror EXCEPT ![c] = Mirrored(@, Head(down[c]))]
  /\ down' = [down EXCEPT ![c] = Tail(@)]
  /\ UNCHANGED <<vars, headless, server, up, open, web, tuners, saw>>

(* Mutant: only the switch to UHD is mirrored. *)
FollowedOn(c) == [web[c] EXCEPT !.useUhd = @ \/ mirror[c].useUhd]

(* The start of a frame: the selector follows the mirror and takes its warning. *)
Followed(c) ==
  IF web[c].useUhd = mirror[c].useUhd THEN web[c]
  ELSE [web[c] EXCEPT !.useUhd = mirror[c].useUhd,
                      !.warning = IF mirror[c].useUhd THEN @ ELSE mirror[c].warning]

DrawFrame(c) ==
  /\ c \in open
  /\ web' = [web EXCEPT ![c] = Followed(c)]
  /\ mirror' = [mirror EXCEPT ![c].warning =
                  @ /\ ~(web[c].useUhd /\ ~mirror[c].useUhd)]
  /\ saw' = IF mirror[c].useUhd /\ ~mirror[c].old THEN saw \cup {c} ELSE saw
  /\ UNCHANGED <<vars, linkVars, tuners>>

(* A click is handled at the end of a frame; the writer task sends it on. *)
Click(c, msg) ==
  /\ c \in open /\ web[c].useUhd = mirror[c].useUhd
  /\ sent < MaxCommands
  /\ sent' = sent + 1
  /\ up' = [up EXCEPT ![c] = Append(@, msg)]
  /\ UNCHANGED <<cmds, vm, warning, loopVars, view, failed, seen,
                 headless, server, down, open, mirror, saw>>

WebClickUhd(c) ==
  /\ ~web[c].useUhd
  /\ Click(c, <<"SetUhdEnabled", TRUE>>)
  /\ web' = [web EXCEPT ![c].useUhd = TRUE, ![c].warning = FALSE]
  /\ UNCHANGED tuners

WebClickSim(c) ==
  /\ web[c].useUhd
  /\ Click(c, <<"SetUhdEnabled", FALSE>>)
  /\ web' = [web EXCEPT ![c].useUhd = FALSE]
  /\ UNCHANGED tuners

WebChooseFreq(c) ==
  /\ \E f \in Freq :
       /\ Click(c, <<"SetUhdFreqHz", f>>)
       /\ web' = [web EXCEPT ![c].freq = f]
  /\ tuners' = tuners \cup {c}

(* The page is of another version than the server. *)
SendMalformed(c) ==
  /\ Click(c, Malformed)
  /\ UNCHANGED <<web, tuners>>

-----------------------------------------------------------------------------
(* The program of UhdSwitch goes on beside. *)

Outdated(snapshot) == [snapshot EXCEPT !.old = TRUE]

(* History: with SetUhdEnabled a new use of the USRP begins, or none. *)
Restarted ==
  /\ saw' = {}
  /\ server' = [c \in Client |->
                  IF server[c].read = 0 THEN server[c]
                  ELSE [server[c] EXCEPT !.snapshot = Outdated(@)]]
  /\ down' = [c \in Client |-> [k \in DOMAIN down[c] |->
                IF down[c][k] = Error THEN Error ELSE Outdated(down[c][k])]]
  /\ mirror' = [c \in Client |-> Outdated(mirror[c])]

RadioStep ==
  /\ Loop
  /\ IF pc = "drain" /\ cmds # <<>> /\ Head(cmds)[1] = "SetUhdEnabled"
     THEN Restarted
     ELSE UNCHANGED <<saw, server, down, mirror>>
  /\ UNCHANGED <<headless, up, open, web, tuners>>

DesktopStep ==
  /\ ~headless
  /\ \/ (ClickUhd \/ ClickSim \/ EnterArgs \/ Frame) /\ UNCHANGED tuners
     \/ ChooseFreq /\ tuners' = tuners \cup {Sim}
  /\ UNCHANGED <<linkVars, mirror, web, saw>>

Serve(c) == ReadField(c) \/ SendSnapshot(c) \/ RefuseText(c)

User(c) == Reload(c) \/ WebClickUhd(c) \/ WebClickSim(c) \/ WebChooseFreq(c) \/ SendMalformed(c)

WebNext ==
  \/ RadioStep \/ DesktopStep
  \/ \E c \in Client :
       \/ Serve(c) \/ ForwardCommand(c) \/ LoseConnection(c)
       \/ ApplyMessage(c) \/ DrawFrame(c) \/ User(c)

WebSpec == WebInit /\ [][WebNext]_allVars

(***************************************************************************)
(* Threads, tasks and frames go on; nobody has to click or to disconnect.  *)
(* A snapshot is due every 100 ms, and in between the task only listens:   *)
(* it comes round to a waiting command however many snapshots it sends.    *)
(***************************************************************************)
WebFairSpec ==
  /\ WebSpec
  /\ WF_allVars(RadioStep)
  /\ WF_allVars(~headless /\ Frame /\ UNCHANGED webVars)
  /\ \A c \in Client : /\ WF_allVars(Serve(c))
                       /\ SF_allVars(ForwardCommand(c))
                       /\ WF_allVars(ApplyMessage(c))
                       /\ WF_allVars(DrawFrame(c))

-----------------------------------------------------------------------------
(* Properties. *)

(***************************************************************************)
(* Whatever a snapshot caught of a change half made, the copy in every     *)
(* connected browser ends up the same as the program's view model.         *)
(***************************************************************************)
Agrees(c) ==
  /\ mirror[c].useUhd = vm.useUhd
  /\ mirror[c].freq = vm.freq
  /\ mirror[c].warning = warning

MirrorConverges == \A c \in Client : <>[](c \in open => Agrees(c))

(***************************************************************************)
(* In the end the selector of a browser agrees with use_uhd, although its  *)
(* own click is taken back by the snapshots that left before the loop has  *)
(* applied it.                                                             *)
(***************************************************************************)
WebSelectorFollows == \A c \in Client : <>[](c \in open => web[c].useUhd = vm.useUhd)

(* Nothing of c is under way, and its window has the driver the loop has. *)
WebQuiet(c) ==
  /\ cmds = <<>> /\ pc = "drain" /\ ~vm.rebuild
  /\ c \in open /\ up[c] = <<>>
  /\ web[c].useUhd = vm.useUhd /\ mirror[c].useUhd = vm.useUhd

Told(c) == WebQuiet(c) /\ failed /\ c \in saw => web[c].warning

(***************************************************************************)
(* Without a desktop window, a browser that has seen the USRP in use, or   *)
(* being opened, and sees it go is told why: no snapshot has use_uhd off   *)
(* again without the warning, though it is read lock by lock.              *)
(***************************************************************************)
WebFailureShown == headless => \A c \in Client : Told(c)

(***************************************************************************)
(* A browser that alone sets the frequency has what it set last: commands  *)
(* of one client are applied in the order of its clicks, whatever others   *)
(* do to the driver in between.                                            *)
(***************************************************************************)
OwnerInControl ==
  \A c \in Client :
    WebQuiet(c) /\ tuners = {c} =>
      vm.freq = web[c].freq /\ (driver # Sim => driver.freq = web[c].freq)

(***************************************************************************)
(* view/mod.rs:302: when the loop cannot open the device it sets           *)
(* uhd_warning and flips use_uhd back, "which we mirror", in the browser   *)
(* as in the desktop window.                                               *)
(***************************************************************************)
WarningMirrored == \A c \in Client : Told(c)
=============================================================================
