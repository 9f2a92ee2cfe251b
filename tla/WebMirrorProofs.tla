-------------------------- MODULE WebMirrorProofs --------------------------
(***************************************************************************)
(* Theorems about WebMirror, for any set of browsers, any frequencies and  *)
(* any number of commands, lost connections and messages under way; and    *)
(* the theorems of UhdSwitch again, with browsers beside.                  *)
(***************************************************************************)
EXTENDS WebMirror, UhdSwitchProofs

-----------------------------------------------------------------------------
(* Types. *)

Task == [read : 0 .. Len(Fields), snapshot : Snapshot, greeted : BOOLEAN]
Screen == [useUhd : BOOLEAN, freq : Freq, warning : BOOLEAN]
Upward == Command \cup {Malformed}
Downward == Snapshot \cup {Error}

LEMMA FieldsRead ==
  Len(Fields) = 3 /\ Fields[1] = "useUhd" /\ Fields[2] = "freq" /\ Fields[3] = "warning"
BY DEF Fields

LEMMA Blanks == Blank \in Snapshot /\ NewTask \in Task /\ NewWindow \in Screen
<1>1. Blank \in Snapshot /\ NewWindow \in Screen
  BY UhdDefaultAssumption DEF Blank, Snapshot, NewWindow, Screen
<1> QED
  BY <1>1, FieldsRead DEF NewTask, Task

LEMMA WebInitType ==
  ASSUME WebInit
  PROVE  TypeOK /\ WebTypeOK
<1>1. TypeOK
  BY UhdInitType DEF WebInit
<1>2. /\ server \in [Client -> Task] /\ web \in [Client -> Screen]
      /\ mirror \in [Client -> Snapshot]
  BY Blanks DEF WebInit
<1>3. up \in [Client -> Seq(Upward)] /\ down \in [Client -> Seq(Downward)]
  BY EmptySeq DEF WebInit
<1> QED
  BY <1>1, <1>2, <1>3 DEF WebInit, WebTypeOK, Task, Screen, Upward, Downward

LEMMA TaskReads ==
  ASSUME NEW task \in Task, NEW snapshot \in Snapshot, NEW n \in 0 .. Len(Fields)
  PROVE  [task EXCEPT !.read = n, !.snapshot = snapshot] \in Task
BY DEF Task

(* One more field of a snapshot, read from a well-formed view model. *)
LEMMA FieldTyped ==
  ASSUME TypeOK, WebTypeOK, NEW c \in Client, ReadField(c)
  PROVE  server' \in [Client -> Task]
<1> DEFINE field == Fields[server[c].read + 1]
<1>1. server[c] \in Task /\ server[c].read \in 0 .. 2
  BY FieldsRead DEF ReadField, WebTypeOK, Task
<1>2. field \in {"useUhd", "freq", "warning"}
  <2>1. CASE server[c].read = 0
    BY <2>1, FieldsRead
  <2>2. CASE server[c].read = 1
    BY <2>2, FieldsRead
  <2>3. CASE server[c].read = 2
    BY <2>3, FieldsRead
  <2> QED
    BY <1>1, <2>1, <2>2, <2>3
<1>3. server[c].snapshot \in Snapshot
  BY <1>1 DEF Task
<1>4. [server[c].snapshot EXCEPT ![field] = Shared(field)] \in Snapshot
  <2>1. CASE field = "useUhd"
    <3>1. Shared(field) \in BOOLEAN
      BY <2>1 DEF Shared, TypeOK
    <3> QED
      BY <1>3, <2>1, <3>1 DEF Snapshot
  <2>2. CASE field = "freq"
    <3>1. Shared(field) \in Freq
      BY <2>2 DEF Shared, TypeOK
    <3> QED
      BY <1>3, <2>2, <3>1 DEF Snapshot
  <2>3. CASE field = "warning"
    <3>1. Shared(field) \in BOOLEAN
      BY <2>3 DEF Shared, TypeOK
    <3> QED
      BY <1>3, <2>3, <3>1 DEF Snapshot
  <2> QED
    BY <1>2, <2>1, <2>2, <2>3
<1>5. server' = [server EXCEPT ![c] = [server[c] EXCEPT !.read = @ + 1,
                                     !.snapshot = [@ EXCEPT ![field] = Shared(field)]]]
  BY DEF ReadField
<1>6. [server[c] EXCEPT !.read = @ + 1, !.snapshot = [@ EXCEPT ![field] = Shared(field)]] \in Task
  <2>1. server[c].read + 1 \in 0 .. Len(Fields)
    BY <1>1, FieldsRead
  <2> QED
    BY <1>1, <1>4, <2>1, TaskReads
<1> QED
  BY <1>5, <1>6 DEF WebTypeOK, Task

(* A step of the program of UhdSwitch, as its own theorems know it. *)
LEMMA ProgramStep ==
  ASSUME RadioStep \/ DesktopStep
  PROVE  Next
BY DEF RadioStep, DesktopStep, Next, Window

(* Of the program, a browser's steps touch only the command channel and the bound. *)
LEMMA ProgramRests ==
  ASSUME NEW c \in Client,
         \/ Serve(c) \/ LoseConnection(c) \/ ApplyMessage(c) \/ DrawFrame(c) \/ User(c)
  PROVE  UNCHANGED <<cmds, vm, warning, loopVars, view, failed, seen>>
BY DEF Serve, ReadField, SendSnapshot, RefuseText, LoseConnection, ApplyMessage, DrawFrame, User,
       Reload, WebClickUhd, WebClickSim, WebChooseFreq, SendMalformed, Click, vars

LEMMA Forwarded ==
  ASSUME TypeOK, WebTypeOK, NEW c \in Client, ForwardCommand(c)
  PROVE  /\ up[c] \in Seq(Upward) /\ up[c] # <<>> /\ Head(up[c]) \in Command
         /\ cmds' = Append(cmds, Head(up[c])) /\ up' = [up EXCEPT ![c] = Tail(@)]
         /\ UNCHANGED <<vm, warning, loopVars, view, sent, failed, seen, headless, server, down,
                        open, mirror, web, tuners, saw>>
<1>1. up[c] \in Seq(Upward) /\ up[c] # <<>> /\ Head(up[c]) # Malformed
  BY DEF ForwardCommand, Listening, WebTypeOK, Upward
<1>2. Head(up[c]) \in Upward
  BY <1>1, HeadTailProperties
<1> QED
  BY <1>1, <1>2 DEF ForwardCommand, Upward

LEMMA ProgramStepType ==
  ASSUME TypeOK, WebTypeOK, [WebNext]_allVars
  PROVE  TypeOK'
<1>1. CASE RadioStep \/ DesktopStep \/ UNCHANGED allVars
  BY <1>1, ProgramStep, UhdStepType DEF allVars
<1>2. ASSUME NEW c \in Client, ForwardCommand(c)
      PROVE  TypeOK'
  <2>1. cmds' \in Seq(Command)
    BY <1>2, Forwarded, AppendProperties DEF TypeOK
  <2> QED
    BY <1>2, <2>1, Forwarded DEF TypeOK, loopVars
<1>3. ASSUME NEW c \in Client,
             \/ Serve(c) \/ LoseConnection(c) \/ ApplyMessage(c) \/ DrawFrame(c) \/ User(c)
      PROVE  TypeOK'
  <2>1. sent' = sent \/ (sent < MaxCommands /\ sent' = sent + 1)
    BY <1>3 DEF Serve, ReadField, SendSnapshot, RefuseText, LoseConnection, ApplyMessage,
                DrawFrame, User, Reload, WebClickUhd, WebClickSim, WebChooseFreq, SendMalformed,
                Click, vars
  <2>2. sent' \in 0 .. MaxCommands
    BY <2>1, UhdBoundAssumption DEF TypeOK
  <2> QED
    BY <1>3, <2>2, ProgramRests DEF TypeOK, loopVars
<1> QED
  BY <1>1, <1>2, <1>3 DEF WebNext

(* Marking snapshots as old leaves them, and the messages around them, what they are. *)
LEMMA OutdatedTyped ==
  ASSUME NEW x \in Snapshot
  PROVE  /\ Outdated(x) \in Snapshot /\ Outdated(x).old
         /\ Outdated(x).useUhd = x.useUhd /\ Outdated(x).warning = x.warning
BY DEF Outdated, Snapshot

LEMMA RestartedTyped ==
  ASSUME WebTypeOK, Restarted
  PROVE  /\ server' \in [Client -> Task] /\ down' \in [Client -> Seq(Downward)]
         /\ mirror' \in [Client -> Snapshot]
         /\ \A c \in Client :
              /\ server'[c].read = server[c].read
              /\ server[c].read = 0 => server'[c] = server[c]
              /\ server[c].read # 0 => server'[c].snapshot = Outdated(server[c].snapshot)
              /\ Len(down'[c]) = Len(down[c])
              /\ \A k \in 1 .. Len(down[c]) :
                   /\ down[c][k] = Error => down'[c][k] = Error
                   /\ down[c][k] # Error => down'[c][k] = Outdated(down[c][k])
              /\ mirror'[c] = Outdated(mirror[c])
<1>1. /\ server \in [Client -> Task] /\ down \in [Client -> Seq(Downward)]
      /\ mirror \in [Client -> Snapshot]
  BY DEF WebTypeOK, Task, Downward
<1>2. ASSUME NEW c \in Client
      PROVE  /\ server'[c] \in Task /\ server'[c].read = server[c].read
             /\ server[c].read = 0 => server'[c] = server[c]
             /\ server[c].read # 0 => server'[c].snapshot = Outdated(server[c].snapshot)
  <2>1. server[c] \in Task /\ Outdated(server[c].snapshot) \in Snapshot
    BY <1>1, OutdatedTyped DEF Task
  <2>2. server'[c] = IF server[c].read = 0 THEN server[c]
                     ELSE [server[c] EXCEPT !.snapshot = Outdated(@)]
    BY DEF Restarted
  <2> QED
    BY <2>1, <2>2 DEF Task
<1>3. ASSUME NEW c \in Client
      PROVE  /\ down'[c] \in Seq(Downward) /\ Len(down'[c]) = Len(down[c])
             /\ \A k \in 1 .. Len(down[c]) :
                  /\ down[c][k] = Error => down'[c][k] = Error
                  /\ down[c][k] # Error => down'[c][k] = Outdated(down[c][k])
  <2>1. /\ down[c] \in Seq(Downward) /\ Len(down[c]) \in Nat
        /\ DOMAIN down[c] = 1 .. Len(down[c])
        /\ \A k \in 1 .. Len(down[c]) : down[c][k] \in Downward
    BY <1>1, LenProperties, ElementOfSeq
  <2> DEFINE msg(k) == IF down[c][k] = Error THEN Error ELSE Outdated(down[c][k])
  <2>2. down'[c] = [k \in 1 .. Len(down[c]) |-> msg(k)]
    BY <2>1 DEF Restarted
  <2>3. \A k \in 1 .. Len(down[c]) : msg(k) \in Downward
    BY <2>1, OutdatedTyped DEF Downward
  <2>4. down'[c] \in Seq(Downward)
    <3> HIDE DEF msg
    <3>1. down'[c] \in [1 .. Len(down[c]) -> Downward]
      BY <2>2, <2>3
    <3> QED
      BY <2>1, <3>1, SeqDef
  <2>5. Len(down'[c]) = Len(down[c])
    BY <2>1, <2>2, <2>4, LenProperties
  <2> QED
    BY <2>2, <2>4, <2>5
<1>4. \A c \in Client : mirror'[c] = Outdated(mirror[c]) /\ mirror'[c] \in Snapshot
  BY <1>1, OutdatedTyped DEF Restarted
<1>5. /\ DOMAIN server' = Client /\ DOMAIN down' = Client /\ DOMAIN mirror' = Client
      /\ server' = [c \in Client |-> server'[c]] /\ down' = [c \in Client |-> down'[c]]
      /\ mirror' = [c \in Client |-> mirror'[c]]
  BY DEF Restarted
<1> QED
  BY <1>2, <1>3, <1>4, <1>5

(* WebTypeOK by the names above. *)
WebTyped ==
  /\ headless \in BOOLEAN /\ open \in SUBSET Client
  /\ server \in [Client -> Task] /\ web \in [Client -> Screen]
  /\ mirror \in [Client -> Snapshot]
  /\ up \in [Client -> Seq(Upward)] /\ down \in [Client -> Seq(Downward)]
  /\ tuners \in SUBSET (Client \cup {Sim}) /\ saw \in SUBSET Client

LEMMA TaskTyped ==
  ASSUME TypeOK, WebTypeOK, WebTyped, NEW c \in Client, Serve(c) \/ ForwardCommand(c)
  PROVE  WebTyped'
<1>1. CASE ReadField(c)
  BY <1>1, FieldTyped DEF ReadField, WebTyped
<1>2. CASE SendSnapshot(c)
  <2>1. server[c].snapshot \in Downward /\ down[c] \in Seq(Downward)
    BY DEF Task, Downward, WebTyped
  <2>2. Append(down[c], server[c].snapshot) \in Seq(Downward)
    BY <2>1, AppendProperties
  <2>3. [read |-> 0, snapshot |-> Blank, greeted |-> TRUE] \in Task
    BY Blanks, FieldsRead DEF Task
  <2> QED
    BY <1>2, <2>2, <2>3 DEF SendSnapshot, WebTyped
<1>3. CASE RefuseText(c)
  <2>1. Tail(up[c]) \in Seq(Upward)
    BY <1>3, HeadTailProperties DEF RefuseText, Listening, WebTyped
  <2>2. Append(down[c], Error) \in Seq(Downward)
    BY AppendProperties DEF Downward, WebTyped
  <2> QED
    BY <1>3, <2>1, <2>2 DEF RefuseText, WebTyped
<1>4. CASE ForwardCommand(c)
  <2>1. Tail(up[c]) \in Seq(Upward)
    BY <1>4, Forwarded, HeadTailProperties
  <2> QED
    BY <1>4, <2>1, Forwarded DEF WebTyped
<1> QED
  BY <1>1, <1>2, <1>3, <1>4 DEF Serve

LEMMA BrowserTyped ==
  ASSUME WebTyped, NEW c \in Client, LoseConnection(c) \/ ApplyMessage(c) \/ DrawFrame(c)
  PROVE  WebTyped'
<1>1. CASE LoseConnection(c)
  BY <1>1, Blanks, EmptySeq DEF LoseConnection, WebTyped
<1>2. CASE ApplyMessage(c)
  <2>1. Head(down[c]) \in Downward /\ Tail(down[c]) \in Seq(Downward)
    BY <1>2, HeadTailProperties DEF ApplyMessage, WebTyped
  <2>2. Mirrored(mirror[c], Head(down[c])) \in Snapshot
    BY <2>1 DEF Mirrored, Downward, WebTyped
  <2> QED
    BY <1>2, <2>1, <2>2 DEF ApplyMessage, WebTyped
<1>3. CASE DrawFrame(c)
  <2>1. web[c] \in Screen /\ mirror[c] \in Snapshot
    BY DEF WebTyped
  <2>2. Followed(c) \in Screen
    BY <2>1 DEF Followed, Screen, Snapshot
  <2>3. ASSUME NEW left \in BOOLEAN
        PROVE  [mirror[c] EXCEPT !.warning = left] \in Snapshot
    BY <2>1 DEF Snapshot
  <2>4. (mirror[c].warning /\ ~(web[c].useUhd /\ ~mirror[c].useUhd)) \in BOOLEAN
    BY <2>1 DEF Snapshot
  <2>5. mirror' = [mirror EXCEPT ![c] = [mirror[c] EXCEPT !.warning =
                     @ /\ ~(web[c].useUhd /\ ~mirror[c].useUhd)]]
    BY <1>3 DEF DrawFrame
  <2> QED
    BY <1>3, <2>2, <2>3, <2>4, <2>5 DEF DrawFrame, linkVars, WebTyped
<1> QED
  BY <1>1, <1>2, <1>3

LEMMA UserTyped ==
  ASSUME WebTyped, NEW c \in Client, User(c)
  PROVE  WebTyped'
<1>1. web[c] \in Screen
  BY DEF WebTyped
<1>2. ASSUME NEW msg \in Upward, Click(c, msg), web' \in [Client -> Screen],
             tuners' \in SUBSET (Client \cup {Sim})
      PROVE  WebTyped'
  BY <1>2, AppendProperties DEF Click, WebTyped
<1>3. CASE Reload(c)
  BY <1>3 DEF Reload, WebTyped
<1>4. CASE WebClickUhd(c)
  <2>1. [web[c] EXCEPT !.useUhd = TRUE, !.warning = FALSE] \in Screen
    BY <1>1 DEF Screen
  <2>2. web' = [web EXCEPT ![c] = [web[c] EXCEPT !.useUhd = TRUE, !.warning = FALSE]]
    BY <1>4 DEF WebClickUhd
  <2>3. <<"SetUhdEnabled", TRUE>> \in Upward
    BY DEF Upward, Command
  <2>4. web' \in [Client -> Screen] /\ tuners' \in SUBSET (Client \cup {Sim})
    BY <1>4, <2>1, <2>2 DEF WebClickUhd, WebTyped
  <2> QED
    BY <1>2, <1>4, <2>3, <2>4 DEF WebClickUhd
<1>5. CASE WebClickSim(c)
  <2>1. [web[c] EXCEPT !.useUhd = FALSE] \in Screen
    BY <1>1 DEF Screen
  <2>2. web' = [web EXCEPT ![c] = [web[c] EXCEPT !.useUhd = FALSE]]
    BY <1>5 DEF WebClickSim
  <2>3. <<"SetUhdEnabled", FALSE>> \in Upward
    BY DEF Upward, Command
  <2>4. web' \in [Client -> Screen] /\ tuners' \in SUBSET (Client \cup {Sim})
    BY <1>5, <2>1, <2>2 DEF WebClickSim, WebTyped
  <2> QED
    BY <1>2, <1>5, <2>3, <2>4 DEF WebClickSim
<1>6. CASE WebChooseFreq(c)
  <2>1. PICK f \in Freq : Click(c, <<"SetUhdFreqHz", f>>) /\ web' = [web EXCEPT ![c].freq = f]
    BY <1>6 DEF WebChooseFreq
  <2>2. <<"SetUhdFreqHz", f>> \in Upward /\ [web[c] EXCEPT !.freq = f] \in Screen
    BY <1>1 DEF Upward, Command, Screen
  <2>3. web' = [web EXCEPT ![c] = [web[c] EXCEPT !.freq = f]]
    BY <2>1
  <2>4. web' \in [Client -> Screen] /\ tuners' \in SUBSET (Client \cup {Sim})
    BY <1>6, <2>2, <2>3 DEF WebChooseFreq, WebTyped
  <2> QED
    BY <1>2, <2>1, <2>2, <2>4
<1>7. CASE SendMalformed(c)
  BY <1>2, <1>7 DEF SendMalformed, Upward, WebTyped
<1> QED
  BY <1>3, <1>4, <1>5, <1>6, <1>7 DEF User

LEMMA WebStepType ==
  ASSUME TypeOK, WebTypeOK, [WebNext]_allVars
  PROVE  WebTypeOK'
<1>1. WebTyped
  BY DEF WebTypeOK, WebTyped, Task, Screen, Upward, Downward
<1> SUFFICES WebTyped'
  BY DEF WebTypeOK, WebTyped, Task, Screen, Upward, Downward
<1>2. CASE UNCHANGED allVars
  BY <1>1, <1>2 DEF allVars, webVars, linkVars, WebTyped
<1>3. CASE RadioStep
  <2>1. /\ server' \in [Client -> Task] /\ down' \in [Client -> Seq(Downward)]
        /\ mirror' \in [Client -> Snapshot] /\ saw' \in SUBSET Client
    <3>1. CASE Restarted
      BY <3>1, RestartedTyped DEF Restarted
    <3>2. CASE UNCHANGED <<saw, server, down, mirror>>
      BY <1>1, <3>2 DEF WebTyped
    <3> QED
      BY <1>3, <3>1, <3>2 DEF RadioStep
  <2> QED
    BY <1>1, <1>3, <2>1 DEF RadioStep, WebTyped
<1>4. CASE DesktopStep
  BY <1>1, <1>4 DEF DesktopStep, linkVars, WebTyped
<1> QED
  BY <1>1, <1>2, <1>3, <1>4, TaskTyped, BrowserTyped, UserTyped DEF WebNext

(***************************************************************************)
(* Every message, mirror and window is well formed, and every command that *)
(* reaches the loop is one of the program's, whatever clients send.        *)
(***************************************************************************)
THEOREM WebTyping == WebSpec => [](TypeOK /\ WebTypeOK)
<1>1. WebInit => TypeOK /\ WebTypeOK
  BY WebInitType
<1>2. TypeOK /\ WebTypeOK /\ [WebNext]_allVars => TypeOK' /\ WebTypeOK'
  BY ProgramStepType, WebStepType
<1> QED
  BY <1>1, <1>2, PTL DEF WebSpec

-----------------------------------------------------------------------------
(* The program beside browsers. *)

(***************************************************************************)
(* One session on the USRP, with any number of browsers switching too.     *)
(***************************************************************************)
THEOREM WebSessionsExclusive == WebSpec => []OneDevice
<1>1. WebInit => OneDevice
  BY DEF WebInit, Init, OneDevice
<1>2. OneDevice /\ [WebNext]_allVars => OneDevice'
  <2> SUFFICES ASSUME OneDevice, [WebNext]_allVars
               PROVE  OneDevice'
    OBVIOUS
  <2>1. CASE RadioStep \/ DesktopStep
    BY <2>1, ProgramStep, OneDeviceStep
  <2>2. ASSUME ~(RadioStep \/ DesktopStep)
        PROVE  UNCHANGED loopVars
    BY <2>2, ProgramRests DEF WebNext, ForwardCommand, allVars, vars, loopVars
  <2> QED
    BY <2>1, <2>2 DEF OneDevice, loopVars
<1> QED
  BY <1>1, <1>2, PTL DEF WebSpec

LEMMA WebSwitchStep ==
  ASSUME TypeOK, SwitchInv, [WebNext]_allVars
  PROVE  SwitchInv'
<1>1. CASE RadioStep \/ DesktopStep
  BY <1>1, ProgramStep, SwitchStep
<1>2. CASE ~(RadioStep \/ DesktopStep)
  <2>1. UNCHANGED <<vm, loopVars>>
    BY <1>2, ProgramRests DEF WebNext, ForwardCommand, allVars, vars
  <2> QED
    BY <2>1 DEF SwitchInv, DriverAgrees, loopVars
<1> QED
  BY <1>1, <1>2

LEMMA WebSwitchInv == WebSpec => []SwitchInv
<1>1. WebInit => SwitchInv
  BY DEF WebInit, Init, SwitchInv, DriverAgrees
<1>2. TypeOK /\ SwitchInv /\ [WebNext]_allVars => SwitchInv'
  BY WebSwitchStep
<1> QED
  BY <1>1, <1>2, WebTyping, PTL DEF WebSpec

(***************************************************************************)
(* Every tick has the driver and the frequency of the view model, whoever  *)
(* set them: the desktop, or any of the browsers.                          *)
(***************************************************************************)
THEOREM WebDriverIsTuned == WebSpec => []DriverTuned
<1>1. SwitchInv => DriverTuned
  BY DEF SwitchInv, DriverAgrees, DriverTuned
<1> QED
  BY <1>1, WebSwitchInv, PTL

-----------------------------------------------------------------------------
(* Who tunes. *)

Tune == {"SetUhdFreqHz"} \X Freq

Contains(msgs, kind) == \E k \in 1 .. Len(msgs) : msgs[k] \in kind

Tunes(msgs) == Contains(msgs, Tune)

(* The last tuning command among msgs, if there is one, sets freq. *)
EndsOn(msgs, freq) ==
  \A k \in 1 .. Len(msgs) :
    msgs[k] \in Tune => msgs[k][2] = freq \/ \E j \in k + 1 .. Len(msgs) : msgs[j] \in Tune

(***************************************************************************)
(* What the only tuner set last is on the connection, or behind it in the  *)
(* loop's channel, or applied; those who never tuned have sent no tuning   *)
(* command.                                                                *)
(***************************************************************************)
OwnerInv ==
  /\ tuners = {} => ~Tunes(cmds)
  /\ \A c \in Client :
       /\ c \notin tuners => ~Tunes(up[c])
       /\ tuners = {c} =>
            /\ EndsOn(up[c], web[c].freq)
            /\ ~Tunes(up[c]) => EndsOn(cmds, web[c].freq)
            /\ ~Tunes(up[c]) /\ ~Tunes(cmds) => vm.freq = web[c].freq

-----------------------------------------------------------------------------
(* Who is told. *)

(* The loop by itself: a failure follows use_uhd, and precedes its end. *)
FailInv ==
  /\ pc \in {"start", "opening", "failed", "warned"} => vm.useUhd
  /\ pc \in {"failed", "warned"} => failed
  /\ failed => ~vm.useUhd \/ pc \in {"failed", "warned"}

(* Nobody takes the warning away while there is no desktop window. *)
KeptWarning ==
  /\ pc = "warned" => warning
  /\ failed /\ ~vm.useUhd => warning

(***************************************************************************)
(* Within one use of the USRP use_uhd goes off once, and only by failing:  *)
(* a snapshot begun in it that has use_uhd on is of before that, one that  *)
(* has it off is of after.                                                 *)
(***************************************************************************)
Sound(x, using, lost) == ~x.old => IF x.useUhd THEN using \/ lost ELSE ~using

(* The warning is read after use_uhd, and stored before it. *)
Explains(x, lost) == ~x.old /\ ~x.useUhd /\ lost => x.warning

(* Snapshots are read, sent and applied in one order: after a new one none is old. *)
InOrder(c) ==
  /\ server[c].read = 0 => ~server[c].snapshot.old
  /\ server[c].snapshot.old =>
       /\ mirror[c].old
       /\ \A k \in 1 .. Len(down[c]) : down[c][k] # Error => down[c][k].old
  /\ \A k \in 1 .. Len(down[c]) :
       down[c][k] # Error /\ down[c][k].old =>
         /\ mirror[c].old
         /\ \A j \in 1 .. k : down[c][j] # Error => down[c][j].old

(* What is being read, under way, and in the mirror. *)
ReadInv(c) ==
  /\ server[c].read >= 1 => Sound(server[c].snapshot, vm.useUhd, failed)
  /\ server[c].read = 3 => Explains(server[c].snapshot, failed)

DownInv(c) ==
  \A k \in 1 .. Len(down[c]) : down[c][k] # Error =>
    Sound(down[c][k], vm.useUhd, failed) /\ Explains(down[c][k], failed)

MirrorInv(c) ==
  /\ ~mirror[c].old /\ mirror[c].useUhd => vm.useUhd \/ failed
  /\ c \in saw => /\ ~mirror[c].old /\ Sound(mirror[c], vm.useUhd, failed)
                  /\ vm.useUhd \/ failed

(* A command that makes the failure history is on its way from c, or taken. *)
Switches(msgs) == Contains(msgs, {"SetUhdEnabled"} \X BOOLEAN)

(***************************************************************************)
(* A window that saw the USRP shows it, or shows why not, or has the       *)
(* warning in its mirror and has yet to draw it.                           *)
(***************************************************************************)
ToldInv(c) ==
  c \in saw /\ ~Switches(cmds) /\ ~Switches(up[c]) =>
    /\ ~web[c].useUhd => failed /\ web[c].warning
    /\ web[c].useUhd /\ ~mirror[c].useUhd => failed /\ mirror[c].warning

ClientInv(c) == InOrder(c) /\ ReadInv(c) /\ DownInv(c) /\ MirrorInv(c) /\ ToldInv(c)

BrowserInv == headless => KeptWarning /\ \A c \in Client : ClientInv(c)

-----------------------------------------------------------------------------
(* A browser's own frequency. *)

LEMMA ContainsAppend ==
  ASSUME NEW S, NEW msgs \in Seq(S), NEW msg \in S, NEW kind
  PROVE  Contains(Append(msgs, msg), kind) <=> Contains(msgs, kind) \/ msg \in kind
<1> DEFINE more == Append(msgs, msg)
           n == Len(msgs)
<1>1. /\ n \in Nat /\ Len(more) = n + 1 /\ more[n + 1] = msg
      /\ \A k \in 1 .. n : more[k] = msgs[k]
  BY AppendProperties, LenProperties
<1> HIDE DEF more, n
<1>2. /\ n + 1 \in 1 .. n + 1 /\ \A k \in 1 .. n : k \in 1 .. n + 1
      /\ \A k \in 1 .. n + 1 : k = n + 1 \/ k \in 1 .. n
  BY <1>1
<1>3. Contains(more, kind) <=> Contains(msgs, kind) \/ msg \in kind
  BY <1>1, <1>2 DEF Contains, n
<1> QED
  BY <1>3 DEF more

LEMMA ContainsTail ==
  ASSUME NEW S, NEW msgs \in Seq(S), msgs # <<>>, NEW kind
  PROVE  Contains(msgs, kind) <=> Contains(Tail(msgs), kind) \/ Head(msgs) \in kind
<1> DEFINE rest == Tail(msgs)
           n == Len(rest)
<1>1. /\ n \in Nat /\ Len(msgs) = n + 1 /\ Head(msgs) = msgs[1]
      /\ \A k \in 1 .. n : rest[k] = msgs[k + 1]
  BY HeadTailProperties, LenProperties
<1> HIDE DEF rest, n
<1>2. \A k \in 2 .. n + 1 : k - 1 \in 1 .. n /\ rest[k - 1] = msgs[k]
  <2> TAKE k \in 2 .. n + 1
  <2>1. k - 1 \in 1 .. n /\ (k - 1) + 1 = k
    BY <1>1
  <2> QED
    BY <1>1, <2>1
<1>3. /\ \A k \in 1 .. n : k + 1 \in 2 .. n + 1
      /\ 1 \in 1 .. n + 1 /\ \A k \in 1 .. n + 1 : k = 1 \/ k \in 2 .. n + 1
      /\ \A k \in 2 .. n + 1 : k \in 1 .. n + 1
  BY <1>1
<1>4. (\E k \in 1 .. n : rest[k] \in kind) <=> \E k \in 2 .. n + 1 : msgs[k] \in kind
  BY <1>1, <1>2, <1>3
<1>5. Contains(msgs, kind) <=> Contains(rest, kind) \/ Head(msgs) \in kind
  BY <1>1, <1>3, <1>4 DEF Contains, n
<1> QED
  BY <1>5 DEF rest

LEMMA ContainsNothing ==
  ASSUME NEW kind
  PROVE  ~Contains(<<>>, kind)
<1>1. Len(<<>>) = 0 /\ ~\E k \in 1 .. 0 : TRUE
  BY EmptySeq
<1> QED
  BY <1>1 DEF Contains

LEMMA TunesAppend ==
  ASSUME NEW S, NEW msgs \in Seq(S), NEW msg \in S, NEW freq
  PROVE  /\ Tunes(Append(msgs, msg)) <=> Tunes(msgs) \/ msg \in Tune
         /\ msg \in Tune => (EndsOn(Append(msgs, msg), freq) <=> msg[2] = freq)
         /\ msg \notin Tune => (EndsOn(Append(msgs, msg), freq) <=> EndsOn(msgs, freq))
<1> DEFINE more == Append(msgs, msg)
           n == Len(msgs)
<1>1. /\ n \in Nat /\ Len(more) = n + 1 /\ more[n + 1] = msg
      /\ \A k \in 1 .. n : more[k] = msgs[k]
  BY AppendProperties, LenProperties
<1> HIDE DEF more, n
<1>2. Tunes(more) <=> Tunes(msgs) \/ msg \in Tune
  BY ContainsAppend DEF Tunes, more
<1>3. ASSUME msg \in Tune
      PROVE  EndsOn(more, freq) <=> msg[2] = freq
  <2>1. \A k \in 1 .. n : n + 1 \in k + 1 .. n + 1
    BY <1>1
  <2>2. n + 1 \in 1 .. n + 1 /\ ~\E j \in (n + 1) + 1 .. n + 1 : TRUE
    BY <1>1
  <2>3. ASSUME msg[2] = freq, NEW k \in 1 .. n + 1
        PROVE  more[k][2] = freq \/ \E j \in k + 1 .. n + 1 : more[j] \in Tune
    <3>1. k = n + 1 \/ k \in 1 .. n
      BY <1>1
    <3> QED
      BY <1>1, <1>3, <2>1, <2>3, <3>1
  <2> QED
    BY <1>1, <1>3, <2>2, <2>3 DEF EndsOn
<1>4. ASSUME msg \notin Tune
      PROVE  EndsOn(more, freq) <=> EndsOn(msgs, freq)
  <2>1. ASSUME NEW k \in 1 .. n
        PROVE  (\E j \in k + 1 .. n + 1 : more[j] \in Tune)
                 <=> (\E j \in k + 1 .. n : msgs[j] \in Tune)
    <3>1. \A j \in k + 1 .. n + 1 : j = n + 1 \/ j \in k + 1 .. n
      BY <1>1
    <3>2. \A j \in k + 1 .. n : j \in 1 .. n /\ j \in k + 1 .. n + 1
      BY <1>1
    <3> QED
      BY <1>1, <1>4, <3>1, <3>2
  <2>2. /\ \A k \in 1 .. n : k \in 1 .. n + 1
        /\ \A k \in 1 .. n + 1 : k = n + 1 \/ k \in 1 .. n
    BY <1>1
  <2>3. EndsOn(more, freq) <=> \A k \in 1 .. n :
          more[k] \in Tune => more[k][2] = freq \/ \E j \in k + 1 .. n + 1 : more[j] \in Tune
    BY <1>1, <1>4, <2>2 DEF EndsOn
  <2> QED
    BY <1>1, <2>1, <2>3 DEF EndsOn, n
<1> QED
  BY <1>2, <1>3, <1>4 DEF more

LEMMA TunesTail ==
  ASSUME NEW S, NEW msgs \in Seq(S), msgs # <<>>, NEW freq
  PROVE  /\ Tunes(msgs) <=> Tunes(Tail(msgs)) \/ Head(msgs) \in Tune
         /\ EndsOn(msgs, freq) =>
              /\ EndsOn(Tail(msgs), freq)
              /\ Head(msgs) \in Tune => Head(msgs)[2] = freq \/ Tunes(Tail(msgs))
<1> DEFINE rest == Tail(msgs)
           n == Len(rest)
<1>1. /\ n \in Nat /\ Len(msgs) = n + 1 /\ Head(msgs) = msgs[1]
      /\ \A k \in 1 .. n : rest[k] = msgs[k + 1]
  BY HeadTailProperties, LenProperties
<1> HIDE DEF rest, n
<1>2. \A k \in 2 .. n + 1 : k - 1 \in 1 .. n /\ rest[k - 1] = msgs[k]
  <2> TAKE k \in 2 .. n + 1
  <2>1. k - 1 \in 1 .. n /\ (k - 1) + 1 = k
    BY <1>1
  <2> QED
    BY <1>1, <2>1
<1>3. \A k \in 1 .. n : k + 1 \in 2 .. n + 1
  BY <1>1
<1>4. /\ 1 \in 1 .. n + 1 /\ \A k \in 1 .. n + 1 : k = 1 \/ k \in 2 .. n + 1
      /\ \A k \in 2 .. n + 1 : k \in 1 .. n + 1
  BY <1>1
<1>5. Tunes(msgs) <=> Tunes(rest) \/ msgs[1] \in Tune
  BY <1>1, ContainsTail DEF Tunes, rest
<1>6. ASSUME EndsOn(msgs, freq)
      PROVE  EndsOn(rest, freq)
  <2> SUFFICES ASSUME NEW k \in 1 .. n, rest[k] \in Tune, rest[k][2] # freq
               PROVE  \E j \in k + 1 .. n : rest[j] \in Tune
    BY DEF EndsOn, n
  <2>1. msgs[k + 1] \in Tune /\ msgs[k + 1][2] # freq /\ k + 1 \in 1 .. n + 1
    BY <1>1, <1>3, <1>4
  <2>2. PICK j \in (k + 1) + 1 .. n + 1 : msgs[j] \in Tune
    BY <1>1, <1>6, <2>1 DEF EndsOn
  <2>3. j - 1 \in k + 1 .. n /\ j \in 2 .. n + 1
    BY <1>1
  <2> QED
    BY <1>2, <2>2, <2>3
<1>7. ASSUME EndsOn(msgs, freq), msgs[1] \in Tune, msgs[1][2] # freq
      PROVE  Tunes(rest)
  <2>1. PICK j \in 1 + 1 .. n + 1 : msgs[j] \in Tune
    BY <1>1, <1>4, <1>7 DEF EndsOn
  <2>2. j \in 2 .. n + 1
    BY <1>1
  <2> QED
    BY <1>2, <2>1, <2>2 DEF Tunes, Contains, n
<1> QED
  BY <1>1, <1>5, <1>6, <1>7 DEF rest

LEMMA TunesNothing ==
  ASSUME NEW freq
  PROVE  ~Tunes(<<>>) /\ EndsOn(<<>>, freq)
<1>1. Len(<<>>) = 0 /\ ~\E k \in 1 .. 0 : TRUE
  BY EmptySeq
<1> QED
  BY <1>1 DEF Tunes, Contains, EndsOn


LEMMA TuneFacts ==
  /\ Tune \subseteq Command /\ Malformed \notin Tune
  /\ \A arg : <<"SetUhdEnabled", arg>> \notin Tune /\ <<"SetUhdArgs", arg>> \notin Tune
  /\ \A f \in Freq : <<"SetUhdFreqHz", f>> \in Tune /\ <<"SetUhdFreqHz", f>>[2] = f
<1>1. Tune \subseteq Command
  BY DEF Tune, Command
<1>2. \A arg : <<"SetUhdEnabled", arg>> \notin Tune /\ <<"SetUhdArgs", arg>> \notin Tune
  BY DEF Tune
<1>3. \A f \in Freq : <<"SetUhdFreqHz", f>> \in Tune /\ <<"SetUhdFreqHz", f>>[2] = f
  BY DEF Tune
<1> QED
  BY <1>1, <1>2, <1>3, WebAssumption

(* What the loop's own steps do to the channel and the frequency. *)
LEMMA LoopTunes ==
  ASSUME TypeOK, Loop
  PROVE  \/ cmds' = cmds /\ vm'.freq = vm.freq
         \/ /\ cmds # <<>> /\ cmds' = Tail(cmds)
            /\ vm'.freq = IF Head(cmds) \in Tune THEN Head(cmds)[2] ELSE vm.freq
<1>1. vm \in Model
  BY DEF TypeOK, Model
<1>2. CASE ApplyCommand
  <2>1. Head(cmds) \in Command /\ cmds # <<>> /\ cmds' = Tail(cmds)
        /\ vm' = Applied(vm, Head(cmds)[1], Head(cmds)[2])
    BY <1>2, HeadTailProperties DEF ApplyCommand, TypeOK
  <2>2. CASE Head(cmds) \in Tune
    BY <1>1, <2>1, <2>2 DEF Tune, Applied, Retuned, Model
  <2>3. CASE Head(cmds) \notin Tune
    <3>1. Head(cmds)[1] \in {"SetUhdEnabled", "SetUhdArgs"}
      BY <2>1, <2>3 DEF Command, Tune
    <3> QED
      BY <1>1, <2>1, <2>3, <3>1 DEF Applied, Model
  <2> QED
    BY <2>1, <2>2, <2>3
<1>3. CASE ~ApplyCommand
  BY <1>1, <1>3 DEF Loop, NoRebuild, RetuneDevice, UnparkDevice, BeginOpen, ParkDevice, RenewSim,
     Rebuilds, OpenSucceeds, OpenFails, Warn, FallBack, Settle, EndTick, Model
<1> QED
  BY <1>2, <1>3

LEMMA OwnerLoop ==
  ASSUME TypeOK, OwnerInv, RadioStep
  PROVE  OwnerInv'
<1>1. UNCHANGED <<up, web, tuners>> /\ Loop
  BY DEF RadioStep
<1>2. CASE cmds' = cmds /\ vm'.freq = vm.freq
  BY <1>1, <1>2 DEF OwnerInv, Tunes, EndsOn
<1>3. CASE /\ cmds # <<>> /\ cmds' = Tail(cmds)
           /\ vm'.freq = IF Head(cmds) \in Tune THEN Head(cmds)[2] ELSE vm.freq
  <2>1. /\ Tunes(cmds) <=> Tunes(cmds') \/ Head(cmds) \in Tune
        /\ \A f : EndsOn(cmds, f) =>
                    /\ EndsOn(cmds', f)
                    /\ Head(cmds) \in Tune => Head(cmds)[2] = f \/ Tunes(cmds')
    BY <1>3, TunesTail DEF TypeOK
  <2>2. \A c \in Client : Tunes(up[c])' = Tunes(up[c])
          /\ EndsOn(up[c], web[c].freq)' = EndsOn(up[c], web[c].freq)
    BY <1>1 DEF Tunes, Contains, EndsOn
  <2>3. \A c \in Client : EndsOn(cmds, web[c].freq)' = EndsOn(cmds', web[c].freq)
    BY <1>1 DEF EndsOn
  <2>4. Tunes(cmds)' = Tunes(cmds')
    BY DEF Tunes, Contains
  <2> QED
    BY <1>1, <1>3, <2>1, <2>2, <2>3, <2>4 DEF OwnerInv
<1> QED
  BY <1>1, <1>2, <1>3, LoopTunes

LEMMA OwnerDesktop ==
  ASSUME TypeOK, OwnerInv, DesktopStep
  PROVE  OwnerInv'
<1>1. UNCHANGED <<up, web>>
  BY DEF DesktopStep, linkVars
<1>2. vm' = vm
  BY DEF DesktopStep, ClickUhd, ClickSim, EnterArgs, ChooseFreq, Send, Frame, MirrorUhd,
         TakeWarning
<1>3. CASE ChooseFreq /\ tuners' = tuners \cup {Sim}
  <2>1. tuners' # {} /\ \A c \in Client : tuners' # {c}
    BY <1>3, WebAssumption
  <2>2. \A c \in Client : Tunes(up[c])' = Tunes(up[c])
    BY <1>1 DEF Tunes, Contains
  <2> QED
    BY <1>3, <2>1, <2>2 DEF OwnerInv
<1>4. CASE (ClickUhd \/ ClickSim \/ EnterArgs \/ Frame) /\ UNCHANGED tuners
  <2>1. \/ cmds' = cmds
        \/ \E msg \in Command \ Tune : cmds' = Append(cmds, msg)
    <3>1. CASE ClickUhd \/ ClickSim
      BY <3>1, TuneFacts DEF ClickUhd, ClickSim, Send, Command
    <3>2. CASE EnterArgs
      BY <3>2, TuneFacts DEF EnterArgs, Send, Command
    <3>3. CASE Frame
      BY <3>3 DEF Frame, MirrorUhd, TakeWarning
    <3> QED
      BY <1>4, <3>1, <3>2, <3>3
  <2>2. /\ Tunes(cmds') <=> Tunes(cmds)
        /\ \A f : EndsOn(cmds', f) <=> EndsOn(cmds, f)
    <3>1. CASE cmds' = cmds
      BY <3>1
    <3>2. ASSUME NEW msg \in Command \ Tune, cmds' = Append(cmds, msg)
          PROVE  /\ Tunes(cmds') <=> Tunes(cmds)
                 /\ \A f : EndsOn(cmds', f) <=> EndsOn(cmds, f)
      <4>1. cmds \in Seq(Command)
        BY DEF TypeOK
      <4> QED
        BY <3>2, <4>1, TunesAppend
    <3> QED
      BY <2>1, <3>1, <3>2
  <2>3. /\ Tunes(cmds)' = Tunes(cmds')
        /\ \A c \in Client : EndsOn(cmds, web[c].freq)' = EndsOn(cmds', web[c].freq)
    BY <1>1 DEF Tunes, Contains, EndsOn
  <2>4. \A c \in Client : Tunes(up[c])' = Tunes(up[c])
          /\ EndsOn(up[c], web[c].freq)' = EndsOn(up[c], web[c].freq)
    BY <1>1 DEF Tunes, Contains, EndsOn
  <2> QED
    BY <1>1, <1>2, <1>4, <2>2, <2>3, <2>4 DEF OwnerInv
<1> QED
  BY <1>3, <1>4 DEF DesktopStep

LEMMA OwnerForward ==
  ASSUME TypeOK, WebTypeOK, OwnerInv, NEW d \in Client, ForwardCommand(d)
  PROVE  OwnerInv'
<1> DEFINE msg == Head(up[d])
<1>1. /\ up[d] \in Seq(Upward) /\ up[d] # <<>> /\ msg \in Command
      /\ cmds' = Append(cmds, msg) /\ up' = [up EXCEPT ![d] = Tail(@)]
      /\ UNCHANGED <<vm, web, tuners>>
  BY Forwarded
<1>2. /\ up'[d] = Tail(up[d]) /\ \A c \in Client \ {d} : up'[c] = up[c]
  BY <1>1 DEF WebTypeOK
<1>3. /\ Tunes(up[d]) <=> Tunes(up'[d]) \/ msg \in Tune
      /\ \A f : EndsOn(up[d], f) =>
                  /\ EndsOn(up'[d], f)
                  /\ msg \in Tune => msg[2] = f \/ Tunes(up'[d])
  <2>1. /\ Tunes(up[d]) <=> Tunes(Tail(up[d])) \/ Head(up[d]) \in Tune
        /\ \A f : EndsOn(up[d], f) =>
             /\ EndsOn(Tail(up[d]), f)
             /\ Head(up[d]) \in Tune => Head(up[d])[2] = f \/ Tunes(Tail(up[d]))
    BY <1>1, TunesTail
  <2> QED
    BY <1>2, <2>1
<1>4. /\ Tunes(cmds') <=> Tunes(cmds) \/ msg \in Tune
      /\ \A f : msg \in Tune => (EndsOn(cmds', f) <=> msg[2] = f)
      /\ \A f : msg \notin Tune => (EndsOn(cmds', f) <=> EndsOn(cmds, f))
  BY <1>1, TunesAppend DEF TypeOK
<1>5. /\ Tunes(cmds)' = Tunes(cmds')
      /\ \A c \in Client : /\ EndsOn(cmds, web[c].freq)' = EndsOn(cmds', web[c].freq)
                           /\ Tunes(up[c])' = Tunes(up'[c])
                           /\ EndsOn(up[c], web[c].freq)' = EndsOn(up'[c], web[c].freq)
  BY <1>1 DEF Tunes, Contains, EndsOn
<1> HIDE DEF msg
<1>6. ASSUME tuners = {}
      PROVE  ~Tunes(cmds')
  BY <1>3, <1>4, <1>6 DEF OwnerInv
<1>7. ASSUME NEW c \in Client, c \notin tuners
      PROVE  ~Tunes(up'[c])
  BY <1>2, <1>3, <1>7 DEF OwnerInv
<1>8. ASSUME NEW c \in Client, tuners = {c}
      PROVE  /\ EndsOn(up'[c], web[c].freq)
             /\ ~Tunes(up'[c]) => EndsOn(cmds', web[c].freq)
             /\ ~Tunes(up'[c]) /\ ~Tunes(cmds') => vm.freq = web[c].freq
  <2>1. CASE c = d
    BY <1>3, <1>4, <1>8, <2>1 DEF OwnerInv
  <2>2. CASE c # d
    <3>1. msg \notin Tune
      BY <1>3, <1>8, <2>2 DEF OwnerInv
    <3> QED
      BY <1>2, <1>4, <1>8, <2>2, <3>1 DEF OwnerInv
  <2> QED
    BY <2>1, <2>2
<1> QED
  BY <1>1, <1>5, <1>6, <1>7, <1>8 DEF OwnerInv

(* A step that leaves the channel, the frequencies and the tuning commands alone. *)
LEMMA OwnerKept ==
  ASSUME OwnerInv, UNCHANGED <<cmds, vm, tuners>>,
         \A c \in Client : /\ web'[c].freq = web[c].freq
                           /\ Tunes(up'[c]) <=> Tunes(up[c])
                           /\ \A f : EndsOn(up[c], f) => EndsOn(up'[c], f)
  PROVE  OwnerInv'
<1>1. /\ Tunes(cmds)' = Tunes(cmds)
      /\ \A c \in Client : /\ EndsOn(cmds, web[c].freq)' = EndsOn(cmds, web[c].freq)
                           /\ Tunes(up[c])' = Tunes(up'[c])
                           /\ EndsOn(up[c], web[c].freq)' = EndsOn(up'[c], web[c].freq)
  BY DEF Tunes, Contains, EndsOn
<1> QED
  BY <1>1 DEF OwnerInv

LEMMA OwnerUser ==
  ASSUME TypeOK, WebTypeOK, OwnerInv, NEW d \in Client, User(d)
  PROVE  OwnerInv'
<1>0. UNCHANGED <<cmds, vm>>
  BY ProgramRests
<1>1. ASSUME NEW msg \in Upward, Click(d, msg)
      PROVE  /\ Tunes(up'[d]) <=> Tunes(up[d]) \/ msg \in Tune
             /\ \A f : msg \in Tune => (EndsOn(up'[d], f) <=> msg[2] = f)
             /\ \A f : msg \notin Tune => (EndsOn(up'[d], f) <=> EndsOn(up[d], f))
             /\ \A c \in Client \ {d} : up'[c] = up[c]
  <2>1. up[d] \in Seq(Upward) /\ up'[d] = Append(up[d], msg)
        /\ \A c \in Client \ {d} : up'[c] = up[c]
    BY <1>1 DEF Click, WebTypeOK, Upward
  <2> QED
    BY <2>1, TunesAppend
<1>2. ASSUME NEW msg \in Upward \ Tune, Click(d, msg), UNCHANGED tuners,
             \A c \in Client : web'[c].freq = web[c].freq
      PROVE  OwnerInv'
  BY <1>0, <1>1, <1>2, OwnerKept
<1>3. CASE Reload(d)
  BY <1>0, <1>3, OwnerKept DEF Reload
<1>4. CASE WebClickUhd(d)
  <2>1. <<"SetUhdEnabled", TRUE>> \in Upward \ Tune
    BY TuneFacts DEF Upward, Command
  <2>2. \A c \in Client : web'[c].freq = web[c].freq
    BY <1>4 DEF WebClickUhd, WebTypeOK
  <2> QED
    BY <1>2, <1>4, <2>1, <2>2 DEF WebClickUhd
<1>5. CASE WebClickSim(d)
  <2>1. <<"SetUhdEnabled", FALSE>> \in Upward \ Tune
    BY TuneFacts DEF Upward, Command
  <2>2. \A c \in Client : web'[c].freq = web[c].freq
    BY <1>5 DEF WebClickSim, WebTypeOK
  <2> QED
    BY <1>2, <1>5, <2>1, <2>2 DEF WebClickSim
<1>6. CASE SendMalformed(d)
  BY <1>2, <1>6, TuneFacts DEF SendMalformed, Upward
<1>7. CASE WebChooseFreq(d)
  <2>1. PICK f \in Freq : Click(d, <<"SetUhdFreqHz", f>>) /\ web' = [web EXCEPT ![d].freq = f]
    BY <1>7 DEF WebChooseFreq
  <2>2. /\ <<"SetUhdFreqHz", f>> \in Upward /\ <<"SetUhdFreqHz", f>> \in Tune
        /\ <<"SetUhdFreqHz", f>>[2] = f
    BY TuneFacts DEF Upward
  <2>3. /\ Tunes(up'[d]) /\ EndsOn(up'[d], f) /\ \A c \in Client \ {d} : up'[c] = up[c]
    BY <1>1, <2>1, <2>2
  <2>4. web'[d].freq = f /\ tuners' = tuners \cup {d}
    BY <1>7, <2>1 DEF WebChooseFreq, WebTypeOK
  <2>5. \A c \in Client : /\ Tunes(up[c])' = Tunes(up'[c])
                          /\ EndsOn(up[c], web[c].freq)' = EndsOn(up'[c], web'[c].freq)
    BY DEF Tunes, Contains, EndsOn
  <2>6. tuners' # {} /\ \A c \in Client : tuners' = {c} => c = d
    BY <2>4
  <2>7. \A c \in Client : c \notin tuners' => ~Tunes(up'[c])
    BY <2>3, <2>4 DEF OwnerInv
  <2>8. ASSUME NEW c \in Client, tuners' = {c}
        PROVE  EndsOn(up[c], web[c].freq)' /\ Tunes(up[c])'
    BY <2>3, <2>4, <2>5, <2>6, <2>8
  <2> QED
    BY <2>5, <2>6, <2>7, <2>8 DEF OwnerInv
<1> QED
  BY <1>3, <1>4, <1>5, <1>6, <1>7 DEF User

LEMMA OwnerServed ==
  ASSUME TypeOK, WebTypeOK, OwnerInv, NEW d \in Client,
         Serve(d) \/ ApplyMessage(d) \/ DrawFrame(d)
  PROVE  OwnerInv'
<1>0. UNCHANGED <<cmds, vm, tuners>>
  BY ProgramRests DEF Serve, ReadField, SendSnapshot, RefuseText, ApplyMessage, DrawFrame
<1>1. CASE RefuseText(d)
  <2>1. /\ up[d] \in Seq(Upward) /\ up[d] # <<>> /\ Head(up[d]) \notin Tune
        /\ up'[d] = Tail(up[d]) /\ \A c \in Client \ {d} : up'[c] = up[c]
        /\ web' = web
    BY <1>1, TuneFacts DEF RefuseText, Listening, WebTypeOK, Upward
  <2> QED
    BY <1>0, <2>1, TunesTail, OwnerKept
<1>2. CASE ReadField(d) \/ SendSnapshot(d) \/ ApplyMessage(d)
  <2>1. UNCHANGED <<up, web>>
    BY <1>2 DEF ReadField, SendSnapshot, ApplyMessage
  <2> QED
    BY <1>0, <2>1, OwnerKept
<1>3. CASE DrawFrame(d)
  <2>1. up' = up /\ web' = [web EXCEPT ![d] = Followed(d)]
    BY <1>3 DEF DrawFrame, linkVars
  <2>2. Followed(d).freq = web[d].freq
    BY DEF Followed, WebTypeOK
  <2>3. \A c \in Client : web'[c].freq = web[c].freq
    BY <2>1, <2>2 DEF WebTypeOK
  <2> QED
    BY <1>0, <2>1, <2>3, OwnerKept
<1> QED
  BY <1>1, <1>2, <1>3 DEF Serve

LEMMA OwnerLost ==
  ASSUME TypeOK, WebTypeOK, OwnerInv, NEW d \in Client, LoseConnection(d)
  PROVE  OwnerInv'
<1>1. /\ UNCHANGED <<cmds, vm>> /\ up'[d] = <<>>
      /\ \A c \in Client \ {d} : up'[c] = up[c] /\ web'[c] = web[c]
      /\ tuners' = IF d \in tuners THEN tuners \cup {Sim} ELSE tuners
  BY DEF LoseConnection, WebTypeOK, vars
<1>2. /\ \A c \in Client : Tunes(up'[c]) => Tunes(up[c])
      /\ Tunes(cmds)' = Tunes(cmds)
      /\ \A c \in Client : Tunes(up[c])' = Tunes(up'[c])
  BY <1>1, TunesNothing DEF Tunes, Contains
<1>3. CASE d \in tuners
  <2>1. tuners' # {} /\ \A c \in Client : tuners' # {c}
    BY <1>1, <1>3, WebAssumption
  <2> QED
    BY <1>1, <1>2, <1>3, <2>1 DEF OwnerInv
<1>4. CASE d \notin tuners
  <2>1. tuners' = tuners /\ \A c \in Client : tuners = {c} => c # d
    BY <1>1, <1>4
  <2>2. \A c \in Client \ {d} :
          /\ EndsOn(up[c], web[c].freq)' = EndsOn(up[c], web[c].freq)
          /\ EndsOn(cmds, web[c].freq)' = EndsOn(cmds, web[c].freq)
    BY <1>1 DEF EndsOn
  <2> QED
    BY <1>1, <1>2, <2>1, <2>2 DEF OwnerInv
<1> QED
  BY <1>3, <1>4

LEMMA OwnerStep ==
  ASSUME TypeOK, WebTypeOK, OwnerInv, [WebNext]_allVars
  PROVE  OwnerInv'
<1>1. CASE UNCHANGED allVars
  <2>1. UNCHANGED <<cmds, vm, up, web, tuners>>
    BY <1>1 DEF allVars, vars, webVars, linkVars
  <2> QED
    BY <2>1, OwnerKept
<1> QED
  BY <1>1, OwnerLoop, OwnerDesktop, OwnerForward, OwnerUser, OwnerServed, OwnerLost DEF WebNext

(***************************************************************************)
(* A browser that alone tunes gets the frequency it set last, for any      *)
(* number of commands in any order, and however connections break.         *)
(***************************************************************************)
THEOREM OwnersKeepControl == WebSpec => []OwnerInControl
<1>1. WebInit => OwnerInv
  <2> SUFFICES ASSUME WebInit
               PROVE  OwnerInv
    OBVIOUS
  <2>1. cmds = <<>> /\ tuners = {} /\ \A c \in Client : up[c] = <<>>
    BY DEF WebInit, Init
  <2> QED
    BY <2>1, TunesNothing DEF OwnerInv
<1>2. TypeOK /\ WebTypeOK /\ OwnerInv /\ [WebNext]_allVars => OwnerInv'
  BY OwnerStep
<1>3. OwnerInv /\ SwitchInv => OwnerInControl
  <2> SUFFICES ASSUME OwnerInv, SwitchInv, NEW c \in Client, WebQuiet(c), tuners = {c}
               PROVE  vm.freq = web[c].freq /\ (driver # Sim => driver.freq = web[c].freq)
    BY DEF OwnerInControl
  <2>1. ~Tunes(up[c]) /\ ~Tunes(cmds)
    BY TunesNothing DEF WebQuiet
  <2> QED
    BY <2>1 DEF OwnerInv, SwitchInv, DriverAgrees, WebQuiet
<1> QED
  BY <1>1, <1>2, <1>3, WebTyping, WebSwitchInv, PTL DEF WebSpec


-----------------------------------------------------------------------------
(* The desktop window beside browsers. *)

LEMMA WebWarnStep ==
  ASSUME TypeOK, WebTypeOK, WarnInv, [WebNext]_allVars
  PROVE  WarnInv'
<1>1. CASE RadioStep \/ DesktopStep
  BY <1>1, ProgramStep, WarnStep
<1>2. CASE ~(RadioStep \/ DesktopStep)
  <2>1. UNCHANGED <<vm, warning, pc, view, failed, seen>>
    BY <1>2, ProgramRests DEF WebNext, ForwardCommand, allVars, vars, loopVars
  <2>2. Pending => Pending'
    <3>1. ASSUME NEW c \in Client, ForwardCommand(c)
          PROVE  Pending => Pending'
      BY <3>1, Forwarded, SentIsPending
    <3>2. CASE cmds' = cmds
      BY <3>2 DEF Pending
    <3> QED
      BY <1>2, <3>1, <3>2, ProgramRests DEF WebNext, allVars, vars
  <2> QED
    BY <2>1, <2>2 DEF WarnInv, SeenInv, OnItsWay
<1> QED
  BY <1>1, <1>2

LEMMA WebWarnInv == WebSpec => []WarnInv
<1>1. WebInit => WarnInv
  BY WarnInit DEF WebInit
<1>2. TypeOK /\ WebTypeOK /\ WarnInv /\ [WebNext]_allVars => WarnInv'
  BY WebWarnStep
<1> QED
  BY <1>1, <1>2, WebTyping, PTL DEF WebSpec

(***************************************************************************)
(* The desktop window is told why the USRP went, whatever browsers do: it  *)
(* is the one that takes the warning.                                      *)
(***************************************************************************)
THEOREM DesktopIsTold == WebSpec => []SeenFailureShown
BY WebWarnInv, WarnShown, PTL

-----------------------------------------------------------------------------
(* A browser without a desktop window beside it. *)

LEMMA Failures == WarnInv => FailInv
BY DEF WarnInv, FailInv

(* SetUhdEnabled is about to be applied. *)
Restarts == pc = "drain" /\ cmds # <<>> /\ Head(cmds)[1] = "SetUhdEnabled"

(* Within one use of the USRP, the loop can only lose it, and says so first. *)
LEMMA LoopLoses ==
  ASSUME TypeOK, FailInv, Loop, ~Restarts
  PROVE  /\ failed => failed'
         /\ vm'.useUhd => vm.useUhd
         /\ vm.useUhd /\ ~vm'.useUhd => failed'
         /\ failed' /\ ~failed => vm.useUhd /\ vm'.useUhd
<1>1. vm \in Model
  BY DEF TypeOK, Model
<1>2. CASE ApplyCommand
  <2>1. Head(cmds) \in Command /\ Head(cmds)[1] # "SetUhdEnabled"
    BY <1>2, HeadTailProperties DEF ApplyCommand, Restarts, TypeOK
  <2>2. Head(cmds)[1] \in {"SetUhdArgs", "SetUhdFreqHz"}
    BY <2>1 DEF Command
  <2>3. vm'.useUhd = vm.useUhd
    BY <1>1, <1>2, <2>2 DEF ApplyCommand, Applied, Retuned, Model
  <2>4. failed' = failed
    BY <1>2, <2>1 DEF ApplyCommand
  <2> QED
    BY <2>3, <2>4
<1>3. CASE OpenFails
  <2>1. failed' /\ vm'.useUhd = vm.useUhd /\ vm.useUhd
    BY <1>1, <1>3 DEF OpenFails, FailInv, Model
  <2> QED
    BY <2>1
<1>4. CASE FallBack
  <2>1. failed /\ failed' = failed /\ ~vm'.useUhd /\ vm.useUhd
    BY <1>1, <1>4 DEF FallBack, FailInv, Model
  <2> QED
    BY <2>1
<1>5. CASE ~(ApplyCommand \/ OpenFails \/ FallBack)
  <2>1. failed' = failed /\ vm'.useUhd = vm.useUhd
    BY <1>1, <1>5 DEF Loop, NoRebuild, RetuneDevice, UnparkDevice, BeginOpen, ParkDevice,
       RenewSim, Rebuilds, OpenSucceeds, Warn, Settle, EndTick, Model
  <2> QED
    BY <2>1
<1> QED
  BY <1>2, <1>3, <1>4, <1>5

LEMMA LoopKeepsWarning ==
  ASSUME TypeOK, FailInv, KeptWarning, Loop
  PROVE  KeptWarning'
<1>1. vm \in Model
  BY DEF TypeOK, Model
<1>2. CASE ApplyCommand
  <2>1. pc' = "drain" /\ Head(cmds) \in Command
    BY <1>2, HeadTailProperties DEF ApplyCommand, loopVars, TypeOK
  <2>2. CASE Head(cmds)[1] = "SetUhdEnabled"
    BY <1>2, <2>1, <2>2 DEF ApplyCommand, KeptWarning
  <2>3. CASE Head(cmds)[1] # "SetUhdEnabled"
    <3>1. failed' = failed
      BY <1>2, <2>3 DEF ApplyCommand
    <3>2. Head(cmds)[1] \in {"SetUhdArgs", "SetUhdFreqHz"}
      BY <2>1, <2>3 DEF Command
    <3>3. vm'.useUhd = vm.useUhd
      BY <1>1, <1>2, <3>2 DEF ApplyCommand, Applied, Retuned, Model
    <3>4. Head(cmds) # <<"SetUhdEnabled", TRUE>>
      <4>1. <<"SetUhdEnabled", TRUE>>[1] = "SetUhdEnabled"
        OBVIOUS
      <4> QED
        BY <2>3, <4>1
    <3>5. warning' = (warning /\ Head(cmds) # <<"SetUhdEnabled", TRUE>>)
      BY <1>2 DEF ApplyCommand
    <3>6. warning => warning'
      BY <3>4, <3>5
    <3> QED
      BY <2>1, <3>1, <3>3, <3>6 DEF KeptWarning
  <2> QED
    BY <2>2, <2>3
<1>3. CASE OpenFails
  <2>1. vm'.useUhd /\ pc' = "failed"
    BY <1>1, <1>3 DEF OpenFails, FailInv, Model
  <2> QED
    BY <2>1 DEF KeptWarning
<1>4. CASE Warn
  BY <1>4 DEF Warn, KeptWarning
<1>5. CASE FallBack
  <2>1. warning /\ warning' = warning
    BY <1>5 DEF FallBack, KeptWarning
  <2> QED
    BY <2>1 DEF KeptWarning
<1>6. CASE ~(ApplyCommand \/ OpenFails \/ Warn \/ FallBack)
  <2>1. failed' = failed /\ vm'.useUhd = vm.useUhd /\ warning' = warning /\ pc' # "warned"
    BY <1>1, <1>6 DEF Loop, NoRebuild, RetuneDevice, UnparkDevice, BeginOpen, ParkDevice,
       RenewSim, Rebuilds, OpenSucceeds, Settle, EndTick, Model
  <2> QED
    BY <2>1 DEF KeptWarning
<1> QED
  BY <1>2, <1>3, <1>4, <1>5, <1>6

(* Whoever's snapshots, mirror and window a step leaves alone. *)
LEMMA ClientKept ==
  ASSUME NEW c \in Client, ClientInv(c), vm'.useUhd = vm.useUhd, failed' = failed,
         server'[c] = server[c], down'[c] = down[c], mirror'[c] = mirror[c], web'[c] = web[c],
         c \in saw' => c \in saw,
         Switches(cmds) \/ Switches(up[c]) => Switches(cmds') \/ Switches(up'[c])
  PROVE  ClientInv(c)'
<1>1. InOrder(c)' /\ ReadInv(c)' /\ DownInv(c)'
  BY DEF ClientInv, InOrder, ReadInv, DownInv, Sound, Explains
<1>2. MirrorInv(c)'
  BY DEF ClientInv, MirrorInv, Sound
<1>3. ToldInv(c)'
  <2>1. Switches(cmds)' = Switches(cmds') /\ Switches(up[c])' = Switches(up'[c])
    BY DEF Switches, Contains
  <2> QED
    BY <2>1 DEF ClientInv, ToldInv
<1> QED
  BY <1>1, <1>2, <1>3 DEF ClientInv

LEMMA RestartKeepsClients ==
  ASSUME WebTypeOK, NEW c \in Client, InOrder(c), Restarted
  PROVE  ClientInv(c)'
<1>1. /\ server'[c].read = server[c].read
      /\ server[c].read = 0 => server'[c] = server[c]
      /\ server[c].read # 0 => server'[c].snapshot = Outdated(server[c].snapshot)
      /\ Len(down'[c]) = Len(down[c])
      /\ \A k \in 1 .. Len(down[c]) :
           /\ down[c][k] = Error => down'[c][k] = Error
           /\ down[c][k] # Error => down'[c][k] = Outdated(down[c][k])
      /\ mirror'[c] = Outdated(mirror[c])
      /\ saw' = {}
  BY RestartedTyped DEF Restarted
<1>2. /\ \A k \in 1 .. Len(down[c]) : down[c][k] \in Downward
      /\ server[c].snapshot \in Snapshot /\ server[c].read \in 0 .. 3 /\ mirror[c] \in Snapshot
  BY FieldsRead, ElementOfSeq DEF WebTypeOK, Downward
<1>3. /\ mirror'[c].old
      /\ \A k \in 1 .. Len(down'[c]) : down'[c][k] # Error => down'[c][k].old
      /\ server'[c].read # 0 => server'[c].snapshot.old
      /\ server'[c].read = 0 => ~server'[c].snapshot.old
  BY <1>1, <1>2, OutdatedTyped DEF Downward, InOrder
<1>4. InOrder(c)'
  <2>1. ASSUME NEW k \in 1 .. Len(down'[c]), NEW j \in 1 .. k
        PROVE  j \in 1 .. Len(down'[c])
    <3>1. Len(down[c]) \in Nat
      BY LenProperties DEF WebTypeOK
    <3> QED
      BY <1>1, <3>1
  <2> QED
    BY <1>3, <2>1 DEF InOrder
<1>5. ReadInv(c)' /\ DownInv(c)'
  BY <1>1, <1>2, <1>3 DEF ReadInv, DownInv, Sound, Explains
<1>6. MirrorInv(c)' /\ ToldInv(c)'
  BY <1>1, <1>3 DEF MirrorInv, ToldInv
<1> QED
  BY <1>4, <1>5, <1>6 DEF ClientInv

LEMMA RadioKeepsClients ==
  ASSUME TypeOK, WebTypeOK, FailInv, RadioStep, NEW c \in Client, ClientInv(c)
  PROVE  ClientInv(c)'
<1>1. CASE Restarts
  BY <1>1, RestartKeepsClients DEF RadioStep, Restarts, ClientInv
<1>2. CASE ~Restarts
  <2>1. UNCHANGED <<saw, server, down, mirror, up, web>> /\ Loop
    BY <1>2 DEF RadioStep, Restarts
  <2>2. /\ failed => failed'
        /\ vm'.useUhd => vm.useUhd
        /\ vm.useUhd /\ ~vm'.useUhd => failed'
        /\ failed' /\ ~failed => vm.useUhd /\ vm'.useUhd
    BY <1>2, <2>1, LoopLoses
  <2>3. ASSUME NEW x, Sound(x, vm.useUhd, failed)
        PROVE  /\ Sound(x, vm'.useUhd, failed')
               /\ Explains(x, failed) => Explains(x, failed')
    BY <2>2, <2>3 DEF Sound, Explains
  <2>4. InOrder(c)' /\ ReadInv(c)' /\ DownInv(c)'
    BY <2>1, <2>3 DEF ClientInv, InOrder, ReadInv, DownInv
  <2>5. MirrorInv(c)'
    BY <2>1, <2>2, <2>3 DEF ClientInv, MirrorInv
  <2>6. Switches(cmds) => Switches(cmds')
    <3>1. CASE cmds' = cmds
      BY <3>1
    <3>2. CASE ApplyCommand
      <4>1. cmds \in Seq(Command) /\ cmds # <<>> /\ cmds' = Tail(cmds)
            /\ Head(cmds) \notin {"SetUhdEnabled"} \X BOOLEAN
        BY <1>2, <3>2 DEF ApplyCommand, Restarts, TypeOK
      <4> QED
        BY <4>1, ContainsTail DEF Switches
    <3> QED
      BY <2>1, <3>1, <3>2 DEF Loop, NoRebuild, RetuneDevice, UnparkDevice, BeginOpen, ParkDevice,
         RenewSim, Rebuilds, OpenSucceeds, OpenFails, Warn, FallBack, Settle, EndTick
  <2>7. ToldInv(c)'
    <3>1. Switches(cmds)' = Switches(cmds') /\ Switches(up[c])' = Switches(up[c])
      BY <2>1 DEF Switches, Contains
    <3> QED
      BY <2>1, <2>2, <2>6, <3>1 DEF ClientInv, ToldInv
  <2> QED
    BY <2>4, <2>5, <2>7 DEF ClientInv
<1> QED
  BY <1>1, <1>2


LEMMA ReadKeepsClient ==
  ASSUME TypeOK, WebTypeOK, KeptWarning, NEW c \in Client, ClientInv(c), ReadField(c)
  PROVE  ClientInv(c)'
<1> DEFINE n == server[c].read
           field == Fields[n + 1]
<1>1. server[c] \in Task /\ server[c].snapshot \in Snapshot /\ n \in 0 .. 2
  BY FieldsRead DEF ReadField, WebTypeOK, Task
<1>2. server'[c] = [server[c] EXCEPT !.read = @ + 1,
                       !.snapshot = [@ EXCEPT ![field] = Shared(field)]]
  BY DEF ReadField, WebTypeOK
<1>3. server'[c].read = n + 1 /\ server'[c].snapshot = [server[c].snapshot EXCEPT ![field] = Shared(field)]
  BY <1>1, <1>2 DEF Task
<1>4. /\ UNCHANGED <<cmds, vm, warning, failed, up, saw, web>>
      /\ down' = down /\ mirror' = mirror
  BY DEF ReadField, vars
<1>5. /\ server'[c].snapshot.old = server[c].snapshot.old
      /\ n = 0 => server'[c].snapshot.useUhd = vm.useUhd
      /\ n # 0 => server'[c].snapshot.useUhd = server[c].snapshot.useUhd
      /\ n = 2 => server'[c].snapshot.warning = warning
  <2>1. CASE n = 0
    <3>1. field = "useUhd" /\ Shared(field) = vm.useUhd
      BY <2>1, FieldsRead DEF Shared
    <3> QED
      BY <1>1, <1>3, <2>1, <3>1 DEF Snapshot
  <2>2. CASE n = 1
    <3>1. field = "freq"
      BY <2>2, FieldsRead
    <3> QED
      BY <1>1, <1>3, <2>2, <3>1 DEF Snapshot
  <2>3. CASE n = 2
    <3>1. field = "warning" /\ Shared(field) = warning
      BY <2>3, FieldsRead DEF Shared
    <3> QED
      BY <1>1, <1>3, <2>3, <3>1 DEF Snapshot
  <2> QED
    BY <1>1, <2>1, <2>2, <2>3
<1>6. server'[c].read \in 1 .. 3 /\ (server'[c].read = 3 <=> n = 2) /\ (n # 0 => n >= 1)
  BY <1>1, <1>3
<1> HIDE DEF n, field
<1>7. InOrder(c)'
  BY <1>4, <1>5, <1>6 DEF ClientInv, InOrder
<1>8. Sound(server'[c].snapshot, vm.useUhd, failed)
  BY <1>5, <1>6 DEF ClientInv, InOrder, ReadInv, Sound, n
<1>9. n = 2 => Explains(server'[c].snapshot, failed)
  BY <1>5, <1>8 DEF KeptWarning, Sound, Explains
<1>10. ReadInv(c)'
  BY <1>4, <1>6, <1>8, <1>9 DEF ReadInv
<1>11. DownInv(c)' /\ MirrorInv(c)'
  BY <1>4 DEF ClientInv, DownInv, MirrorInv
<1>12. ToldInv(c)'
  <2>1. Switches(cmds)' = Switches(cmds) /\ Switches(up[c])' = Switches(up[c])
    BY <1>4 DEF Switches, Contains
  <2> QED
    BY <1>4, <2>1 DEF ClientInv, ToldInv
<1> QED
  BY <1>7, <1>10, <1>11, <1>12 DEF ClientInv

LEMMA SendKeepsClient ==
  ASSUME TypeOK, WebTypeOK, NEW c \in Client, ClientInv(c), SendSnapshot(c)
  PROVE  ClientInv(c)'
<1> DEFINE x == server[c].snapshot
           n == Len(down[c])
<1>1. down[c] \in Seq(Downward) /\ x \in Downward /\ server[c].read = 3
  BY FieldsRead DEF SendSnapshot, WebTypeOK, Downward
<1>2. /\ server'[c] = [read |-> 0, snapshot |-> Blank, greeted |-> TRUE]
      /\ down'[c] = Append(down[c], x)
      /\ UNCHANGED <<cmds, vm, warning, failed, up, mirror, web, saw>>
  BY DEF SendSnapshot, WebTypeOK, vars
<1>3. /\ n \in Nat /\ Len(down'[c]) = n + 1 /\ down'[c][n + 1] = x
      /\ \A k \in 1 .. n : down'[c][k] = down[c][k]
  BY <1>1, <1>2, AppendProperties, LenProperties
<1>4. server'[c].read = 0 /\ ~server'[c].snapshot.old
  BY <1>2 DEF Blank
<1> HIDE DEF x, n
<1>5. InOrder(c)'
  <2> SUFFICES ASSUME NEW k \in 1 .. n + 1, down'[c][k] # Error, down'[c][k].old
               PROVE  /\ mirror[c].old
                      /\ \A j \in 1 .. k : down'[c][j] # Error => down'[c][j].old
    BY <1>2, <1>3, <1>4 DEF InOrder
  <2>1. CASE k = n + 1
    <3>1. mirror[c].old /\ \A j \in 1 .. n : down[c][j] # Error => down[c][j].old
      BY <1>3, <2>1 DEF ClientInv, InOrder, x, n
    <3>2. \A j \in 1 .. k : j = n + 1 \/ j \in 1 .. n
      BY <1>3, <2>1
    <3> QED
      BY <1>3, <2>1, <3>1, <3>2
  <2>2. CASE k # n + 1
    <3>1. k \in 1 .. n /\ \A j \in 1 .. k : j \in 1 .. n
      BY <1>3, <2>2
    <3> QED
      BY <1>3, <3>1 DEF ClientInv, InOrder, n
  <2> QED
    BY <2>1, <2>2
<1>6. ReadInv(c)'
  BY <1>4 DEF ReadInv
<1>7. DownInv(c)'
  <2>1. Sound(x, vm.useUhd, failed) /\ Explains(x, failed)
    BY <1>1 DEF ClientInv, ReadInv, x
  <2>2. \A k \in 1 .. n + 1 : k = n + 1 \/ k \in 1 .. n
    BY <1>3
  <2> QED
    BY <1>2, <1>3, <2>1, <2>2 DEF ClientInv, DownInv, n
<1>8. MirrorInv(c)'
  BY <1>2 DEF ClientInv, MirrorInv
<1>9. ToldInv(c)'
  <2>1. Switches(cmds)' = Switches(cmds) /\ Switches(up[c])' = Switches(up[c])
    BY <1>2 DEF Switches, Contains
  <2> QED
    BY <1>2, <2>1 DEF ClientInv, ToldInv
<1> QED
  BY <1>5, <1>6, <1>7, <1>8, <1>9 DEF ClientInv

LEMMA RefuseKeepsClient ==
  ASSUME TypeOK, WebTypeOK, NEW c \in Client, ClientInv(c), RefuseText(c)
  PROVE  ClientInv(c)'
<1> DEFINE n == Len(down[c])
<1>1. down[c] \in Seq(Downward) /\ Error \in Downward
  BY DEF WebTypeOK, Downward
<1>2. /\ down'[c] = Append(down[c], Error) /\ up'[c] = Tail(up[c])
      /\ UNCHANGED <<cmds, vm, warning, failed, server, mirror, web, saw>>
  BY DEF RefuseText, WebTypeOK, vars
<1>3. /\ n \in Nat /\ Len(down'[c]) = n + 1 /\ down'[c][n + 1] = Error
      /\ \A k \in 1 .. n : down'[c][k] = down[c][k]
  BY <1>1, <1>2, AppendProperties, LenProperties
<1> HIDE DEF n
<1>4. \A k \in 1 .. n + 1 : down'[c][k] # Error => k \in 1 .. n /\ down'[c][k] = down[c][k]
  <2> SUFFICES ASSUME NEW k \in 1 .. n + 1, down'[c][k] # Error
               PROVE  k \in 1 .. n /\ down'[c][k] = down[c][k]
    OBVIOUS
  <2>1. k # n + 1
    BY <1>3
  <2>2. k \in 1 .. n
    BY <1>3, <2>1
  <2> QED
    BY <1>3, <2>2
<1>5. \A k \in 1 .. n + 1 : \A j \in 1 .. k : j \in 1 .. n + 1
  BY <1>3
<1>6. InOrder(c)'
  BY <1>2, <1>3, <1>4, <1>5 DEF ClientInv, InOrder, n
<1>7. ReadInv(c)' /\ DownInv(c)' /\ MirrorInv(c)'
  BY <1>2, <1>3, <1>4 DEF ClientInv, ReadInv, DownInv, MirrorInv, n
<1>8. ToldInv(c)'
  <2>1. /\ up[c] \in Seq(Upward) /\ up[c] # <<>>
        /\ Head(up[c]) \notin {"SetUhdEnabled"} \X BOOLEAN
    BY WebAssumption DEF RefuseText, Listening, WebTypeOK, Upward, Command
  <2>2. Switches(up[c]) => Switches(up'[c])
    BY <1>2, <2>1, ContainsTail DEF Switches
  <2>3. Switches(cmds)' = Switches(cmds) /\ Switches(up[c])' = Switches(up'[c])
    BY <1>2 DEF Switches, Contains
  <2> QED
    BY <1>2, <2>2, <2>3 DEF ClientInv, ToldInv
<1> QED
  BY <1>6, <1>7, <1>8 DEF ClientInv

LEMMA ApplyKeepsClient ==
  ASSUME TypeOK, WebTypeOK, NEW c \in Client, ClientInv(c), ApplyMessage(c)
  PROVE  ClientInv(c)'
<1> DEFINE msg == Head(down[c])
           n == Len(down'[c])
<1>1. /\ down[c] \in Seq(Downward) /\ down[c] # <<>> /\ down'[c] = Tail(down[c])
      /\ mirror'[c] = IF msg = Error THEN mirror[c] ELSE msg
      /\ UNCHANGED <<cmds, vm, warning, failed, server, up, web, saw>>
  BY DEF ApplyMessage, Mirrored, WebTypeOK, Downward, vars
<1>2. /\ n \in Nat /\ Len(down[c]) = n + 1 /\ msg = down[c][1]
      /\ \A k \in 1 .. n : down'[c][k] = down[c][k + 1]
  BY <1>1, HeadTailProperties, LenProperties
<1>3. 1 \in 1 .. n + 1 /\ \A k \in 1 .. n : k + 1 \in 1 .. n + 1 /\ 1 \in 1 .. k + 1
  BY <1>2
<1>4. \A k \in 1 .. n : \A j \in 1 .. k : j \in 1 .. n /\ j + 1 \in 1 .. k + 1
  BY <1>2
<1> HIDE DEF msg, n
<1>5. InOrder(c)'
  <2>1. server[c].snapshot.old =>
          /\ mirror'[c].old
          /\ \A k \in 1 .. n : down'[c][k] # Error => down'[c][k].old
    BY <1>1, <1>2, <1>3 DEF ClientInv, InOrder
  <2>2. ASSUME NEW k \in 1 .. n, down'[c][k] # Error, down'[c][k].old
        PROVE  /\ mirror'[c].old
               /\ \A j \in 1 .. k : down'[c][j] # Error => down'[c][j].old
    <3>1. down[c][k + 1] # Error /\ down[c][k + 1].old /\ k + 1 \in 1 .. Len(down[c])
      BY <1>2, <1>3, <2>2
    <3>2. /\ mirror[c].old
          /\ \A j \in 1 .. k + 1 : down[c][j] # Error => down[c][j].old
      BY <3>1 DEF ClientInv, InOrder
    <3>3. msg # Error => msg.old
      BY <1>2, <1>3, <3>2
    <3> QED
      BY <1>1, <1>2, <1>4, <3>2, <3>3
  <2> QED
    BY <1>1, <2>1, <2>2 DEF ClientInv, InOrder, n
<1>6. msg # Error => Sound(msg, vm.useUhd, failed) /\ Explains(msg, failed)
  BY <1>2, <1>3 DEF ClientInv, DownInv
<1>7. msg # Error /\ ~mirror[c].old => ~msg.old
  BY <1>2, <1>3 DEF ClientInv, InOrder
<1>8. ReadInv(c)' /\ DownInv(c)'
  BY <1>1, <1>2, <1>3 DEF ClientInv, ReadInv, DownInv, n
<1>9. MirrorInv(c)'
  BY <1>1, <1>6, <1>7 DEF ClientInv, MirrorInv, Sound
<1>10. ToldInv(c)'
  <2>1. Switches(cmds)' = Switches(cmds) /\ Switches(up[c])' = Switches(up[c])
    BY <1>1 DEF Switches, Contains
  <2> QED
    BY <1>1, <1>6, <1>7, <2>1 DEF ClientInv, ToldInv, MirrorInv, Sound, Explains
<1> QED
  BY <1>5, <1>8, <1>9, <1>10 DEF ClientInv

LEMMA DrawKeepsClient ==
  ASSUME TypeOK, WebTypeOK, NEW c \in Client, ClientInv(c), DrawFrame(c)
  PROVE  ClientInv(c)'
<1>1. web[c] \in Screen /\ mirror[c] \in Snapshot
  BY DEF WebTypeOK, Screen
<1>2. /\ UNCHANGED <<cmds, vm, warning, failed, server, up, down>>
      /\ web'[c] = Followed(c)
      /\ mirror'[c] = [mirror[c] EXCEPT !.warning =
                         @ /\ ~(web[c].useUhd /\ ~mirror[c].useUhd)]
      /\ c \in saw' <=> c \in saw \/ (mirror[c].useUhd /\ ~mirror[c].old)
  BY DEF DrawFrame, WebTypeOK, vars, linkVars
<1>3. /\ mirror'[c].old = mirror[c].old /\ mirror'[c].useUhd = mirror[c].useUhd
      /\ mirror'[c].warning = (mirror[c].warning /\ ~(web[c].useUhd /\ ~mirror[c].useUhd))
      /\ mirror[c].useUhd \in BOOLEAN /\ web[c].useUhd \in BOOLEAN
  BY <1>1, <1>2 DEF Snapshot, Screen
<1>4. /\ web'[c].useUhd = mirror[c].useUhd
      /\ web[c].useUhd = mirror[c].useUhd => web'[c] = web[c]
      /\ web[c].useUhd /\ ~mirror[c].useUhd => web'[c].warning = mirror[c].warning
  BY <1>1, <1>2 DEF Followed, Screen
<1>5. InOrder(c)'
  BY <1>2, <1>3 DEF ClientInv, InOrder
<1>6. ReadInv(c)' /\ DownInv(c)'
  BY <1>2 DEF ClientInv, ReadInv, DownInv
<1>7. MirrorInv(c)'
  BY <1>2, <1>3 DEF ClientInv, MirrorInv, Sound
<1>8. ToldInv(c)'
  <2>1. Switches(cmds)' = Switches(cmds) /\ Switches(up[c])' = Switches(up[c])
    BY <1>2 DEF Switches, Contains
  <2>2. CASE mirror[c].useUhd
    BY <1>3, <1>4, <2>2 DEF ToldInv
  <2>3. CASE ~mirror[c].useUhd /\ web[c].useUhd
    BY <1>2, <1>3, <1>4, <2>1, <2>3 DEF ClientInv, ToldInv
  <2>4. CASE ~mirror[c].useUhd /\ ~web[c].useUhd
    BY <1>2, <1>3, <1>4, <2>1, <2>4 DEF ClientInv, ToldInv
  <2> QED
    BY <2>2, <2>3, <2>4
<1> QED
  BY <1>5, <1>6, <1>7, <1>8 DEF ClientInv

LEMMA LostKeepsClient ==
  ASSUME WebTypeOK, NEW c \in Client, LoseConnection(c)
  PROVE  ClientInv(c)'
<1>1. /\ server'[c] = NewTask /\ mirror'[c] = Blank /\ down'[c] = <<>> /\ c \notin saw'
  BY DEF LoseConnection, WebTypeOK
<1>2. /\ server'[c].read = 0 /\ ~server'[c].snapshot.old
      /\ ~mirror'[c].useUhd /\ ~mirror'[c].old /\ Len(down'[c]) = 0
      /\ ~\E k \in 1 .. 0 : TRUE
  BY <1>1, EmptySeq DEF NewTask, Blank
<1> QED
  BY <1>1, <1>2 DEF ClientInv, InOrder, ReadInv, DownInv, MirrorInv, ToldInv

(* A click that switches makes the next use of the USRP; others leave the selector. *)
LEMMA UserKeepsClient ==
  ASSUME TypeOK, WebTypeOK, NEW c \in Client, ClientInv(c), User(c)
  PROVE  ClientInv(c)'
<1>1. UNCHANGED <<cmds, vm, warning, failed, server, down, mirror, saw>>
  BY ProgramRests DEF User, Reload, WebClickUhd, WebClickSim, WebChooseFreq, SendMalformed, Click
<1>2. InOrder(c)' /\ ReadInv(c)' /\ DownInv(c)' /\ MirrorInv(c)'
  BY <1>1 DEF ClientInv, InOrder, ReadInv, DownInv, MirrorInv
<1>3. ASSUME NEW msg \in Upward, Click(c, msg)
      PROVE  Switches(up'[c]) <=> Switches(up[c]) \/ msg \in {"SetUhdEnabled"} \X BOOLEAN
  <2>1. up[c] \in Seq(Upward) /\ up'[c] = Append(up[c], msg)
    BY <1>3 DEF Click, WebTypeOK, Upward
  <2> QED
    BY <2>1, ContainsAppend DEF Switches
<1>4. Switches(cmds)' = Switches(cmds) /\ Switches(up[c])' = Switches(up'[c])
  BY <1>1 DEF Switches, Contains
<1>5. CASE WebClickUhd(c) \/ WebClickSim(c)
  <2>1. \A b \in BOOLEAN : <<"SetUhdEnabled", b>> \in Upward
                           /\ <<"SetUhdEnabled", b>> \in {"SetUhdEnabled"} \X BOOLEAN
    BY DEF Upward, Command
  <2>2. Switches(up'[c])
    BY <1>3, <1>5, <2>1 DEF WebClickUhd, WebClickSim
  <2>3. ToldInv(c)'
    BY <1>4, <2>2 DEF ToldInv
  <2> QED
    BY <1>2, <2>3 DEF ClientInv
<1>6. CASE Reload(c) \/ WebChooseFreq(c) \/ SendMalformed(c)
  <2>1. web'[c].useUhd = web[c].useUhd /\ web'[c].warning = web[c].warning
    BY <1>6 DEF Reload, WebChooseFreq, SendMalformed, WebTypeOK
  <2>2. Switches(up[c]) => Switches(up'[c])
    <3>1. CASE Reload(c)
      BY <3>1 DEF Reload
    <3>2. CASE WebChooseFreq(c)
      BY <1>3, <3>2, TuneFacts DEF WebChooseFreq, Upward
    <3>3. CASE SendMalformed(c)
      BY <1>3, <3>3 DEF SendMalformed, Upward
    <3> QED
      BY <1>6, <3>1, <3>2, <3>3
  <2>3. ToldInv(c)'
    BY <1>1, <1>4, <2>1, <2>2 DEF ClientInv, ToldInv
  <2> QED
    BY <1>2, <2>3 DEF ClientInv
<1> QED
  BY <1>5, <1>6 DEF User

LEMMA ForwardKeepsClients ==
  ASSUME TypeOK, WebTypeOK, NEW c \in Client, ForwardCommand(c), NEW d \in Client, ClientInv(d)
  PROVE  ClientInv(d)'
<1> DEFINE msg == Head(up[c])
<1>1. /\ up[c] \in Seq(Upward) /\ up[c] # <<>> /\ msg \in Command /\ cmds \in Seq(Command)
      /\ cmds' = Append(cmds, msg)
      /\ up'[d] = IF d = c THEN Tail(up[c]) ELSE up[d]
      /\ UNCHANGED <<vm, failed, server, down, mirror, web, saw>>
  BY Forwarded DEF TypeOK, WebTypeOK
<1>2. Switches(cmds') <=> Switches(cmds) \/ msg \in {"SetUhdEnabled"} \X BOOLEAN
  BY <1>1, ContainsAppend DEF Switches
<1>3. Switches(up[c]) <=> Switches(Tail(up[c])) \/ msg \in {"SetUhdEnabled"} \X BOOLEAN
  BY <1>1, ContainsTail DEF Switches
<1> HIDE DEF msg
<1>4. Switches(cmds) \/ Switches(up[d]) => Switches(cmds') \/ Switches(up'[d])
  BY <1>1, <1>2, <1>3
<1> QED
  BY <1>1, <1>4, ClientKept

(* What a browser or its task does, but for the channel, is of no concern to another. *)
LEMMA OthersKept ==
  ASSUME WebTypeOK, NEW c \in Client, NEW d \in Client \ {c}, ClientInv(d),
         Serve(c) \/ LoseConnection(c) \/ ApplyMessage(c) \/ DrawFrame(c) \/ User(c)
  PROVE  ClientInv(d)'
<1>1. cmds' = cmds /\ vm' = vm /\ failed' = failed
  BY ProgramRests
<1>2. server'[d] = server[d] /\ down'[d] = down[d] /\ up'[d] = up[d]
  BY DEF WebTypeOK, Serve, ReadField, SendSnapshot, RefuseText, LoseConnection, ApplyMessage,
     DrawFrame, User, Reload, WebClickUhd, WebClickSim, WebChooseFreq, SendMalformed, Click, linkVars
<1>3. mirror'[d] = mirror[d] /\ web'[d] = web[d] /\ (d \in saw' => d \in saw)
  BY DEF WebTypeOK, Serve, ReadField, SendSnapshot, RefuseText, LoseConnection, ApplyMessage,
     DrawFrame, User, Reload, WebClickUhd, WebClickSim, WebChooseFreq, SendMalformed, Click
<1> QED
  BY <1>1, <1>2, <1>3, ClientKept

LEMMA ActorKept ==
  ASSUME TypeOK, WebTypeOK, KeptWarning, NEW c \in Client, ClientInv(c),
         Serve(c) \/ LoseConnection(c) \/ ApplyMessage(c) \/ DrawFrame(c) \/ User(c)
  PROVE  ClientInv(c)'
BY ReadKeepsClient, SendKeepsClient, RefuseKeepsClient, LostKeepsClient, ApplyKeepsClient,
   DrawKeepsClient, UserKeepsClient DEF Serve

LEMMA BrowserStep ==
  ASSUME TypeOK, WebTypeOK, FailInv, BrowserInv, [WebNext]_allVars
  PROVE  BrowserInv'
<1> SUFFICES ASSUME headless'
             PROVE  KeptWarning' /\ \A d \in Client : ClientInv(d)'
  BY DEF BrowserInv
<1>1. headless
  BY DEF WebNext, RadioStep, DesktopStep, Serve, ReadField, SendSnapshot, RefuseText,
     ForwardCommand, LoseConnection, ApplyMessage, DrawFrame, User, Reload, WebClickUhd,
     WebClickSim, WebChooseFreq, SendMalformed, Click, linkVars, allVars, webVars
<1>2. KeptWarning /\ \A d \in Client : ClientInv(d)
  BY <1>1 DEF BrowserInv
<1>3. CASE RadioStep
  BY <1>2, <1>3, LoopKeepsWarning, RadioKeepsClients DEF RadioStep
<1>4. CASE DesktopStep
  BY <1>1, <1>4 DEF DesktopStep
<1>5. CASE UNCHANGED allVars
  <2>1. UNCHANGED <<cmds, vm, warning, pc, failed, server, down, up, mirror, web, saw>>
    BY <1>5 DEF allVars, vars, loopVars, webVars, linkVars
  <2> QED
    BY <1>2, <2>1, ClientKept DEF KeptWarning
<1>6. ASSUME NEW c \in Client, ForwardCommand(c)
      PROVE  KeptWarning' /\ \A d \in Client : ClientInv(d)'
  <2>1. UNCHANGED <<vm, warning, pc, failed>>
    BY <1>6, Forwarded DEF loopVars
  <2> QED
    BY <1>2, <1>6, <2>1, ForwardKeepsClients DEF KeptWarning
<1>7. ASSUME NEW c \in Client,
             Serve(c) \/ LoseConnection(c) \/ ApplyMessage(c) \/ DrawFrame(c) \/ User(c)
      PROVE  KeptWarning' /\ \A d \in Client : ClientInv(d)'
  <2>1. UNCHANGED <<vm, warning, pc, failed>>
    BY <1>7, ProgramRests DEF loopVars
  <2>2. ClientInv(c)'
    BY <1>2, <1>7, ActorKept
  <2>3. ASSUME NEW d \in Client \ {c}
        PROVE  ClientInv(d)'
    BY <1>2, <1>7, OthersKept
  <2> QED
    BY <1>2, <2>1, <2>2, <2>3 DEF KeptWarning
<1> QED
  BY <1>3, <1>4, <1>5, <1>6, <1>7 DEF WebNext

LEMMA BrowserInit ==
  ASSUME WebInit
  PROVE  BrowserInv
<1>1. ~failed /\ pc # "warned" /\ saw = {}
  BY DEF WebInit, Init
<1>2. ~\E k \in 1 .. 0 : TRUE
  OBVIOUS
<1>3. ASSUME NEW c \in Client
      PROVE  ClientInv(c)
  <2>1. /\ server[c].read = 0 /\ ~server[c].snapshot.old
        /\ ~mirror[c].old /\ ~mirror[c].useUhd /\ Len(down[c]) = 0
    BY EmptySeq DEF WebInit, NewTask, Blank
  <2> QED
    BY <1>1, <1>2, <2>1 DEF ClientInv, InOrder, ReadInv, DownInv, MirrorInv, ToldInv
<1> QED
  BY <1>1, <1>3 DEF BrowserInv, KeptWarning

(***************************************************************************)
(* A browser that has seen the USRP and sees it go is told why, with no    *)
(* desktop window to take the warning: use_uhd is read before uhd_warning  *)
(* and stored after it, and snapshots keep their order to the window.      *)
(***************************************************************************)
THEOREM BrowsersAreTold == WebSpec => []WebFailureShown
<1>1. WebInit => BrowserInv
  BY BrowserInit
<1>2. TypeOK /\ WebTypeOK /\ WarnInv /\ BrowserInv /\ [WebNext]_allVars => BrowserInv'
  BY BrowserStep, Failures
<1>3. WarnInv /\ BrowserInv => WebFailureShown
  <2> SUFFICES ASSUME WarnInv, BrowserInv, headless, NEW c \in Client,
                      WebQuiet(c), failed, c \in saw
               PROVE  web[c].warning
    BY DEF WebFailureShown, Told
  <2>1. ~vm.useUhd /\ ~web[c].useUhd
    BY Failures DEF FailInv, WebQuiet
  <2>2. ~Switches(cmds) /\ ~Switches(up[c])
    BY ContainsNothing DEF WebQuiet, Switches
  <2> QED
    BY <2>1, <2>2 DEF BrowserInv, ClientInv, ToldInv
<1> QED
  BY <1>1, <1>2, <1>3, WebTyping, WebWarnInv, PTL DEF WebSpec
=============================================================================
