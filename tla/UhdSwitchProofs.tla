-------------------------- MODULE UhdSwitchProofs ---------------------------
(***************************************************************************)
(* Theorems about UhdSwitch, for all sets of arguments and frequencies and *)
(* any number of commands.                                                 *)
(***************************************************************************)
EXTENDS UhdSwitch, SequenceTheorems, TLAPS

Model == [useUhd : BOOLEAN, args : Args, freq : Freq, rebuild : BOOLEAN, loading : BOOLEAN]
Shown == [useUhd : BOOLEAN, warning : BOOLEAN, taking : BOOLEAN]

LEMMA SendPreservesType ==
  ASSUME TypeOK, NEW cmd \in Command, Send(cmd), view' \in Shown
  PROVE  TypeOK'
<1>1. Append(cmds, cmd) \in Seq(Command)
  BY AppendProperties DEF TypeOK
<1>2. sent + 1 \in 0 .. MaxCommands
  BY UhdBoundAssumption DEF Send, TypeOK
<1> QED
  BY <1>1, <1>2 DEF Send, TypeOK, loopVars, Shown

LEMMA WindowPreservesType ==
  ASSUME TypeOK, Window \/ Frame
  PROVE  TypeOK'
<1>1. view \in Shown
  BY DEF TypeOK, Shown
<1>2. CASE ClickUhd
  <2>1. view' \in Shown /\ <<"SetUhdEnabled", TRUE>> \in Command
    BY <1>1, <1>2 DEF ClickUhd, Shown, Command
  <2> QED
    BY <1>2, <2>1, SendPreservesType DEF ClickUhd
<1>3. CASE ClickSim
  <2>1. view' \in Shown /\ <<"SetUhdEnabled", FALSE>> \in Command
    BY <1>1, <1>3 DEF ClickSim, Shown, Command
  <2> QED
    BY <1>3, <2>1, SendPreservesType DEF ClickSim
<1>4. CASE EnterArgs
  <2>1. PICK a \in Args : Send(<<"SetUhdArgs", a>>)
    BY <1>4 DEF EnterArgs
  <2>2. view' \in Shown /\ <<"SetUhdArgs", a>> \in Command
    BY <1>1, <1>4 DEF EnterArgs, Command
  <2> QED
    BY <2>1, <2>2, SendPreservesType
<1>5. CASE ChooseFreq
  <2>1. PICK f \in Freq : Send(<<"SetUhdFreqHz", f>>)
    BY <1>5 DEF ChooseFreq
  <2>2. view' \in Shown /\ <<"SetUhdFreqHz", f>> \in Command
    BY <1>1, <1>5 DEF ChooseFreq, Command
  <2> QED
    BY <2>1, <2>2, SendPreservesType
<1>6. CASE MirrorUhd
  <2>1. view' \in Shown
    BY <1>1, <1>6 DEF MirrorUhd, Mirror, TypeOK, Shown
  <2>2. seen' \in BOOLEAN
    BY <1>6 DEF MirrorUhd
  <2> QED
    BY <1>6, <2>1, <2>2 DEF MirrorUhd, TypeOK, Shown, loopVars
<1>7. CASE TakeWarning
  <2>1. view' \in Shown
    BY <1>1, <1>7 DEF TakeWarning, TypeOK, Shown
  <2> QED
    BY <1>7, <2>1 DEF TakeWarning, TypeOK, Shown, loopVars
<1> QED
  BY <1>2, <1>3, <1>4, <1>5, <1>6, <1>7 DEF Window, Frame

(* Command::apply on a well-formed view model. *)
LEMMA AppliedType ==
  ASSUME NEW v \in Model, NEW cmd \in Command
  PROVE  Applied(v, cmd[1], cmd[2]) \in Model
<1>1. CASE cmd \in {"SetUhdEnabled"} \X BOOLEAN
  BY <1>1 DEF Applied, Model
<1>2. CASE cmd \in {"SetUhdArgs"} \X Args
  BY <1>2 DEF Applied, Model
<1>3. CASE cmd \in {"SetUhdFreqHz"} \X Freq
  BY <1>3 DEF Applied, Retuned, Model
<1> QED
  BY <1>1, <1>2, <1>3 DEF Command

LEMMA LoopPreservesType ==
  ASSUME TypeOK, Loop
  PROVE  TypeOK'
<1>1. vm \in Model /\ (driver # Sim => driver \in Device)
  BY DEF TypeOK, Model
<1>2. ASSUME NEW loading \in BOOLEAN, Rebuilds(loading)
      PROVE  vm' \in Model
  BY <1>1, <1>2 DEF Rebuilds, Model
<1>3. CASE ApplyCommand
  <2>1. Head(cmds) \in Command /\ Tail(cmds) \in Seq(Command)
    BY <1>3, HeadTailProperties DEF ApplyCommand, TypeOK
  <2>2. vm' \in Model
    BY <1>1, <1>3, <2>1, AppliedType DEF ApplyCommand
  <2>3. warning' \in BOOLEAN /\ failed' \in BOOLEAN /\ seen' \in BOOLEAN
    BY <1>3 DEF ApplyCommand, TypeOK
  <2> QED
    BY <1>3, <2>1, <2>2, <2>3 DEF ApplyCommand, TypeOK, Model, loopVars
<1>4. CASE NoRebuild
  BY <1>4 DEF NoRebuild, TypeOK, Stage
<1>5. CASE RetuneDevice
  <2>1. vm' \in Model
    BY <1>1, <1>2, <1>5 DEF RetuneDevice, Model
  <2>2. driver' \in Device
    BY <1>1, <1>5 DEF RetuneDevice, InUse, Unparked, Device, Model
  <2> QED
    BY <1>5, <2>1, <2>2 DEF RetuneDevice, Rebuilds, TypeOK, Model, Stage
<1>6. CASE UnparkDevice
  <2>1. vm' \in Model
    BY <1>1, <1>2, <1>6 DEF UnparkDevice, Model
  <2>2. parked \in Parked
    BY <1>6 DEF UnparkDevice, Reusable, TypeOK
  <2>3. driver' \in Device /\ active' \in Args
    BY <1>1, <1>6, <2>2 DEF UnparkDevice, Unparked, Parked, Device, Model
  <2> QED
    BY <1>6, <2>1, <2>3 DEF UnparkDevice, Rebuilds, TypeOK, Model, Stage
<1>7. CASE BeginOpen
  <2>1. vm' \in Model
    BY <1>2, <1>7 DEF BeginOpen
  <2> QED
    BY <1>1, <1>7, <2>1 DEF BeginOpen, Rebuilds, TypeOK, Model, Stage
<1>8. CASE ParkDevice
  <2>1. vm' \in Model
    BY <1>1, <1>2, <1>8 DEF ParkDevice, Model
  <2>2. parked' \in Parked
    BY <1>1, <1>8 DEF ParkDevice, Parked, Model
  <2> QED
    BY <1>8, <2>1, <2>2 DEF ParkDevice, Rebuilds, TypeOK, Model, Stage
<1>9. CASE RenewSim
  <2>1. vm' \in Model
    BY <1>1, <1>2, <1>9 DEF RenewSim, Model
  <2> QED
    BY <1>9, <2>1 DEF RenewSim, Rebuilds, TypeOK, Model, Stage
<1>10. CASE OpenSucceeds
  <2>1. vm' \in Model
    BY <1>1, <1>10 DEF OpenSucceeds, Model
  <2>2. driver' \in Device
    BY <1>1, <1>10 DEF OpenSucceeds, Device, Model
  <2> QED
    BY <1>10, <2>1, <2>2 DEF OpenSucceeds, TypeOK, Model, Stage
<1>11. CASE OpenFails
  <2>1. vm' \in Model
    BY <1>1, <1>11 DEF OpenFails, Model
  <2> QED
    BY <1>11, <2>1 DEF OpenFails, TypeOK, Model, Stage
<1>12. CASE Warn
  BY <1>12 DEF Warn, TypeOK, Stage
<1>13. CASE FallBack
  <2>1. vm' \in Model
    BY <1>1, <1>13 DEF FallBack, Model
  <2> QED
    BY <1>13, <2>1 DEF FallBack, TypeOK, Model, Stage
<1>14. CASE Settle
  <2>1. vm' \in Model
    BY <1>1, <1>14 DEF Settle, Model
  <2> QED
    BY <1>14, <2>1 DEF Settle, TypeOK, Model, Stage
<1>15. CASE EndTick
  BY <1>15 DEF EndTick, TypeOK, Stage
<1> QED
  BY <1>3, <1>4, <1>5, <1>6, <1>7, <1>8, <1>9, <1>10, <1>11, <1>12, <1>13, <1>14, <1>15
     DEF Loop

LEMMA UhdInitType ==
  ASSUME Init
  PROVE  TypeOK
<1>1. cmds \in Seq(Command) /\ sent \in 0 .. MaxCommands
  BY UhdBoundAssumption, EmptySeq DEF Init
<1>2. /\ vm \in Model /\ view \in Shown
      /\ pc \in Stage /\ warning \in BOOLEAN /\ failed \in BOOLEAN /\ seen \in BOOLEAN
  <2>1. PICK probed \in BOOLEAN :
          /\ vm = [useUhd |-> probed, args |-> DefaultArgs, freq |-> DefaultFreq,
                   rebuild |-> probed, loading |-> probed]
          /\ pc = IF probed THEN "start" ELSE "drain"
          /\ view = [useUhd |-> probed, warning |-> FALSE, taking |-> FALSE]
          /\ seen = probed
    BY DEF Init
  <2>2. vm \in Model
    BY <2>1, UhdDefaultAssumption DEF Model
  <2>3. view \in Shown /\ pc \in Stage
    BY <2>1 DEF Shown, Stage
  <2> QED
    BY <2>1, <2>2, <2>3 DEF Init
<1>3. driver \in Device \cup {Sim} /\ parked \in Parked \cup {None} /\ active \in Args
  BY UhdDefaultAssumption DEF Init
<1> QED
  BY <1>1, <1>2, <1>3 DEF TypeOK, Model, Shown

LEMMA UhdStepType ==
  ASSUME TypeOK, [Next]_vars
  PROVE  TypeOK'
<1>1. CASE UNCHANGED vars
  BY <1>1 DEF TypeOK, vars, loopVars
<1> QED
  BY <1>1, WindowPreservesType, LoopPreservesType DEF Next

(* What is parked is an open device, filed under arguments that were entered. *)
THEOREM UhdTyping == Spec => []TypeOK
<1>1. Init => TypeOK
  BY UhdInitType
<1>2. TypeOK /\ [Next]_vars => TypeOK'
  BY UhdStepType
<1> QED
  BY <1>1, <1>2, PTL DEF Spec

-----------------------------------------------------------------------------

LEMMA OneDeviceStep ==
  ASSUME OneDevice, [Next]_vars
  PROVE  OneDevice'
<1>1. CASE RetuneDevice \/ UnparkDevice
  BY <1>1 DEF RetuneDevice, UnparkDevice, InUse, OneDevice
<1>2. CASE BeginOpen \/ ParkDevice \/ RenewSim
  BY <1>2 DEF BeginOpen, ParkDevice, RenewSim, Rebuilds, OneDevice
<1>3. CASE OpenSucceeds \/ OpenFails \/ Warn \/ FallBack \/ Settle
  BY <1>3 DEF OpenSucceeds, OpenFails, Warn, FallBack, Settle, OneDevice
<1>4. CASE ApplyCommand \/ NoRebuild \/ EndTick
  BY <1>4 DEF ApplyCommand, NoRebuild, EndTick, OneDevice, loopVars
<1>5. CASE Window \/ Frame \/ UNCHANGED vars
  BY <1>5 DEF Window, ClickUhd, ClickSim, EnterArgs, ChooseFreq, Send, Frame, MirrorUhd,
              TakeWarning, OneDevice, vars, loopVars
<1> QED
  BY <1>1, <1>2, <1>3, <1>4, <1>5 DEF Next, Loop

(***************************************************************************)
(* No two sessions on the USRP: the property is inductive, because a step  *)
(* that starts to open drops the parked device, and a step that parks      *)
(* gives up the device in use.                                             *)
(***************************************************************************)
THEOREM SessionsExclusive == Spec => []OneDevice
<1>1. Init => OneDevice
  BY DEF Init, OneDevice
<1>2. OneDevice /\ [Next]_vars => OneDevice'
  BY OneDeviceStep
<1> QED
  BY <1>1, <1>2, PTL DEF Spec

(* The driver is what use_uhd and uhd_freq_hz say. *)
DriverAgrees ==
  /\ (driver # Sim) = vm.useUhd
  /\ driver # Sim => driver.freq = vm.freq

(***************************************************************************)
(* Driver and view model agree whenever no rebuild is due; while a device  *)
(* is being opened there is none yet, and use_uhd is still on.             *)
(***************************************************************************)
SwitchInv ==
  /\ pc \in {"tick", "settle"} => DriverAgrees
  /\ pc = "drain" /\ ~vm.rebuild => DriverAgrees
  /\ pc \in {"start", "opening", "failed", "warned"} => driver = Sim
  /\ pc \in {"start", "opening"} => vm.useUhd

(* A command that changes what the driver should be asks for a rebuild. *)
LEMMA AppliedAgrees ==
  ASSUME TypeOK, SwitchInv, ApplyCommand
  PROVE  SwitchInv'
<1>1. Head(cmds) \in Command
  BY HeadTailProperties DEF ApplyCommand, TypeOK
<1>2. vm \in Model
  BY DEF TypeOK, Model
<1>3. pc' = pc /\ pc = "drain" /\ driver' = driver
  BY DEF ApplyCommand, loopVars
<1>4. CASE Head(cmds) \in {"SetUhdEnabled"} \X BOOLEAN
  <2>1. vm'.rebuild
    BY <1>2, <1>4 DEF ApplyCommand, Applied, Model
  <2> QED
    BY <1>3, <2>1 DEF SwitchInv
<1>5. CASE Head(cmds) \in {"SetUhdArgs"} \X Args
  <2>1. vm'.useUhd = vm.useUhd /\ vm'.freq = vm.freq /\ (~vm'.rebuild => ~vm.rebuild)
    BY <1>2, <1>5 DEF ApplyCommand, Applied, Model
  <2> QED
    BY <1>3, <2>1 DEF SwitchInv, DriverAgrees
<1>6. CASE Head(cmds) \in {"SetUhdFreqHz"} \X Freq
  <2>1. vm'.useUhd = vm.useUhd /\ (~vm'.rebuild => ~vm.rebuild /\ ~vm.useUhd)
    BY <1>2, <1>6 DEF ApplyCommand, Applied, Retuned, Model
  <2> QED
    BY <1>3, <2>1 DEF SwitchInv, DriverAgrees
<1> QED
  BY <1>1, <1>4, <1>5, <1>6 DEF Command

LEMMA SwitchStep ==
  ASSUME TypeOK, SwitchInv, [Next]_vars
  PROVE  SwitchInv'
<1>0. vm \in Model /\ \A d \in Device : d # Sim
  BY UhdDistinctAssumption DEF TypeOK, Model
<1>1. CASE ApplyCommand
  BY <1>1, AppliedAgrees
<1>2. CASE RetuneDevice
  <2>1. driver \in Device /\ Unparked(driver) \in Device /\ Unparked(driver).freq = vm.freq
    BY <1>0, <1>2 DEF RetuneDevice, InUse, TypeOK, Unparked, Device, Model
  <2>2. vm'.useUhd /\ vm'.freq = vm.freq /\ pc' = "tick" /\ driver' = Unparked(driver)
    BY <1>0, <1>2 DEF RetuneDevice, Rebuilds, Model
  <2> QED
    BY <1>0, <2>1, <2>2 DEF SwitchInv, DriverAgrees
<1>3. CASE UnparkDevice
  <2>1. parked.dev \in Device
    BY <1>3 DEF UnparkDevice, Reusable, TypeOK, Parked
  <2>2. Unparked(parked.dev) \in Device /\ Unparked(parked.dev).freq = vm.freq
    BY <1>0, <2>1 DEF Unparked, Device, Model
  <2>3. vm'.useUhd /\ vm'.freq = vm.freq /\ pc' = "tick" /\ driver' = Unparked(parked.dev)
    BY <1>0, <1>3 DEF UnparkDevice, Rebuilds, Model
  <2> QED
    BY <1>0, <2>2, <2>3 DEF SwitchInv, DriverAgrees
<1>4. CASE BeginOpen
  BY <1>0, <1>4 DEF BeginOpen, Rebuilds, SwitchInv, Model
<1>5. CASE ParkDevice \/ RenewSim
  BY <1>0, <1>5 DEF ParkDevice, RenewSim, Rebuilds, SwitchInv, DriverAgrees, Model
<1>6. CASE OpenSucceeds
  <2>1. driver' \in Device /\ driver'.freq = vm.freq
    BY <1>0, <1>6 DEF OpenSucceeds, Device, Model
  <2>2. vm'.useUhd /\ vm'.freq = vm.freq /\ pc' \in {"tick", "settle"}
    BY <1>0, <1>6 DEF OpenSucceeds, SwitchInv, Model
  <2> QED
    BY <1>0, <2>1, <2>2 DEF SwitchInv, DriverAgrees
<1>7. CASE OpenFails \/ Warn \/ FallBack
  BY <1>0, <1>7 DEF OpenFails, Warn, FallBack, SwitchInv, DriverAgrees, Model
<1>8. CASE Settle
  BY <1>0, <1>8 DEF Settle, SwitchInv, DriverAgrees, Model
<1>9. CASE NoRebuild
  BY <1>9 DEF NoRebuild, SwitchInv, DriverAgrees
<1>10. CASE EndTick
  BY <1>10 DEF EndTick, SwitchInv, DriverAgrees
<1>11. CASE Window \/ Frame \/ UNCHANGED vars
  BY <1>11 DEF Window, ClickUhd, ClickSim, EnterArgs, ChooseFreq, Send, Frame, MirrorUhd,
               TakeWarning, SwitchInv, DriverAgrees, vars, loopVars
<1> QED
  BY <1>1, <1>2, <1>3, <1>4, <1>5, <1>6, <1>7, <1>8, <1>9, <1>10, <1>11 DEF Next, Loop

(***************************************************************************)
(* A tick transmits on a USRP exactly when the users asked for one that    *)
(* could be opened, tuned to the frequency they set last.                  *)
(***************************************************************************)
THEOREM DriverIsTuned == Spec => []DriverTuned
<1>1. Init => SwitchInv
  BY DEF Init, SwitchInv, DriverAgrees
<1>2. TypeOK /\ SwitchInv /\ [Next]_vars => SwitchInv'
  BY SwitchStep
<1>3. SwitchInv => DriverTuned
  BY DEF SwitchInv, DriverAgrees, DriverTuned
<1> QED
  BY <1>1, <1>2, <1>3, UhdTyping, PTL DEF Spec

-----------------------------------------------------------------------------
(* The warning. *)

(* Still in the channel: a command that makes the outcome before it history. *)
Pending == \E k \in 1 .. Len(cmds) : cmds[k][1] = "SetUhdEnabled"

(***************************************************************************)
(* Where the warning is on its way from the loop to the window's own copy. *)
(***************************************************************************)
OnItsWay ==
  \/ view.useUhd /\ ~view.taking /\ warning
  \/ ~view.useUhd /\ view.taking /\ warning
  \/ ~view.useUhd /\ ~view.taking /\ view.warning

SeenInv ==
  /\ vm.useUhd => view.useUhd /\ ~view.taking
  /\ pc = "warned" => warning
  /\ failed /\ ~vm.useUhd => OnItsWay

WarnInv ==
  /\ pc \in {"start", "opening", "failed", "warned"} => vm.useUhd
  /\ pc \in {"failed", "warned"} => failed
  /\ failed => ~vm.useUhd \/ pc \in {"failed", "warned"}
  /\ seen /\ ~Pending => SeenInv

LEMMA SentIsPending ==
  ASSUME TypeOK, NEW cmd \in Command, cmds' = Append(cmds, cmd)
  PROVE  /\ Pending => Pending'
         /\ cmd[1] = "SetUhdEnabled" => Pending'
<1>1. /\ Len(cmds') = Len(cmds) + 1 /\ cmds'[Len(cmds) + 1] = cmd
      /\ \A k \in 1 .. Len(cmds) : cmds'[k] = cmds[k]
      /\ Len(cmds) \in Nat
  BY AppendProperties, LenProperties DEF TypeOK
<1>2. Pending => Pending'
  <2> SUFFICES ASSUME NEW k \in 1 .. Len(cmds), cmds[k][1] = "SetUhdEnabled"
               PROVE  Pending'
    BY DEF Pending
  <2>1. k \in 1 .. Len(cmds') /\ cmds'[k] = cmds[k]
    BY <1>1
  <2> QED
    BY <2>1 DEF Pending
<1>3. Len(cmds) + 1 \in 1 .. Len(cmds')
  BY <1>1
<1> QED
  BY <1>1, <1>2, <1>3 DEF Pending

LEMMA TailIsPending ==
  ASSUME TypeOK, cmds # <<>>, cmds' = Tail(cmds), Head(cmds)[1] # "SetUhdEnabled"
  PROVE  Pending => Pending'
<1>1. /\ Len(cmds') = Len(cmds) - 1 /\ Head(cmds) = cmds[1] /\ Len(cmds) \in Nat
      /\ \A k \in 1 .. Len(cmds') : cmds'[k] = cmds[k + 1]
  BY HeadTailProperties, LenProperties DEF TypeOK
<1> SUFFICES ASSUME NEW k \in 1 .. Len(cmds), cmds[k][1] = "SetUhdEnabled"
             PROVE  Pending'
  BY DEF Pending
<1>2. k - 1 \in 1 .. Len(cmds') /\ cmds'[k - 1] = cmds[k]
  <2>1. k # 1
    BY <1>1
  <2>2. k - 1 \in 1 .. Len(cmds')
    BY <1>1, <2>1
  <2>3. cmds'[k - 1] = cmds[(k - 1) + 1]
    BY <1>1, <2>2
  <2>4. (k - 1) + 1 = k
    OBVIOUS
  <2> QED
    BY <2>2, <2>3, <2>4
<1> QED
  BY <1>2 DEF Pending

LEMMA WarnWindow ==
  ASSUME TypeOK, WarnInv, Window \/ Frame
  PROVE  WarnInv'
<1>1. ASSUME NEW cmd \in Command, Send(cmd), UNCHANGED view \/ cmd[1] = "SetUhdEnabled"
      PROVE  WarnInv'
  <2>1. /\ Pending => Pending'
        /\ cmd[1] = "SetUhdEnabled" => Pending'
    BY <1>1, SentIsPending DEF Send
  <2>2. UNCHANGED <<vm, warning, pc, failed, seen>>
    BY <1>1 DEF Send, loopVars
  <2> QED
    BY <1>1, <2>1, <2>2 DEF WarnInv, SeenInv, OnItsWay
<1>2. CASE ClickUhd
  BY <1>1, <1>2 DEF ClickUhd, Command
<1>3. CASE ClickSim
  BY <1>1, <1>3 DEF ClickSim, Command
<1>4. CASE EnterArgs
  <2>1. PICK a \in Args : Send(<<"SetUhdArgs", a>>)
    BY <1>4 DEF EnterArgs
  <2>2. <<"SetUhdArgs", a>> \in Command /\ UNCHANGED view
    BY <1>4 DEF EnterArgs, Command
  <2> QED
    BY <1>1, <2>1, <2>2
<1>5. CASE ChooseFreq
  <2>1. PICK f \in Freq : Send(<<"SetUhdFreqHz", f>>)
    BY <1>5 DEF ChooseFreq
  <2>2. <<"SetUhdFreqHz", f>> \in Command /\ UNCHANGED view
    BY <1>5 DEF ChooseFreq, Command
  <2> QED
    BY <1>1, <2>1, <2>2
<1>6. CASE MirrorUhd
  <2>1. /\ UNCHANGED <<cmds, vm, warning, pc, failed>> /\ ~view.taking
        /\ view'.useUhd = vm.useUhd /\ view'.warning = view.warning
        /\ view'.taking = ((view.useUhd # vm.useUhd) /\ ~vm.useUhd)
        /\ seen' = (seen \/ (vm.useUhd /\ ~failed))
        /\ vm.useUhd \in BOOLEAN /\ view.useUhd \in BOOLEAN
    BY <1>6 DEF MirrorUhd, Mirror, loopVars, TypeOK
  <2>2. Pending' = Pending
    BY <2>1 DEF Pending
  <2> QED
    BY <2>1, <2>2 DEF WarnInv, SeenInv, OnItsWay
<1>7. CASE TakeWarning
  <2>1. /\ UNCHANGED <<cmds, vm, pc, failed, seen>> /\ view.taking
        /\ view'.useUhd = view.useUhd /\ view'.warning = warning /\ ~view'.taking
    BY <1>7 DEF TakeWarning, loopVars, TypeOK
  <2>2. Pending' = Pending
    BY <2>1 DEF Pending
  <2> QED
    BY <2>1, <2>2 DEF WarnInv, SeenInv, OnItsWay
<1> QED
  BY <1>2, <1>3, <1>4, <1>5, <1>6, <1>7 DEF Window, Frame

LEMMA WarnApply ==
  ASSUME TypeOK, WarnInv, ApplyCommand
  PROVE  WarnInv'
<1>1. /\ pc = "drain" /\ pc' = "drain" /\ cmds # <<>> /\ cmds' = Tail(cmds)
      /\ view' = view /\ Head(cmds) \in Command
  BY HeadTailProperties DEF ApplyCommand, loopVars, TypeOK
<1>2. CASE Head(cmds)[1] = "SetUhdEnabled"
  <2>1. ~failed' /\ ~seen'
    BY <1>2 DEF ApplyCommand
  <2> QED
    BY <1>1, <2>1 DEF WarnInv
<1>3. CASE Head(cmds)[1] # "SetUhdEnabled"
  <2>1. failed' = failed /\ seen' = seen
    BY <1>3 DEF ApplyCommand
  <2>2. Head(cmds) # <<"SetUhdEnabled", TRUE>>
    <3>1. <<"SetUhdEnabled", TRUE>>[1] = "SetUhdEnabled"
      OBVIOUS
    <3> QED
      BY <1>3, <3>1
  <2>3. warning' = (warning /\ Head(cmds) # <<"SetUhdEnabled", TRUE>>)
    BY DEF ApplyCommand
  <2>4. warning => warning'
    BY <2>2, <2>3
  <2>5. Head(cmds)[1] \in {"SetUhdArgs", "SetUhdFreqHz"}
    BY <1>1, <1>3 DEF Command
  <2>6. vm'.useUhd = vm.useUhd
    BY <2>5 DEF ApplyCommand, Applied, Retuned, TypeOK
  <2>7. Pending => Pending'
    BY <1>1, <1>3, TailIsPending
  <2> QED
    BY <1>1, <2>1, <2>4, <2>6, <2>7 DEF WarnInv, SeenInv, OnItsWay
<1> QED
  BY <1>2, <1>3

LEMMA WarnLoop ==
  ASSUME TypeOK, WarnInv, Loop, ~ApplyCommand
  PROVE  WarnInv'
<1>1. UNCHANGED <<cmds, view, seen>>
  BY DEF Loop, NoRebuild, Rebuilds, RetuneDevice, UnparkDevice, BeginOpen, ParkDevice, RenewSim,
     OpenSucceeds, OpenFails, Warn, FallBack, Settle, EndTick
<1>2. Pending' = Pending
  BY <1>1 DEF Pending
<1>3. CASE OpenFails
  <2>1. /\ pc \in {"start", "opening"} /\ pc' = "failed" /\ failed' /\ warning' = warning
        /\ vm'.useUhd = vm.useUhd
    BY <1>3 DEF OpenFails, TypeOK
  <2> QED
    BY <1>1, <1>2, <2>1 DEF WarnInv, SeenInv, OnItsWay
<1>4. CASE Warn
  <2>1. pc = "failed" /\ pc' = "warned" /\ failed' = failed /\ warning' /\ vm' = vm
    BY <1>4 DEF Warn
  <2> QED
    BY <1>1, <1>2, <2>1 DEF WarnInv, SeenInv, OnItsWay
<1>5. CASE FallBack
  <2>1. /\ pc = "warned" /\ pc' \in {"settle", "tick"} /\ failed' = failed /\ warning' = warning
        /\ ~vm'.useUhd
    BY <1>5 DEF FallBack, TypeOK
  <2> QED
    BY <1>1, <1>2, <2>1 DEF WarnInv, SeenInv, OnItsWay
<1>6. CASE BeginOpen
  <2>1. /\ pc = "drain" /\ pc' = "opening" /\ failed' = failed /\ warning' = warning
        /\ vm'.useUhd = vm.useUhd /\ vm.useUhd
    BY <1>6 DEF BeginOpen, Rebuilds, TypeOK
  <2> QED
    BY <1>1, <1>2, <2>1 DEF WarnInv, SeenInv, OnItsWay
<1>7. CASE ~(OpenFails \/ Warn \/ FallBack \/ BeginOpen)
  <2>1. /\ pc \notin {"failed", "warned"} /\ pc' \in {"tick", "settle", "drain"}
        /\ failed' = failed /\ warning' = warning /\ vm'.useUhd = vm.useUhd
    BY <1>7 DEF Loop, NoRebuild, Rebuilds, RetuneDevice, UnparkDevice, ParkDevice, RenewSim,
       OpenSucceeds, Settle, EndTick, TypeOK
  <2> QED
    BY <1>1, <1>2, <2>1 DEF WarnInv, SeenInv, OnItsWay
<1> QED
  BY <1>3, <1>4, <1>5, <1>6, <1>7

LEMMA WarnInit ==
  ASSUME Init
  PROVE  WarnInv
<1>1. PICK probed \in BOOLEAN :
        /\ vm.useUhd = probed /\ pc = (IF probed THEN "start" ELSE "drain")
        /\ view.useUhd = probed /\ view.taking = FALSE /\ seen = probed /\ failed = FALSE
  BY DEF Init
<1> QED
  BY <1>1 DEF WarnInv, SeenInv

LEMMA WarnStep ==
  ASSUME TypeOK, WarnInv, [Next]_vars
  PROVE  WarnInv'
<1>1. CASE UNCHANGED vars
  <2>1. Pending' = Pending
    BY <1>1 DEF vars, Pending
  <2> QED
    BY <1>1, <2>1 DEF vars, loopVars, WarnInv, SeenInv, OnItsWay
<1> QED
  BY <1>1, WarnWindow, WarnApply, WarnLoop DEF Next

LEMMA WarnShown == WarnInv => SeenFailureShown
<1> SUFFICES ASSUME WarnInv, Quiet, failed, seen PROVE view.warning
  BY DEF SeenFailureShown
<1>1. ~Pending
  BY EmptySeq DEF Quiet, Pending
<1> QED
  BY <1>1 DEF WarnInv, SeenInv, OnItsWay, Quiet

(***************************************************************************)
(* A window that has seen the USRP in use, or being opened, and sees it go *)
(* is told: however commands, frames and failures interleave.              *)
(***************************************************************************)
THEOREM FailuresAreShown == Spec => []SeenFailureShown
<1>1. Init => WarnInv
  BY WarnInit
<1>2. TypeOK /\ WarnInv /\ [Next]_vars => WarnInv'
  BY WarnStep
<1>3. WarnInv => SeenFailureShown
  BY WarnShown
<1> QED
  BY <1>1, <1>2, <1>3, UhdTyping, PTL DEF Spec
=============================================================================
