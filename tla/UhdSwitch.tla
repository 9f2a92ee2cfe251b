----------------------------- MODULE UhdSwitch ------------------------------
(***************************************************************************)
(* Switching between the simulated channel and a USRP, in a build with the *)
(* uhd feature: the driver rebuild of radio.rs on one thread, and the      *)
(* driver selector of the desktop window in view/mod.rs on another.        *)
(*                                                                         *)
(* The window sends commands and mirrors use_uhd frame by frame; the loop  *)
(* opens, parks and reuses the device, and when it cannot open it leaves a *)
(* warning and switches use_uhd off again. Each store another thread can   *)
(* observe in between is a step of its own.                                *)
(***************************************************************************)
EXTENDS Naturals, Sequences

CONSTANTS
  Args,         \* device arguments a user may enter
  Freq,         \* centre frequencies a user may choose
  DefaultArgs, DefaultFreq,
  Sim,          \* the simulated channel
  None,         \* no parked device
  MaxCommands   \* bound: commands the window sends in a behaviour

Device == [args : Args, freq : Freq]

ASSUME UhdDefaultAssumption == DefaultArgs \in Args /\ DefaultFreq \in Freq
ASSUME UhdDistinctAssumption == Sim \notin Device
ASSUME UhdBoundAssumption == MaxCommands \in Nat

VARIABLES
  cmds,      \* the command channel
  vm,        \* use_uhd, uhd_args, uhd_freq_hz, rebuild_driver, uhd_loading
  warning,   \* uhd_warning of the view model is Some
  pc,        \* where the loop is
  driver,    \* the driver in use: Sim or an open device
  parked,    \* parked_uhd: an idle device and the arguments it is filed under
  active,    \* active_uhd_args
  view,      \* the window: use_uhd, uhd_warning, and whether a frame is half done
  sent,      \* bound: commands sent
  failed,    \* history: the last attempt to open failed, nothing asked since
  seen       \* history: a frame has found use_uhd on, before any failure

loopVars == <<pc, driver, parked, active>>
vars == <<cmds, vm, warning, loopVars, view, sent, failed, seen>>

Command ==
  ({"SetUhdEnabled"} \X BOOLEAN) \cup ({"SetUhdArgs"} \X Args) \cup ({"SetUhdFreqHz"} \X Freq)

Parked == [dev : Device, label : Args]

Stage == {"start", "drain", "opening", "failed", "warned", "settle", "tick"}

TypeOK ==
  /\ cmds \in Seq(Command)
  /\ vm \in [useUhd : BOOLEAN, args : Args, freq : Freq, rebuild : BOOLEAN, loading : BOOLEAN]
  /\ warning \in BOOLEAN
  /\ pc \in Stage
  /\ driver \in Device \cup {Sim}
  /\ parked \in Parked \cup {None}
  /\ active \in Args
  /\ view \in [useUhd : BOOLEAN, warning : BOOLEAN, taking : BOOLEAN]
  /\ sent \in 0 .. MaxCommands
  /\ failed \in BOOLEAN /\ seen \in BOOLEAN

(* main probes for a USRP and, if it finds one, starts with UHD enabled. *)
Init ==
  \E probed \in BOOLEAN :
    /\ vm = [useUhd |-> probed, args |-> DefaultArgs, freq |-> DefaultFreq,
             rebuild |-> probed, loading |-> probed]
    /\ pc = IF probed THEN "start" ELSE "drain"
    /\ view = [useUhd |-> probed, warning |-> FALSE, taking |-> FALSE]
    /\ seen = probed
    /\ driver = Sim /\ parked = None /\ active = DefaultArgs
    /\ cmds = <<>> /\ warning = FALSE /\ sent = 0 /\ failed = FALSE

-----------------------------------------------------------------------------
(* The window. A frame first mirrors use_uhd, then handles the clicks. *)

Send(cmd) ==
  /\ ~view.taking /\ sent < MaxCommands
  /\ cmds' = Append(cmds, cmd)
  /\ sent' = sent + 1
  /\ UNCHANGED <<vm, warning, loopVars, failed, seen>>

ClickUhd ==
  /\ ~view.useUhd
  /\ Send(<<"SetUhdEnabled", TRUE>>)
  /\ view' = [view EXCEPT !.useUhd = TRUE, !.warning = FALSE]

ClickSim ==
  /\ view.useUhd
  /\ Send(<<"SetUhdEnabled", FALSE>>)
  /\ view' = [view EXCEPT !.useUhd = FALSE]

(* The field is there only while the selector shows UHD. *)
EnterArgs ==
  /\ view.useUhd
  /\ \E a \in Args : Send(<<"SetUhdArgs", a>>)
  /\ UNCHANGED view

(* Presets and regions set the frequency with either driver. *)
ChooseFreq ==
  /\ \E f \in Freq : Send(<<"SetUhdFreqHz", f>>)
  /\ UNCHANGED view

(* Mutants: the selector only ever goes on; the warning is taken in every frame. *)
MirrorOnlyOn == [view EXCEPT !.useUhd = view.useUhd \/ vm.useUhd]
MirrorTakesAlways == [view EXCEPT !.useUhd = vm.useUhd, !.taking = ~vm.useUhd]

Mirror ==
  [view EXCEPT !.useUhd = vm.useUhd, !.taking = (view.useUhd # vm.useUhd) /\ ~vm.useUhd]

MirrorUhd ==
  /\ ~view.taking
  /\ view' = Mirror
  /\ seen' = (seen \/ (vm.useUhd /\ ~failed))
  /\ UNCHANGED <<cmds, vm, warning, loopVars, sent, failed>>

(* Option::take: the shared warning moves into the window. *)
TakeWarning ==
  /\ view.taking
  /\ view' = [view EXCEPT !.warning = warning, !.taking = FALSE]
  /\ warning' = FALSE
  /\ UNCHANGED <<cmds, vm, loopVars, sent, failed, seen>>

-----------------------------------------------------------------------------
(* The radio loop. *)

Retuned(v, freq) == [v EXCEPT !.freq = freq, !.rebuild = @ \/ v.useUhd]

Applied(v, op, arg) ==
  CASE op = "SetUhdEnabled" -> [v EXCEPT !.useUhd = arg, !.rebuild = TRUE]
    [] op = "SetUhdArgs" -> [v EXCEPT !.args = arg, !.rebuild = @ \/ v.useUhd]
    [] op = "SetUhdFreqHz" -> Retuned(v, arg)

ApplyCommand ==
  /\ pc = "drain" /\ cmds # <<>>
  /\ vm' = Applied(vm, Head(cmds)[1], Head(cmds)[2])
  /\ warning' = (warning /\ Head(cmds) # <<"SetUhdEnabled", TRUE>>)
  /\ IF Head(cmds)[1] = "SetUhdEnabled" THEN failed' = FALSE /\ seen' = FALSE
                                        ELSE UNCHANGED <<failed, seen>>
  /\ cmds' = Tail(cmds)
  /\ UNCHANGED <<loopVars, view, sent>>

NoRebuild ==
  /\ pc = "drain" /\ cmds = <<>> /\ ~vm.rebuild
  /\ pc' = "tick"
  /\ UNCHANGED <<cmds, vm, warning, driver, parked, active, view, sent, failed, seen>>

(* The rebuild flag is swapped off; the step then does to the driver what a branch says. *)
Rebuilds(loading) ==
  /\ pc = "drain" /\ cmds = <<>> /\ vm.rebuild
  /\ vm' = [vm EXCEPT !.rebuild = FALSE, !.loading = loading]
  /\ UNCHANGED <<cmds, warning, view, sent, failed, seen>>

InUse == driver # Sim /\ active = vm.args

Reusable == parked # None /\ parked.label = vm.args

(* Mutant: a device is tuned when it is opened only. *)
UnparkedAsItWas(dev) == dev

Unparked(dev) == [dev EXCEPT !.freq = vm.freq]

(* The device in use is the one asked for: park and unpark it. *)
RetuneDevice ==
  /\ Rebuilds(vm.loading)
  /\ vm.useUhd /\ InUse
  /\ driver' = Unparked(driver)
  /\ pc' = "tick"
  /\ UNCHANGED <<parked, active>>

UnparkDevice ==
  /\ Rebuilds(vm.loading)
  /\ vm.useUhd /\ ~InUse /\ Reusable
  /\ driver' = Unparked(parked.dev)
  /\ parked' = None
  /\ active' = vm.args
  /\ pc' = "tick"

(* Mutant: the parked device is kept for later. *)
BeginOpenKeepsParked ==
  /\ Rebuilds(TRUE)
  /\ vm.useUhd /\ ~InUse /\ ~Reusable
  /\ driver' = Sim
  /\ active' = vm.args
  /\ pc' = "opening"
  /\ UNCHANGED parked

(* Every device held is dropped before UhdDevice::new runs. *)
BeginOpen ==
  /\ Rebuilds(TRUE)
  /\ vm.useUhd /\ ~InUse /\ ~Reusable
  /\ driver' = Sim
  /\ parked' = None
  /\ active' = vm.args
  /\ pc' = "opening"

(* Mutant: whatever was in use is parked. *)
ParkAnything ==
  /\ Rebuilds(vm.loading)
  /\ ~vm.useUhd
  /\ parked' = [dev |-> driver, label |-> vm.args]
  /\ driver' = Sim
  /\ pc' = "tick"
  /\ UNCHANGED active

ParkDevice ==
  /\ Rebuilds(vm.loading)
  /\ ~vm.useUhd /\ driver # Sim
  /\ parked' = [dev |-> driver, label |-> vm.args]
  /\ driver' = Sim
  /\ pc' = "tick"
  /\ UNCHANGED active

RenewSim ==
  /\ Rebuilds(vm.loading)
  /\ ~vm.useUhd /\ driver = Sim
  /\ pc' = "tick"
  /\ UNCHANGED <<driver, parked, active>>

(* UhdDevice::new returns, with or without a device. *)
OpenSucceeds ==
  /\ pc \in {"start", "opening"}
  /\ driver' = [args |-> vm.args, freq |-> vm.freq]
  /\ vm' = [vm EXCEPT !.loading = (pc = "start")]
  /\ pc' = IF pc = "start" THEN "settle" ELSE "tick"
  /\ UNCHANGED <<cmds, warning, parked, active, view, sent, failed, seen>>

OpenFails ==
  /\ pc \in {"start", "opening"}
  /\ vm' = [vm EXCEPT !.loading = (pc = "start")]
  /\ failed' = TRUE
  /\ pc' = "failed"
  /\ UNCHANGED <<cmds, warning, driver, parked, active, view, sent, seen>>

Warn ==
  /\ pc = "failed"
  /\ warning' = TRUE
  /\ pc' = "warned"
  /\ UNCHANGED <<cmds, vm, driver, parked, active, view, sent, failed, seen>>

(* In make_driver, before the loop, loading is cleared by the caller only. *)
FallBack ==
  /\ pc = "warned"
  /\ vm' = [vm EXCEPT !.useUhd = FALSE]
  /\ pc' = IF vm.loading THEN "settle" ELSE "tick"
  /\ UNCHANGED <<cmds, warning, driver, parked, active, view, sent, failed, seen>>

(* Mutant: the flag main set is left for the first tick. *)
SettleLoading ==
  /\ pc = "settle"
  /\ pc' = "drain"
  /\ UNCHANGED <<cmds, vm, warning, driver, parked, active, view, sent, failed, seen>>

(* sim_loop before its loop: the device is open, no need to open it again. *)
Settle ==
  /\ pc = "settle"
  /\ vm' = [vm EXCEPT !.loading = FALSE, !.rebuild = FALSE]
  /\ pc' = "drain"
  /\ UNCHANGED <<cmds, warning, driver, parked, active, view, sent, failed, seen>>

EndTick ==
  /\ pc = "tick"
  /\ pc' = "drain"
  /\ UNCHANGED <<cmds, vm, warning, driver, parked, active, view, sent, failed, seen>>

Window == ClickUhd \/ ClickSim \/ EnterArgs \/ ChooseFreq
Frame == MirrorUhd \/ TakeWarning

Loop ==
  \/ ApplyCommand \/ NoRebuild
  \/ RetuneDevice \/ UnparkDevice \/ BeginOpen \/ ParkDevice \/ RenewSim
  \/ OpenSucceeds \/ OpenFails \/ Warn \/ FallBack \/ Settle \/ EndTick

Next == Window \/ Frame \/ Loop

Spec == Init /\ [][Next]_vars

(***************************************************************************)
(* The radio thread runs on, UhdDevice::new returns at last, and the       *)
(* window repaints every 32 ms; nobody has to click.                       *)
(***************************************************************************)
FairSpec == Spec /\ WF_vars(Loop) /\ WF_vars(Frame)

-----------------------------------------------------------------------------
(* Properties. *)

(***************************************************************************)
(* A USRP admits one session: while a device is in use, or being opened,   *)
(* no other is kept open, parked.                                          *)
(***************************************************************************)
OneDevice == driver # Sim \/ pc \in {"start", "opening"} => parked = None

(***************************************************************************)
(* In every tick the driver is a device exactly when use_uhd is on, and it *)
(* is tuned to the frequency the users set last, however switches, retunes *)
(* and failed openings alternate.                                          *)
(***************************************************************************)
DriverTuned ==
  pc = "tick" => /\ (driver # Sim) = vm.useUhd
                 /\ driver # Sim => driver.freq = vm.freq

(* Every command is read, every opening over, every frame drawn. *)
Quiet ==
  cmds = <<>> /\ pc = "drain" /\ ~vm.rebuild /\ ~view.taking /\ view.useUhd = vm.useUhd

(***************************************************************************)
(* If a frame of the window saw use_uhd on, and opening then fails, the    *)
(* window ends up showing why: the warning is there before use_uhd goes    *)
(* off, and later frames leave it in place.                                *)
(***************************************************************************)
SeenFailureShown == Quiet /\ failed /\ seen => view.warning

(***************************************************************************)
(* Once nobody clicks any more the selector agrees with use_uhd for good,  *)
(* though a click shows in the window before the loop has heard of it.     *)
(***************************************************************************)
SelectorFollows == <>[](view.useUhd = vm.useUhd)

(* The "Opening USRP" pop-up goes away, and devices are not reopened for ever. *)
LoadingEnds == <>[]~vm.loading

(***************************************************************************)
(* model.rs:69: the side effects of a command "are part of apply, so a     *)
(* caller doesn't need to know which mutations require a rebuild": in a    *)
(* tick the device in use is the one whose arguments were set last.        *)
(***************************************************************************)
DeviceAsEntered == pc = "tick" /\ driver # Sim => driver.args = vm.args
=============================================================================
