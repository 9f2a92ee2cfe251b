-------------------------- MODULE RadioLoopProofs ---------------------------
(***************************************************************************)
(* Theorems about RadioLoop, for every set of commands, names, intervals   *)
(* and spreading factors, every timer length and every bound.              *)
(***************************************************************************)
EXTENDS RadioLoop, SequenceTheorems, TLAPS

-----------------------------------------------------------------------------
(* Typing. *)

LEMMA CommandType ==
  ASSUME NEW op \in Ops, NEW arg \in Argument(op)
  PROVE  <<op, arg>> \in Command
BY DEF Command

LEMMA SendPreservesType ==
  ASSUME TypeOK, NEW op \in Ops, NEW arg \in Argument(op), Send(op, arg)
  PROVE  /\ cmds' \in Seq(Command)
         /\ count' \in [sent : 0 .. MaxCommands, foreign : 0 .. MaxForeign]
<1>1. Append(cmds, <<op, arg>>) \in Seq(Command)
  BY CommandType, AppendProperties DEF TypeOK
<1>2. count.sent + 1 \in 0 .. MaxCommands
  BY RadioBoundAssumption DEF Send, TypeOK
<1> QED
  BY <1>1, <1>2 DEF Send, TypeOK

(* Command::apply takes a well-formed view model to a well-formed one. *)
LEMMA AppliedType ==
  ASSUME NEW v \in ViewModel, NEW op \in Ops, NEW arg \in Argument(op),
         op \in Operation
  PROVE  Applied(v, op, arg) \in ViewModel
<1>1. CASE op = "SendText"
  <2>1. arg \in Text /\ v.txQueue \in Seq(Text)
    BY <1>1 DEF Argument, ViewModel
  <2>2. Append(v.txQueue, arg) \in Seq(Text)
    BY <2>1, AppendProperties
  <2> QED
    BY <1>1, <2>2 DEF Applied, Queued, ViewModel
<1>2. CASE op = "SetTxDest"
  <2>1. arg \in Destination
    BY <1>2 DEF Argument
  <2> QED
    BY <1>2, <2>1 DEF Applied, ViewModel
<1>3. CASE op \in {"SetMode", "SetName", "SetIntervalMs", "SetSf"}
  BY <1>3 DEF Applied, Argument, Renamed, ViewModel
<1>4. CASE op \in {"SetAutoTx", "SetRunning", "SetUhdEnabled"}
  BY <1>4 DEF Applied, Argument, ViewModel
<1> QED
  BY <1>1, <1>2, <1>3, <1>4 DEF Operation

(* A text's number is at most the number of commands, so it stays a Text. *)
TextsCounted == Len(texts) <= count.sent

LEMMA SentOneMore ==
  ASSUME TypeOK, NEW op, NEW arg, Send(op, arg)
  PROVE  count'.sent = count.sent + 1 /\ count.sent \in Nat
BY RadioBoundAssumption DEF Send, TypeOK

LEMMA UsersPreserveType ==
  ASSUME TypeOK, TextsCounted, Users
  PROVE  (TypeOK /\ TextsCounted)'
<1>1. ASSUME SendSetting
      PROVE  (TypeOK /\ TextsCounted)'
  <2>1. PICK op \in Ops : \E arg \in Argument(op) : Send(op, arg)
    BY <1>1 DEF SendSetting
  <2>2. PICK arg \in Argument(op) : Send(op, arg)
    BY <2>1
  <2>3. TypeOK'
    BY <1>1, <2>2, SendPreservesType DEF SendSetting, Send, TypeOK, loopVars, userVars
  <2>4. texts' = texts /\ count'.sent = count.sent + 1 /\ count.sent \in Nat
    BY <1>1, <2>2, SentOneMore DEF SendSetting, userVars
  <2>5. Len(texts) \in Nat
    BY LenProperties DEF TypeOK
  <2> QED
    BY <2>3, <2>4, <2>5 DEF TextsCounted
<1>2. ASSUME SendSetTxDest
      PROVE  (TypeOK /\ TextsCounted)'
  <2>1. count.sent + 1 \in Destination \ {0}
    BY <1>2, RadioBoundAssumption DEF SendSetTxDest, Send, TypeOK, Destination
  <2>2. Argument("SetTxDest") = Destination \ {0}
    BY DEF Argument
  <2>3. "SetTxDest" \in Ops /\ Send("SetTxDest", count.sent + 1)
    BY <1>2 DEF SendSetTxDest
  <2>4. TypeOK'
    BY <1>2, <2>1, <2>2, <2>3, SendPreservesType DEF SendSetTxDest, Send, TypeOK, loopVars
  <2>5. texts' = texts /\ count'.sent = count.sent + 1 /\ count.sent \in Nat
    BY <1>2, <2>3, SentOneMore DEF SendSetTxDest
  <2>6. Len(texts) \in Nat
    BY LenProperties DEF TypeOK
  <2> QED
    BY <2>4, <2>5, <2>6 DEF TextsCounted
<1>3. ASSUME SendText
      PROVE  (TypeOK /\ TextsCounted)'
  <2>1. "SendText" \in Ops /\ Send("SendText", Len(texts) + 1)
    BY <1>3 DEF SendText
  <2>2. Argument("SendText") = Text
    BY DEF Argument
  <2>3. PICK fits \in BOOLEAN : texts' = Append(texts, [dest |-> uiDest, fits |-> fits])
    BY <1>3 DEF SendText
  <2>4. texts' \in Seq([dest : Destination, fits : BOOLEAN])
    BY <2>3, AppendProperties DEF TypeOK
  <2>5. Len(texts) + 1 \in Text
    <3>1. count.sent \in 0 .. MaxCommands /\ count.sent < MaxCommands /\ Len(texts) \in Nat
      BY <2>1, LenProperties DEF Send, TypeOK
    <3> QED
      BY <3>1, RadioBoundAssumption DEF TextsCounted, Text
  <2>6. TypeOK'
    BY <1>3, <2>1, <2>2, <2>4, <2>5, SendPreservesType DEF SendText, Send, TypeOK, loopVars
  <2>7. Len(texts') = Len(texts) + 1 /\ Len(texts) \in Nat
    BY <2>3, AppendProperties, LenProperties DEF TypeOK
  <2>8. count'.sent = count.sent + 1 /\ count.sent \in Nat
    BY <2>1, SentOneMore
  <2> QED
    BY <2>6, <2>7, <2>8 DEF TextsCounted
<1> QED
  BY <1>1, <1>2, <1>3 DEF Users

LEMMA PushType ==
  ASSUME TypeOK, NEW kind \in {"beacon", "text", "auto", "relay"}
  PROVE  /\ Push(driver, kind) \in Seq(Pushed)
         /\ Len(Push(driver, kind)) = Len(driver) + 1
         /\ \A k \in 1 .. Len(driver) : Push(driver, kind)[k] = driver[k]
         /\ Push(driver, kind)[Len(driver) + 1] = [kind |-> kind, sf |-> curSf, name |-> node]
<1>1. [kind |-> kind, sf |-> curSf, name |-> node] \in Pushed
  BY DEF TypeOK, Pushed
<1> QED
  BY <1>1, AppendProperties DEF Push, TypeOK

(* The actions that handle a text leave all but five variables alone. *)
LEMMA ManualPreservesType ==
  ASSUME TypeOK, TransmitText \/ SkipText \/ EndManual
  PROVE  TypeOK'
<1>1. vm.txQueue \in Seq(Text)
  BY DEF TypeOK, ViewModel
<1>2. ASSUME vm.txQueue # <<>>
      PROVE  Head(vm.txQueue) \in Text /\ Tail(vm.txQueue) \in Seq(Text)
  BY <1>1, <1>2, HeadTailProperties
<1>3. CASE TransmitText
  <2>1. vm' \in ViewModel
    BY <1>2, <1>3 DEF TransmitText, TypeOK, ViewModel
  <2>2. aired' \in Seq([text : Text, dest : Destination])
    BY <1>2, <1>3, AppendProperties DEF TransmitText, TypeOK
  <2>3. driver' \in Seq(Pushed)
    BY <1>3, PushType DEF TransmitText
  <2> QED
    BY <1>3, <2>1, <2>2, <2>3 DEF TransmitText, TypeOK, userVars
<1>4. CASE SkipText
  <2>1. vm' \in ViewModel
    BY <1>2, <1>4 DEF SkipText, TypeOK, ViewModel
  <2> QED
    BY <1>2, <1>4, <2>1 DEF SkipText, TypeOK, userVars
<1>5. CASE EndManual
  <2>1. vm' \in ViewModel
    <3>1. <<>> \in Seq(Text)
      BY EmptySeq
    <3> QED
      BY <1>5, <3>1 DEF EndManual, QueueAfterManual, TypeOK, ViewModel
  <2>2. {vm.txQueue[k] : k \in 1 .. Len(vm.txQueue)} \subseteq Text
    BY <1>1, ElementOfSeq
  <2> QED
    BY <1>5, <2>1, <2>2 DEF EndManual, TypeOK, userVars, Stage
<1> QED
  BY <1>3, <1>4, <1>5

LEMMA TickDriverPreservesType ==
  ASSUME TypeOK, TickDriver
  PROVE  TypeOK'
<1>1. txIn' \in Nat /\ beaconIn' \in Nat
  BY DEF TickDriver, TypeOK
<1>2. PICK done \in 0 .. Len(driver) :
        /\ driver' = SubSeq(driver, done + 1, Len(driver))
        /\ OnlyEchoes(done) \/ EchoesAndForeign(done)
  BY DEF TickDriver
<1> DEFINE Decoded == {"echo"} \cup Foreign
<1>3. done \in Nat /\ Len(driver) \in Nat
  BY LenProperties DEF TypeOK
<1>4. driver' \in Seq(Pushed)
  <2>1. \A i \in done + 1 .. Len(driver) : driver[i] \in Pushed
    BY <1>3, ElementOfSeq DEF TypeOK
  <2> QED
    BY <1>2, <1>3, <2>1, SubSeqProperties
<1>5. Echoes(done) \in Seq(Decoded)
  BY <1>3, SeqDef DEF Echoes
<1>6. rx' \in Seq(Decoded) /\ count' \in [sent : 0 .. MaxCommands, foreign : 0 .. MaxForeign]
  <2>1. CASE OnlyEchoes(done)
    BY <1>5, <2>1 DEF OnlyEchoes, TypeOK
  <2>2. CASE EchoesAndForeign(done)
    <3>1. PICK f \in Foreign : rx' \in {<<f>> \o Echoes(done), Append(Echoes(done), f)}
      BY <2>2 DEF EchoesAndForeign
    <3>2. <<f>> \in Seq(Decoded) /\ f \in Decoded
      OBVIOUS
    <3>3. /\ <<f>> \o Echoes(done) \in Seq(Decoded)
          /\ Append(Echoes(done), f) \in Seq(Decoded)
      BY <1>5, <3>2, ConcatProperties, AppendProperties
    <3>4. count' \in [sent : 0 .. MaxCommands, foreign : 0 .. MaxForeign]
      <4>1. /\ count \in [sent : 0 .. MaxCommands, foreign : 0 .. MaxForeign]
            /\ count.foreign < MaxForeign
            /\ count' = [count EXCEPT !.foreign = count.foreign + 1]
        BY <2>2 DEF EchoesAndForeign, TypeOK
      <4>2. count.foreign + 1 \in 0 .. MaxForeign
        BY <4>1, RadioBoundAssumption
      <4> QED
        BY <4>1, <4>2
    <3> QED
      BY <3>1, <3>3, <3>4
  <2> QED
    BY <1>2, <2>1, <2>2
<1> QED
  BY <1>1, <1>4, <1>6 DEF TickDriver, TypeOK, userVars, Stage

LEMMA LoopPreservesType ==
  ASSUME TypeOK, Loop
  PROVE  TypeOK'
<1>1. ASSUME ApplyCommand
      PROVE  TypeOK'
  <2>1. Head(cmds) \in Command /\ Tail(cmds) \in Seq(Command)
    BY <1>1, HeadTailProperties DEF ApplyCommand, TypeOK
  <2>2. PICK op \in Ops : Head(cmds) \in {op} \X Argument(op)
    BY <2>1 DEF Command
  <2>3. vm' = Applied(vm, op, Head(cmds)[2]) /\ Head(cmds)[2] \in Argument(op)
    BY <1>1, <2>2 DEF ApplyCommand
  <2>4. vm' \in ViewModel
    BY <2>3, OpsAssumption, AppliedType DEF TypeOK
  <2> QED
    BY <1>1, <2>1, <2>4 DEF ApplyCommand, TypeOK, userVars
<1>2. ASSUME StartTick
      PROVE  TypeOK'
  BY <1>2 DEF StartTick, TypeOK, userVars, Stage
<1>3. ASSUME Rebuild
      PROVE  TypeOK'
  <2>1. vm' \in ViewModel /\ node' \in Name
    BY <1>3 DEF Rebuild, TypeOK, ViewModel
  <2>2. driver' \in Seq(Pushed) /\ txIn' \in Nat /\ beaconIn' \in Nat
    BY <1>3, EmptySeq, TickAssumption DEF Rebuild, TypeOK
  <2> QED
    BY <1>3, <2>1, <2>2 DEF Rebuild, TypeOK, userVars, Stage
<1>4. ASSUME ReadParams
      PROVE  TypeOK'
  <2>1. /\ prevInterval' \in Interval /\ curSf' \in Sf /\ txAllowed' \in BOOLEAN
        /\ vm.interval \in Nat
    BY <1>4, TickAssumption DEF ReadParams, TypeOK, ViewModel
  <2>2. driver' \in Seq(Pushed) /\ txIn' \in Nat
    BY <1>4, <2>1, EmptySeq DEF ReadParams, PulledIn, Earlier, Backlog, TypeOK
  <2> QED
    BY <1>4, <2>1, <2>2 DEF ReadParams, TypeOK, userVars, Stage
<1>5. ASSUME Beacon
      PROVE  TypeOK'
  <2>1. driver' \in Seq(Pushed)
    BY <1>5, PushType DEF Beacon, TypeOK
  <2>2. beaconIn' \in Nat /\ dest' \in Destination
    BY <1>5, TickAssumption DEF Beacon, ReadDest, TypeOK, ViewModel
  <2> QED
    BY <1>5, <2>1, <2>2 DEF Beacon, TypeOK, userVars, Stage
<1>6. ASSUME TransmitText \/ SkipText \/ EndManual
      PROVE  TypeOK'
  BY <1>6, ManualPreservesType
<1>7. ASSUME AutoTx
      PROVE  TypeOK'
  <2>1. driver' \in Seq(Pushed) /\ txIn' \in Nat
    BY <1>7, PushType, TickAssumption DEF AutoTx, TypeOK
  <2> QED
    BY <1>7, <2>1 DEF AutoTx, TypeOK, userVars, Stage
<1>8. ASSUME NoAutoTx
      PROVE  TypeOK'
  BY <1>8 DEF NoAutoTx, RestingTimer, TypeOK, userVars, Stage
<1>9. ASSUME TickDriver
      PROVE  TypeOK'
  BY <1>9, TickDriverPreservesType
<1>10. ASSUME DecodeFrame
       PROVE  TypeOK'
  <2>1. rx' \in Seq({"echo"} \cup Foreign)
    BY <1>10, HeadTailProperties DEF DecodeFrame, TypeOK
  <2>2. driver' \in Seq(Pushed)
    BY <1>10, PushType DEF DecodeFrame, TypeOK
  <2> QED
    BY <1>10, <2>1, <2>2 DEF DecodeFrame, TypeOK, userVars
<1>11. ASSUME EndTick
       PROVE  TypeOK'
  BY <1>11 DEF EndTick, TypeOK, userVars, Stage
<1> QED
  BY <1>1, <1>2, <1>3, <1>4, <1>5, <1>6, <1>7, <1>8, <1>9, <1>10, <1>11 DEF Loop

(* The loop neither sends a command nor writes a text. *)
LEMMA LoopPreservesCount ==
  ASSUME TypeOK, TextsCounted, Loop
  PROVE  TextsCounted'
<1>1. texts' = texts
  BY DEF Loop, ApplyCommand, StartTick, Rebuild, ReadParams, Beacon, TransmitText, SkipText,
         EndManual, AutoTx, NoAutoTx, TickDriver, DecodeFrame, EndTick, userVars
<1>2. CASE TickDriver
  <2>1. PICK done \in 0 .. Len(driver) : OnlyEchoes(done) \/ EchoesAndForeign(done)
    BY <1>2 DEF TickDriver
  <2>2. count'.sent = count.sent
    BY <2>1 DEF OnlyEchoes, EchoesAndForeign, TypeOK
  <2> QED
    BY <1>1, <2>2 DEF TextsCounted
<1>3. CASE ~TickDriver
  <2>1. count' = count
    BY <1>3 DEF Loop, ApplyCommand, StartTick, Rebuild, ReadParams, Beacon, TransmitText,
                SkipText, EndManual, AutoTx, NoAutoTx, DecodeFrame, EndTick
  <2> QED
    BY <1>1, <2>1 DEF TextsCounted
<1> QED
  BY <1>2, <1>3

(***************************************************************************)
(* The loop's state stays well formed: no timer goes below zero, each text *)
(* in the queue and on the air has a number that was given out.            *)
(***************************************************************************)
THEOREM RadioTyping == Spec => [](TypeOK /\ TextsCounted)
<1>1. Init => TypeOK /\ TextsCounted
  <2>1. SUFFICES ASSUME Init
                 PROVE  TypeOK /\ TextsCounted
    OBVIOUS
  <2>2. count = [sent |-> 0, foreign |-> 0] /\ 0 \in 0 .. MaxCommands /\ 0 \in 0 .. MaxForeign
    BY <2>1, RadioBoundAssumption DEF Init
  <2>3. vm \in ViewModel
    BY <2>1, <2>2, EmptySeq, DefaultAssumption DEF Init, ViewModel, Mode, Destination
  <2>4. TypeOK
    <3>1. /\ cmds \in Seq(Command)
          /\ driver \in Seq(Pushed)
          /\ rx \in Seq({"echo"} \cup Foreign)
          /\ texts \in Seq([dest : Destination, fits : BOOLEAN])
          /\ aired \in Seq([text : Text, dest : Destination])
      BY <2>1, EmptySeq DEF Init
    <3>2. count \in [sent : 0 .. MaxCommands, foreign : 0 .. MaxForeign]
      BY <2>2
    <3>3. /\ node \in Name /\ curSf \in Sf /\ prevInterval \in Interval
          /\ txIn \in Nat /\ beaconIn \in Nat
          /\ txAllowed \in BOOLEAN /\ dest \in Destination
          /\ uiDest \in Destination /\ dropped \in SUBSET Text /\ pc \in Stage
      BY <2>1, <2>2, DefaultAssumption, TickAssumption DEF Init, Stage, Destination
    <3> QED
      BY <2>3, <3>1, <3>2, <3>3 DEF TypeOK
  <2>5. TextsCounted
    BY <2>1, <2>2, EmptySeq DEF Init, TextsCounted
  <2> QED
    BY <2>4, <2>5
<1>2. TypeOK /\ TextsCounted /\ [Next]_vars => (TypeOK /\ TextsCounted)'
  <2>1. ASSUME TypeOK, TextsCounted, Users
        PROVE  (TypeOK /\ TextsCounted)'
    BY <2>1, UsersPreserveType
  <2>2. ASSUME TypeOK, TextsCounted, Loop
        PROVE  (TypeOK /\ TextsCounted)'
    BY <2>2, LoopPreservesType, LoopPreservesCount
  <2>3. ASSUME TypeOK, TextsCounted, UNCHANGED vars
        PROVE  (TypeOK /\ TextsCounted)'
    BY <2>3 DEF TypeOK, TextsCounted, vars, loopVars, userVars
  <2> QED
    BY <2>1, <2>2, <2>3 DEF Next
<1> QED
  BY <1>1, <1>2, PTL DEF Spec

-----------------------------------------------------------------------------
(* The auto-TX timer. *)

(***************************************************************************)
(* No sequence of interval changes, driver rebuilds, pauses and mode       *)
(* switches moves the next auto TX further away than the interval in force *)
(* or the initial delay. The property is inductive by itself: a new        *)
(* interval is taken over in the step that pulls the timer in.             *)
(***************************************************************************)
THEOREM AutoTxComes == Spec => []AutoTxNotStarved
<1>1. Init => AutoTxNotStarved
  BY TickAssumption, DefaultAssumption DEF Init, AutoTxNotStarved, Later
<1>2. TypeOK /\ AutoTxNotStarved /\ [Next]_vars => AutoTxNotStarved'
  <2> SUFFICES ASSUME TypeOK, AutoTxNotStarved, [Next]_vars
               PROVE  AutoTxNotStarved'
    OBVIOUS
  <2>1. /\ txIn \in Nat /\ prevInterval \in Nat /\ START_TX \in Nat /\ vm.interval \in Nat
        /\ txIn <= prevInterval \/ txIn <= START_TX
    BY TickAssumption DEF TypeOK, AutoTxNotStarved, Later, ViewModel
  <2>2. CASE ReadParams
    BY <2>1, <2>2 DEF ReadParams, PulledIn, Earlier, AutoTxNotStarved, Later
  <2>3. CASE Rebuild
    BY <2>1, <2>3 DEF Rebuild, AutoTxNotStarved, Later
  <2>4. CASE AutoTx \/ NoAutoTx
    BY <2>1, <2>4 DEF AutoTx, NoAutoTx, RestingTimer, AutoTxNotStarved, Later
  <2>5. CASE TickDriver
    BY <2>1, <2>5 DEF TickDriver, AutoTxNotStarved, Later
  <2>6. CASE ~(ReadParams \/ Rebuild \/ AutoTx \/ NoAutoTx \/ TickDriver)
    <3>1. UNCHANGED <<txIn, prevInterval>>
      BY <2>6 DEF Next, Users, SendSetting, SendSetTxDest, SendText, Send, Loop, ApplyCommand,
         StartTick, Beacon, TransmitText, SkipText, EndManual, DecodeFrame, EndTick, vars,
         loopVars
    <3> QED
      BY <3>1 DEF AutoTxNotStarved
  <2> QED
    BY <2>2, <2>3, <2>4, <2>5, <2>6
<1> QED
  BY <1>1, <1>2, RadioTyping, PTL DEF Spec

-----------------------------------------------------------------------------
(* What a step may do to the frames the PHY holds. *)

PushStage == {"beacon", "manual", "auto", "decode"}

Pushes ==
  /\ txAllowed /\ pc \in PushStage
  /\ curSf' = curSf
  /\ \E kind \in {"beacon", "text", "auto", "relay"} : driver' = Push(driver, kind)
Finishes ==
  /\ curSf' = curSf
  /\ \E done \in 0 .. Len(driver) : driver' = SubSeq(driver, done + 1, Len(driver))
Clears == driver' = <<>>
Keeps == curSf' = curSf /\ driver' = driver

(***************************************************************************)
(* Every step of the loop and of the users does one of four things to the  *)
(* driver, and only a clearing step changes the spreading factor.          *)
(***************************************************************************)
LEMMA DriverStep ==
  ASSUME TypeOK, [Next]_vars
  PROVE  Pushes \/ Finishes \/ Clears \/ Keeps
<1>1. CASE Users
  BY <1>1 DEF Users, SendSetting, SendSetTxDest, SendText, Send, loopVars, Keeps
<1>2. CASE UNCHANGED vars
  BY <1>2 DEF vars, loopVars, Keeps
<1>3. CASE ApplyCommand \/ StartTick \/ SkipText \/ EndManual \/ NoAutoTx \/ EndTick
  BY <1>3 DEF ApplyCommand, StartTick, SkipText, EndManual, NoAutoTx, EndTick, Keeps
<1>4. CASE Rebuild
  BY <1>4 DEF Rebuild, Clears, Keeps
<1>5. CASE ReadParams
  BY <1>5 DEF ReadParams, Backlog, Clears, Keeps
<1>6. CASE Beacon
  BY <1>6 DEF Beacon, Pushes, PushStage, Keeps
<1>7. CASE TransmitText
  BY <1>7 DEF TransmitText, Pushes, PushStage
<1>8. CASE AutoTx
  BY <1>8 DEF AutoTx, Pushes, PushStage
<1>9. CASE TickDriver
  BY <1>9 DEF TickDriver, Finishes
<1>10. CASE DecodeFrame
  BY <1>10 DEF DecodeFrame, RelaysNow, Pushes, PushStage, Keeps
<1> QED
  BY <1>1, <1>2, <1>3, <1>4, <1>5, <1>6, <1>7, <1>8, <1>9, <1>10 DEF Next, Loop

LEMMA FinishedSuffix ==
  ASSUME TypeOK, Finishes
  PROVE  /\ Len(driver') <= Len(driver)
         /\ \A k \in 1 .. Len(driver') : \E i \in 1 .. Len(driver) : driver'[k] = driver[i]
<1>1. PICK done \in 0 .. Len(driver) : driver' = SubSeq(driver, done + 1, Len(driver))
  BY DEF Finishes
<1>2. done \in Nat /\ Len(driver) \in Nat
  BY LenProperties DEF TypeOK
<1>3. \A i \in done + 1 .. Len(driver) : driver[i] \in Pushed
  BY <1>2, ElementOfSeq DEF TypeOK
<1>4. /\ Len(driver') = Len(driver) - done
      /\ \A k \in 1 .. Len(driver) - done : driver'[k] = driver[done + k]
  BY <1>1, <1>2, <1>3, SubSeqProperties
<1> QED
  BY <1>1, <1>2, <1>4

(***************************************************************************)
(* Whatever settings change while frames are still in the air, no frame    *)
(* reaches our receiver modulated for another spreading factor.            *)
(***************************************************************************)
THEOREM ModemsAgree == Spec => []ModemMatches
<1>1. Init => ModemMatches
  BY EmptySeq DEF Init, ModemMatches
<1>2. TypeOK /\ ModemMatches /\ [Next]_vars => ModemMatches'
  <2> SUFFICES ASSUME TypeOK, ModemMatches, [Next]_vars
               PROVE  ModemMatches'
    OBVIOUS
  <2>1. CASE Pushes
    <3>1. PICK kind \in {"beacon", "text", "auto", "relay"} : driver' = Push(driver, kind)
      BY <2>1 DEF Pushes
    <3>2. Len(driver) \in Nat
      BY LenProperties DEF TypeOK
    <3>3. /\ Len(driver') = Len(driver) + 1
          /\ \A k \in 1 .. Len(driver) : driver'[k] = driver[k]
          /\ driver'[Len(driver) + 1].sf = curSf
      BY <3>1, PushType
    <3>4. \A k \in 1 .. Len(driver') : k \in 1 .. Len(driver) \/ k = Len(driver) + 1
      BY <3>2, <3>3
    <3> QED
      BY <2>1, <3>3, <3>4 DEF Pushes, ModemMatches
  <2>2. CASE Finishes
    BY <2>2, FinishedSuffix DEF ModemMatches, Finishes
  <2>3. CASE Clears
    BY <2>3, EmptySeq DEF Clears, ModemMatches
  <2>4. CASE Keeps
    BY <2>4 DEF Keeps, ModemMatches
  <2> QED
    BY <2>1, <2>2, <2>3, <2>4, DriverStep
<1> QED
  BY <1>1, <1>2, RadioTyping, PTL DEF Spec

-----------------------------------------------------------------------------
(* What the tick has read agrees with the view model until the next drain. *)

(***************************************************************************)
(* A node that bears another name than the view model's is marked for a    *)
(* rebuild, and the mark is gone when a frame can be built; tx_allowed is  *)
(* that of the mode in every stage that transmits.                         *)
(***************************************************************************)
TickFresh ==
  /\ ~vm.rebuildNodes => node = vm.name
  /\ pc \notin {"drain", "rebuild"} => ~vm.rebuildNodes
  /\ pc \in PushStage \cup {"phy"} => txAllowed = (vm.mode # "Listen")

LEMMA AppliedMarks ==
  ASSUME NEW v \in ViewModel, NEW op \in Operation, NEW arg
  PROVE  LET w == Applied(v, op, arg)
         IN  ~w.rebuildNodes => ~v.rebuildNodes /\ w.name = v.name
<1>1. CASE op \in {"SetMode", "SetName"}
  BY <1>1 DEF Applied, Renamed, ViewModel
<1>2. CASE op \notin {"SetMode", "SetName"}
  BY <1>2 DEF Applied, Operation, ViewModel
<1> QED
  BY <1>1, <1>2

LEMMA FreshTicks == Spec => []TickFresh
<1>1. Init => TickFresh
  BY DEF Init, TickFresh, PushStage
<1>2. TypeOK /\ TickFresh /\ [Next]_vars => TickFresh'
  <2> SUFFICES ASSUME TypeOK, TickFresh, [Next]_vars
               PROVE  TickFresh'
    OBVIOUS
  <2>1. CASE ApplyCommand
    <3>1. Head(cmds) \in Command
      BY <2>1, HeadTailProperties DEF ApplyCommand, TypeOK
    <3>2. PICK op \in Ops : Head(cmds) \in {op} \X Argument(op)
      BY <3>1 DEF Command
    <3>3. vm' = Applied(vm, op, Head(cmds)[2]) /\ op \in Operation
      BY <2>1, <3>2, OpsAssumption DEF ApplyCommand
    <3>4. ~vm'.rebuildNodes => ~vm.rebuildNodes /\ vm'.name = vm.name
      BY <3>3, AppliedMarks DEF TypeOK
    <3> QED
      BY <2>1, <3>4 DEF ApplyCommand, TickFresh, PushStage
  <2>2. CASE Rebuild
    <3>1. vm'.name = vm.name /\ ~vm'.rebuildNodes
      BY <2>2 DEF Rebuild, TypeOK, ViewModel
    <3> QED
      BY <2>2, <3>1 DEF Rebuild, TickFresh, PushStage
  <2>3. CASE ReadParams
    BY <2>3 DEF ReadParams, TickFresh, PushStage
  <2>4. CASE TransmitText \/ SkipText \/ EndManual
    <3>1. vm'.name = vm.name /\ vm'.rebuildNodes = vm.rebuildNodes /\ vm'.mode = vm.mode
      BY <2>4 DEF TransmitText, SkipText, EndManual, TypeOK, ViewModel
    <3> QED
      BY <2>4, <3>1 DEF TransmitText, SkipText, EndManual, TickFresh, PushStage
  <2>5. CASE StartTick \/ Beacon \/ AutoTx \/ NoAutoTx \/ TickDriver \/ DecodeFrame \/ EndTick
    BY <2>5 DEF StartTick, Beacon, AutoTx, NoAutoTx, TickDriver, DecodeFrame, EndTick,
                TickFresh, PushStage
  <2>6. CASE Users \/ UNCHANGED vars
    BY <2>6 DEF Users, SendSetting, SendSetTxDest, SendText, Send, vars, loopVars, TickFresh
  <2> QED
    BY <2>1, <2>2, <2>3, <2>4, <2>5, <2>6 DEF Next, Loop
<1> QED
  BY <1>1, <1>2, RadioTyping, PTL DEF Spec

(***************************************************************************)
(* In Listen mode no step hands a frame to the PHY, whatever is queued,    *)
(* due or received, from the first tick after the mode was drained.        *)
(***************************************************************************)
THEOREM ListenPushesNothing == Spec => NoPushInListen
<1>1. TypeOK /\ TickFresh /\ [Next]_vars
        => [vm.mode = "Listen" => Len(driver') <= Len(driver)]_vars
  <2> SUFFICES ASSUME TypeOK, TickFresh, [Next]_vars, vm.mode = "Listen"
               PROVE  Len(driver') <= Len(driver)
    OBVIOUS
  <2>1. ~Pushes
    BY DEF TickFresh, Pushes
  <2>2. CASE Finishes
    BY <2>2, FinishedSuffix
  <2>3. CASE Clears \/ Keeps
    BY <2>3, EmptySeq, LenProperties DEF Clears, Keeps, TypeOK
  <2> QED
    BY <2>1, <2>2, <2>3, DriverStep
<1> QED
  BY <1>1, RadioTyping, FreshTicks, PTL DEF Spec, NoPushInListen

(***************************************************************************)
(* Every frame is built by a node that bears the name the view model held  *)
(* when the frame was handed to the PHY.                                   *)
(***************************************************************************)
THEOREM FramesBearOurName == Spec => FramesNameUs
<1>1. TypeOK /\ TickFresh /\ [Next]_vars
        => [Len(driver') > Len(driver) => driver'[Len(driver')].name = vm.name]_vars
  <2> SUFFICES ASSUME TypeOK, TickFresh, [Next]_vars, Len(driver') > Len(driver)
               PROVE  driver'[Len(driver')].name = vm.name
    OBVIOUS
  <2>1. Len(driver) \in Nat
    BY LenProperties DEF TypeOK
  <2>2. CASE Pushes
    <3>1. PICK kind \in {"beacon", "text", "auto", "relay"} : driver' = Push(driver, kind)
      BY <2>2 DEF Pushes
    <3>2. node = vm.name
      BY <2>2 DEF Pushes, TickFresh, PushStage
    <3> QED
      BY <3>1, <3>2, PushType
  <2>3. CASE Finishes
    <3>1. Len(driver') <= Len(driver) /\ Len(driver') \in Nat
      <4>1. PICK done \in 0 .. Len(driver) : driver' = SubSeq(driver, done + 1, Len(driver))
        BY <2>3 DEF Finishes
      <4>2. \A i \in done + 1 .. Len(driver) : driver[i] \in Pushed
        BY <2>1, ElementOfSeq DEF TypeOK
      <4>3. Len(driver') = Len(driver) - done
        BY <2>1, <4>1, <4>2, SubSeqProperties
      <4> QED
        BY <2>1, <4>3
    <3> QED
      BY <2>1, <3>1
  <2>4. CASE Clears \/ Keeps
    BY <2>1, <2>4, EmptySeq DEF Clears, Keeps
  <2> QED
    BY <2>2, <2>3, <2>4, DriverStep
<1> QED
  BY <1>1, RadioTyping, FreshTicks, PTL DEF Spec, FramesNameUs

=============================================================================
