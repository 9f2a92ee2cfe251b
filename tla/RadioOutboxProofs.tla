------------------------- MODULE RadioOutboxProofs --------------------------
(***************************************************************************)
(* RadioLoop implements TextOutbox, for every set of commands and every    *)
(* bound; and the destination a text is sent to.                           *)
(***************************************************************************)
EXTENDS RadioLoopProofs

IsText(j) == cmds[j][1] = "SendText"

(***************************************************************************)
(* The numbers of the texts grow along the queue and then along the        *)
(* channel, and stay below the next to be given out. Without it the head   *)
(* of the queue need not be the oldest text.                               *)
(***************************************************************************)
TextOrder ==
  /\ \A i, j \in 1 .. Len(vm.txQueue) : i < j => vm.txQueue[i] < vm.txQueue[j]
  /\ \A i, j \in 1 .. Len(cmds) : i < j /\ IsText(i) /\ IsText(j) => cmds[i][2] < cmds[j][2]
  /\ \A i \in 1 .. Len(vm.txQueue), j \in 1 .. Len(cmds) :
       IsText(j) => vm.txQueue[i] < cmds[j][2]
  /\ \A j \in 1 .. Len(cmds) : IsText(j) => cmds[j][2] <= Len(texts)
  /\ \A i \in 1 .. Len(vm.txQueue) : vm.txQueue[i] <= Len(texts)

OutboxInv == TypeOK /\ TextsCounted /\ TextOrder

Waiting == QueuedTexts \cup Unread
AiredTexts == [k \in DOMAIN aired |-> aired[k].text]

-----------------------------------------------------------------------------
(* What the channel and the queue hold. *)

LEMMA ChannelFacts ==
  ASSUME TypeOK
  PROVE  /\ cmds \in Seq(Command) /\ Len(cmds) \in Nat /\ DOMAIN cmds = 1 .. Len(cmds)
         /\ vm.txQueue \in Seq(Text) /\ Len(vm.txQueue) \in Nat
         /\ DOMAIN vm.txQueue = 1 .. Len(vm.txQueue)
         /\ \A i \in 1 .. Len(vm.txQueue) : vm.txQueue[i] \in Text
         /\ Len(texts) \in Nat
         /\ Unread = {cmds[j][2] : j \in {i \in 1 .. Len(cmds) : IsText(i)}}
         /\ QueuedTexts = {vm.txQueue[k] : k \in 1 .. Len(vm.txQueue)}
<1>1. cmds \in Seq(Command) /\ Len(cmds) \in Nat /\ DOMAIN cmds = 1 .. Len(cmds)
  BY LenProperties DEF TypeOK
<1>2. /\ vm.txQueue \in Seq(Text) /\ Len(vm.txQueue) \in Nat
      /\ DOMAIN vm.txQueue = 1 .. Len(vm.txQueue)
  BY LenProperties DEF TypeOK, ViewModel
<1>3. \A i \in 1 .. Len(vm.txQueue) : vm.txQueue[i] \in Text
  BY <1>2, ElementOfSeq
<1>4. Len(texts) \in Nat
  BY LenProperties DEF TypeOK
<1> QED
  BY <1>1, <1>2, <1>3, <1>4 DEF Unread, QueuedTexts, IsText

LEMMA TextArgument ==
  ASSUME TypeOK, NEW j \in 1 .. Len(cmds), IsText(j)
  PROVE  cmds[j][2] \in Text /\ cmds[j][2] \in Nat
<1>1. cmds[j] \in Command
  BY ElementOfSeq DEF TypeOK
<1>2. PICK op \in Ops : cmds[j] \in {op} \X Argument(op)
  BY <1>1 DEF Command
<1>3. op = "SendText" /\ cmds[j][2] \in Argument(op)
  BY <1>2 DEF IsText
<1>4. Argument("SendText") = Text
  BY DEF Argument
<1>5. cmds[j][2] \in Text
  BY <1>3, <1>4
<1> QED
  BY <1>5, RadioBoundAssumption DEF Text

LEMMA TextIsNat == \A t \in Text : t \in Nat
BY RadioBoundAssumption DEF Text

(* A step that keeps channel, queue and texts keeps the order. *)
LEMMA OrderKept ==
  ASSUME TextOrder, cmds' = cmds, vm'.txQueue = vm.txQueue, texts' = texts
  PROVE  TextOrder'
BY DEF TextOrder, IsText

(* A command that is no text leaves the texts on the channel alone. *)
LEMMA SendOther ==
  ASSUME OutboxInv, NEW op, NEW arg, op # "SendText", <<op, arg>> \in Command,
         cmds' = Append(cmds, <<op, arg>>), vm' = vm, texts' = texts
  PROVE  TextOrder' /\ Unread' = Unread
<1>1. /\ Len(cmds') = Len(cmds) + 1
      /\ \A j \in 1 .. Len(cmds) : cmds'[j] = cmds[j]
      /\ cmds'[Len(cmds) + 1] = <<op, arg>>
      /\ cmds' \in Seq(Command)
  BY ChannelFacts, AppendProperties DEF OutboxInv
<1>2. Len(cmds) \in Nat
  BY ChannelFacts DEF OutboxInv
<1>3. \A j \in 1 .. Len(cmds') : /\ IsText(j)' => j \in 1 .. Len(cmds) /\ IsText(j)
                                 /\ j \in 1 .. Len(cmds) => cmds'[j] = cmds[j]
  <2> SUFFICES ASSUME NEW j \in 1 .. Len(cmds')
               PROVE  /\ cmds'[j][1] = "SendText" => j \in 1 .. Len(cmds) /\ IsText(j)
                      /\ j \in 1 .. Len(cmds) => cmds'[j] = cmds[j]
    BY DEF IsText
  <2>1. j \in 1 .. Len(cmds) \/ j = Len(cmds) + 1
    BY <1>1, <1>2
  <2> QED
    BY <1>1, <2>1 DEF IsText
<1>4. TextOrder'
  BY <1>3 DEF OutboxInv, TextOrder
<1>5. DOMAIN cmds' = 1 .. Len(cmds')
  BY <1>1, LenProperties
<1>6. DOMAIN cmds = 1 .. Len(cmds)
  BY ChannelFacts DEF OutboxInv
<1>7. {i \in DOMAIN cmds' : cmds'[i][1] = "SendText"} = {i \in DOMAIN cmds : cmds[i][1] = "SendText"}
  <2>1. \A i \in DOMAIN cmds : i \in DOMAIN cmds' /\ cmds'[i] = cmds[i]
    BY <1>1, <1>2, <1>5, <1>6
  <2> QED
    BY <1>3, <1>5, <1>6, <2>1 DEF IsText
<1>8. \A i \in {i \in DOMAIN cmds : cmds[i][1] = "SendText"} : cmds'[i] = cmds[i]
  BY <1>1, <1>6
<1> QED
  BY <1>4, <1>7, <1>8 DEF Unread

(* Typing a text: the greatest number so far, at the end of the channel. *)
LEMMA SendOneText ==
  ASSUME OutboxInv, SendText
  PROVE  /\ TextOrder'
         /\ Unread' = Unread \cup {Len(texts) + 1}
         /\ Len(texts') = Len(texts) + 1
<1>1. /\ "SendText" \in Ops /\ cmds' = Append(cmds, <<"SendText", Len(texts) + 1>>)
      /\ vm' = vm /\ count.sent < MaxCommands
  BY DEF SendText, Send, loopVars
<1>2. Len(texts) \in Nat /\ Len(cmds) \in Nat /\ cmds \in Seq(Command)
      /\ DOMAIN cmds = 1 .. Len(cmds)
  BY ChannelFacts DEF OutboxInv
<1>3. Len(texts) + 1 \in Text
  <2>1. count.sent \in Nat
    BY RadioBoundAssumption DEF OutboxInv, TypeOK
  <2> QED
    BY <1>1, <1>2, <2>1, RadioBoundAssumption DEF OutboxInv, TextsCounted, Text
<1>4. <<"SendText", Len(texts) + 1>> \in Command
  <2>1. Argument("SendText") = Text
    BY DEF Argument
  <2> QED
    BY <1>1, <1>3, <2>1, CommandType
<1>5. /\ Len(cmds') = Len(cmds) + 1
      /\ \A j \in 1 .. Len(cmds) : cmds'[j] = cmds[j]
      /\ cmds'[Len(cmds) + 1] = <<"SendText", Len(texts) + 1>>
      /\ cmds' \in Seq(Command)
  BY <1>1, <1>2, <1>4, AppendProperties
<1>6. Len(texts') = Len(texts) + 1
  BY AppendProperties DEF SendText, OutboxInv, TypeOK
<1>7. \A j \in 1 .. Len(cmds') : \/ j \in 1 .. Len(cmds) /\ cmds'[j] = cmds[j]
                                 \/ j = Len(cmds) + 1 /\ cmds'[j][2] = Len(texts) + 1
  BY <1>2, <1>5
<1>8. TextOrder'
  <2>1. \A i, j \in 1 .. Len(cmds') :
          i < j /\ cmds'[i][1] = "SendText" /\ cmds'[j][1] = "SendText" => cmds'[i][2] < cmds'[j][2]
    <3> SUFFICES ASSUME NEW i \in 1 .. Len(cmds'), NEW j \in 1 .. Len(cmds'), i < j,
                        cmds'[i][1] = "SendText", cmds'[j][1] = "SendText"
                 PROVE  cmds'[i][2] < cmds'[j][2]
      OBVIOUS
    <3>1. i \in 1 .. Len(cmds) /\ cmds'[i] = cmds[i]
      BY <1>2, <1>5
    <3>2. cmds[i][2] \in Nat /\ cmds[i][2] <= Len(texts)
      BY <3>1, TextArgument DEF OutboxInv, TextOrder, IsText
    <3>3. CASE j \in 1 .. Len(cmds) /\ cmds'[j] = cmds[j]
      BY <3>1, <3>3 DEF OutboxInv, TextOrder, IsText
    <3>4. CASE cmds'[j][2] = Len(texts) + 1
      BY <1>2, <3>1, <3>2, <3>4
    <3> QED
      BY <1>7, <3>3, <3>4
  <2>2. \A i \in 1 .. Len(vm.txQueue), j \in 1 .. Len(cmds') :
          cmds'[j][1] = "SendText" => vm.txQueue[i] < cmds'[j][2]
    <3> SUFFICES ASSUME NEW i \in 1 .. Len(vm.txQueue), NEW j \in 1 .. Len(cmds'),
                        cmds'[j][1] = "SendText"
                 PROVE  vm.txQueue[i] < cmds'[j][2]
      OBVIOUS
    <3>1. vm.txQueue[i] \in Nat /\ vm.txQueue[i] <= Len(texts)
      BY ChannelFacts, TextIsNat DEF OutboxInv, TextOrder
    <3>2. CASE j \in 1 .. Len(cmds) /\ cmds'[j] = cmds[j]
      BY <3>2 DEF OutboxInv, TextOrder, IsText
    <3>3. CASE cmds'[j][2] = Len(texts) + 1
      BY <1>2, <3>1, <3>3
    <3> QED
      BY <1>7, <3>2, <3>3
  <2>3. \A j \in 1 .. Len(cmds') : cmds'[j][1] = "SendText" => cmds'[j][2] <= Len(texts')
    <3> SUFFICES ASSUME NEW j \in 1 .. Len(cmds'), cmds'[j][1] = "SendText"
                 PROVE  cmds'[j][2] <= Len(texts')
      OBVIOUS
    <3>1. CASE j \in 1 .. Len(cmds) /\ cmds'[j] = cmds[j]
      <4>1. cmds[j][2] \in Nat /\ cmds[j][2] <= Len(texts)
        BY <3>1, TextArgument DEF OutboxInv, TextOrder, IsText
      <4> QED
        BY <1>2, <1>6, <3>1, <4>1
    <3>2. CASE cmds'[j][2] = Len(texts) + 1
      BY <1>2, <1>6, <3>2
    <3> QED
      BY <1>7, <3>1, <3>2
  <2>4. \A i \in 1 .. Len(vm.txQueue) : vm.txQueue[i] <= Len(texts')
    <3>1. \A i \in 1 .. Len(vm.txQueue) : vm.txQueue[i] \in Nat /\ vm.txQueue[i] <= Len(texts)
      BY ChannelFacts, TextIsNat DEF OutboxInv, TextOrder
    <3> QED
      BY <1>2, <1>6, <3>1
  <2>5. \A i, j \in 1 .. Len(vm.txQueue) : i < j => vm.txQueue[i] < vm.txQueue[j]
    BY DEF OutboxInv, TextOrder
  <2> QED
    BY <1>1, <2>1, <2>2, <2>3, <2>4, <2>5 DEF TextOrder, IsText
<1>9. Unread' = Unread \cup {Len(texts) + 1}
  <2>1. DOMAIN cmds' = 1 .. Len(cmds')
    BY <1>5, LenProperties
  <2>2. ASSUME NEW t \in Unread'
        PROVE  t \in Unread \cup {Len(texts) + 1}
    <3>1. PICK j \in 1 .. Len(cmds') : cmds'[j][1] = "SendText" /\ t = cmds'[j][2]
      BY <2>1, <2>2 DEF Unread
    <3> QED
      BY <1>2, <1>7, <3>1 DEF Unread
  <2>3. ASSUME NEW t \in Unread
        PROVE  t \in Unread'
    <3>1. PICK j \in 1 .. Len(cmds) : cmds[j][1] = "SendText" /\ t = cmds[j][2]
      BY <1>2, <2>3 DEF Unread
    <3>2. j \in DOMAIN cmds' /\ cmds'[j] = cmds[j]
      BY <1>2, <1>5, <2>1
    <3> QED
      BY <3>1, <3>2 DEF Unread
  <2>4. Len(texts) + 1 \in Unread'
    <3>1. Len(cmds) + 1 \in DOMAIN cmds'
      BY <1>2, <1>5, <2>1
    <3> QED
      BY <1>5, <3>1 DEF Unread
  <2> QED
    BY <2>2, <2>3, <2>4
<1> QED
  BY <1>6, <1>8, <1>9

-----------------------------------------------------------------------------
(* The drain moves the first text of the channel to the end of the queue. *)

LEMMA AppliedQueue ==
  ASSUME NEW v \in ViewModel, NEW op \in Operation, NEW arg
  PROVE  Applied(v, op, arg).txQueue =
           IF op = "SendText" THEN Append(v.txQueue, arg) ELSE v.txQueue
<1>1. CASE op = "SendText"
  BY <1>1 DEF Applied, Queued, ViewModel
<1>2. CASE op # "SendText"
  BY <1>2 DEF Applied, Renamed, Operation, ViewModel
<1> QED
  BY <1>1, <1>2

LEMMA DrainText ==
  ASSUME OutboxInv, ApplyCommand
  PROVE  TextOrder' /\ Waiting' = Waiting
<1>1. /\ cmds \in Seq(Command) /\ cmds # <<>> /\ cmds' = Tail(cmds) /\ texts' = texts
      /\ Len(cmds) \in Nat /\ DOMAIN cmds = 1 .. Len(cmds)
  BY ChannelFacts DEF ApplyCommand, OutboxInv, userVars
<1>2. /\ cmds' \in Seq(Command) /\ Len(cmds') = Len(cmds) - 1 /\ Len(cmds) > 0
      /\ \A j \in 1 .. Len(cmds) - 1 : cmds'[j] = cmds[j + 1]
      /\ Head(cmds) = cmds[1] /\ DOMAIN cmds' = 1 .. Len(cmds) - 1
  <2>1. /\ Tail(cmds) \in Seq(Command) /\ Len(Tail(cmds)) = Len(cmds) - 1
        /\ \A j \in 1 .. Len(Tail(cmds)) : Tail(cmds)[j] = cmds[j + 1]
    BY <1>1, HeadTailProperties
  <2>2. Len(cmds) > 0 /\ Head(cmds) = cmds[1]
    BY <1>1, EmptySeq
  <2> QED
    BY <1>1, <2>1, <2>2, LenProperties
<1> DEFINE q == vm.txQueue
           t == cmds[1][2]
<1>3. q \in Seq(Text) /\ Len(q) \in Nat /\ DOMAIN q = 1 .. Len(q)
  BY ChannelFacts DEF OutboxInv
<1>4. \A j \in 1 .. Len(cmds) - 1 : j \in 1 .. Len(cmds) /\ j + 1 \in 1 .. Len(cmds) /\ 1 < j + 1
  BY <1>1
<1>5. 1 \in 1 .. Len(cmds)
  BY <1>1, <1>2
<1>6. vm'.txQueue = IF IsText(1) THEN Append(q, t) ELSE q
  <2>1. Head(cmds) \in Command
    BY <1>1, HeadTailProperties
  <2>2. PICK op \in Ops : Head(cmds) \in {op} \X Argument(op)
    BY <2>1 DEF Command
  <2>3. vm' = Applied(vm, op, Head(cmds)[2]) /\ op \in Operation /\ Head(cmds)[1] = op
    BY <2>2, OpsAssumption DEF ApplyCommand
  <2> QED
    BY <1>2, <2>3, AppliedQueue DEF OutboxInv, TypeOK, IsText
<1>7. ASSUME NEW u
      PROVE  u \in Unread <=> u \in Unread' \/ (IsText(1) /\ u = t)
  <2>1. ASSUME u \in Unread
        PROVE  u \in Unread' \/ (IsText(1) /\ u = t)
    <3>1. PICK j \in 1 .. Len(cmds) : cmds[j][1] = "SendText" /\ u = cmds[j][2]
      BY <1>1, <2>1 DEF Unread
    <3>2. CASE j = 1
      BY <3>1, <3>2 DEF IsText
    <3>3. CASE j # 1
      <4>1. j - 1 \in 1 .. Len(cmds) - 1 /\ (j - 1) + 1 = j
        BY <1>1, <3>3
      <4>2. j - 1 \in DOMAIN cmds' /\ cmds'[j - 1] = cmds[j]
        BY <1>2, <4>1
      <4> QED
        BY <3>1, <4>2 DEF Unread
    <3> QED
      BY <3>2, <3>3
  <2>2. ASSUME u \in Unread'
        PROVE  u \in Unread
    <3>1. PICK j \in 1 .. Len(cmds) - 1 : cmds'[j][1] = "SendText" /\ u = cmds'[j][2]
      BY <1>2, <2>2 DEF Unread
    <3>2. j + 1 \in DOMAIN cmds /\ cmds'[j] = cmds[j + 1]
      BY <1>1, <1>2, <1>4
    <3> QED
      BY <3>1, <3>2 DEF Unread
  <2>3. IsText(1) => t \in Unread
    BY <1>1, <1>5 DEF IsText, Unread
  <2> QED
    BY <2>1, <2>2, <2>3
<1>8. CASE ~IsText(1)
  <2>1. vm'.txQueue = q
    BY <1>6, <1>8
  <2>2. TextOrder'
    BY <1>1, <1>2, <1>4, <2>1 DEF OutboxInv, TextOrder, IsText
  <2> QED
    BY <1>7, <1>8, <2>1, <2>2 DEF Waiting, QueuedTexts
<1>9. CASE IsText(1)
  <2>1. t \in Text /\ t \in Nat
    BY <1>5, <1>9, TextArgument DEF OutboxInv
  <2>2. /\ vm'.txQueue \in Seq(Text) /\ Len(vm'.txQueue) = Len(q) + 1
        /\ \A i \in 1 .. Len(q) : vm'.txQueue[i] = q[i]
        /\ vm'.txQueue[Len(q) + 1] = t
    BY <1>3, <1>6, <1>9, <2>1, AppendProperties
  <2>3. DOMAIN vm'.txQueue = 1 .. Len(q) + 1
    BY <2>2, LenProperties
  <2>4. \A i \in 1 .. Len(q) + 1 : \/ i \in 1 .. Len(q) /\ vm'.txQueue[i] = q[i]
                                   \/ i = Len(q) + 1 /\ vm'.txQueue[i] = t
    BY <1>3, <2>2
  <2>5. \A i \in 1 .. Len(q) : q[i] < t
    BY <1>5, <1>9 DEF OutboxInv, TextOrder
  <2>6. \A j \in 1 .. Len(cmds) - 1 : cmds'[j][1] = "SendText" => t < cmds'[j][2]
    BY <1>2, <1>4, <1>5, <1>9 DEF OutboxInv, TextOrder, IsText
  <2>7. TextOrder'
    <3>1. \A i, j \in 1 .. Len(q) + 1 : i < j => vm'.txQueue[i] < vm'.txQueue[j]
      <4> SUFFICES ASSUME NEW i \in 1 .. Len(q) + 1, NEW j \in 1 .. Len(q) + 1, i < j
                   PROVE  vm'.txQueue[i] < vm'.txQueue[j]
        OBVIOUS
      <4>1. i \in 1 .. Len(q) /\ vm'.txQueue[i] = q[i]
        BY <1>3, <2>4
      <4>2. CASE j \in 1 .. Len(q) /\ vm'.txQueue[j] = q[j]
        BY <4>1, <4>2 DEF OutboxInv, TextOrder
      <4>3. CASE vm'.txQueue[j] = t
        BY <2>5, <4>1, <4>3
      <4> QED
        BY <2>4, <4>2, <4>3
    <3>2. \A i \in 1 .. Len(q) + 1, j \in 1 .. Len(cmds) - 1 :
            cmds'[j][1] = "SendText" => vm'.txQueue[i] < cmds'[j][2]
      <4> SUFFICES ASSUME NEW i \in 1 .. Len(q) + 1, NEW j \in 1 .. Len(cmds) - 1,
                          cmds'[j][1] = "SendText"
                   PROVE  vm'.txQueue[i] < cmds'[j][2]
        OBVIOUS
      <4>1. CASE i \in 1 .. Len(q) /\ vm'.txQueue[i] = q[i]
        BY <1>2, <1>4, <4>1 DEF OutboxInv, TextOrder, IsText
      <4>2. CASE vm'.txQueue[i] = t
        BY <2>6, <4>2
      <4> QED
        BY <2>4, <4>1, <4>2
    <3>3. \A i, j \in 1 .. Len(cmds) - 1 :
            i < j /\ cmds'[i][1] = "SendText" /\ cmds'[j][1] = "SendText" => cmds'[i][2] < cmds'[j][2]
      <4> SUFFICES ASSUME NEW i \in 1 .. Len(cmds) - 1, NEW j \in 1 .. Len(cmds) - 1, i < j,
                          cmds'[i][1] = "SendText", cmds'[j][1] = "SendText"
                   PROVE  cmds'[i][2] < cmds'[j][2]
        OBVIOUS
      <4>1. i + 1 \in 1 .. Len(cmds) /\ j + 1 \in 1 .. Len(cmds) /\ i + 1 < j + 1
        BY <1>1
      <4>2. cmds'[i] = cmds[i + 1] /\ cmds'[j] = cmds[j + 1]
        BY <1>2
      <4> QED
        BY <4>1, <4>2 DEF OutboxInv, TextOrder, IsText
    <3>4. \A j \in 1 .. Len(cmds) - 1 : cmds'[j][1] = "SendText" => cmds'[j][2] <= Len(texts)
      BY <1>2, <1>4 DEF OutboxInv, TextOrder, IsText
    <3>5. \A i \in 1 .. Len(q) + 1 : vm'.txQueue[i] <= Len(texts)
      BY <1>5, <1>9, <2>4 DEF OutboxInv, TextOrder
    <3> QED
      BY <1>1, <1>2, <2>2, <3>1, <3>2, <3>3, <3>4, <3>5 DEF TextOrder, IsText
  <2>8. ASSUME NEW u
        PROVE  u \in QueuedTexts' <=> u \in QueuedTexts \/ u = t
    <3>1. ASSUME u \in QueuedTexts'
          PROVE  u \in QueuedTexts \/ u = t
      BY <1>3, <2>3, <2>4, <3>1 DEF QueuedTexts
    <3>2. ASSUME u \in QueuedTexts
          PROVE  u \in QueuedTexts'
      <4>1. PICK i \in 1 .. Len(q) : u = q[i]
        BY <1>3, <3>2 DEF QueuedTexts
      <4>2. i \in 1 .. Len(q) + 1
        BY <1>3
      <4> QED
        BY <2>2, <2>3, <4>1, <4>2 DEF QueuedTexts
    <3>3. t \in QueuedTexts'
      <4>1. Len(q) + 1 \in DOMAIN vm'.txQueue
        BY <1>3, <2>3
      <4> QED
        BY <2>2, <4>1 DEF QueuedTexts
    <3> QED
      BY <3>1, <3>2, <3>3
  <2> QED
    BY <1>7, <1>9, <2>7, <2>8 DEF Waiting
<1> QED
  BY <1>8, <1>9

-----------------------------------------------------------------------------
(* Manual TX takes texts from the front of the queue. *)

LEMMA HeadOfQueue ==
  ASSUME OutboxInv, vm.txQueue # <<>>
  PROVE  LET t == Head(vm.txQueue)
         IN  /\ t \in QueuedTexts /\ t \in Text
             /\ \A u \in Waiting : u # t => t < u
             /\ t \notin Unread
             /\ QueuedTexts \ {t} =
                  {Tail(vm.txQueue)[k] : k \in 1 .. Len(vm.txQueue) - 1}
<1> DEFINE q == vm.txQueue
           t == Head(q)
<1>1. /\ q \in Seq(Text) /\ Len(q) \in Nat /\ Len(q) > 0 /\ t = q[1]
      /\ QueuedTexts = {q[k] : k \in 1 .. Len(q)}
      /\ Unread = {cmds[j][2] : j \in {i \in 1 .. Len(cmds) : IsText(i)}}
  BY ChannelFacts, EmptySeq DEF OutboxInv
<1>2. /\ Tail(q) \in Seq(Text) /\ Len(Tail(q)) = Len(q) - 1
      /\ \A k \in 1 .. Len(q) - 1 : Tail(q)[k] = q[k + 1]
  BY <1>1, HeadTailProperties
<1>3. 1 \in 1 .. Len(q)
  BY <1>1
<1>4. \A k \in 1 .. Len(q) : q[k] \in Nat /\ (k # 1 => t < q[k])
  <2>1. \A k \in 1 .. Len(q) : k # 1 => 1 < k
    BY <1>1
  <2> QED
    BY <1>1, <1>3, <2>1, ChannelFacts, TextIsNat DEF OutboxInv, TextOrder
<1>5. t \in Text /\ t \in QueuedTexts /\ t \in Nat
  BY <1>1, <1>3, <1>4, ElementOfSeq
<1>6. \A u \in Unread : t < u
  BY <1>1, <1>3 DEF OutboxInv, TextOrder
<1>7. \A u \in Waiting : u # t => t < u
  BY <1>1, <1>4, <1>6 DEF Waiting
<1>8. t \notin Unread
  BY <1>5, <1>6
<1>9. QueuedTexts \ {t} = {Tail(q)[k] : k \in 1 .. Len(q) - 1}
  <2>1. ASSUME NEW u \in QueuedTexts \ {t}
        PROVE  u \in {Tail(q)[k] : k \in 1 .. Len(q) - 1}
    <3>1. PICK k \in 1 .. Len(q) : u = q[k]
      BY <1>1
    <3>2. k # 1 /\ k - 1 \in 1 .. Len(q) - 1 /\ (k - 1) + 1 = k
      BY <1>1, <3>1
    <3> QED
      BY <1>2, <3>1, <3>2
  <2>2. ASSUME NEW k \in 1 .. Len(q) - 1
        PROVE  Tail(q)[k] \in QueuedTexts \ {t}
    <3>1. k + 1 \in 1 .. Len(q) /\ k + 1 # 1
      BY <1>1
    <3>2. q[k + 1] # t
      BY <1>4, <1>5, <3>1
    <3> QED
      BY <1>1, <1>2, <3>1, <3>2
  <2> QED
    BY <2>1, <2>2
<1> QED
  BY <1>5, <1>7, <1>8, <1>9

(* What both TransmitText and SkipText do to the queue. *)
LEMMA TakeHead ==
  ASSUME OutboxInv, vm.txQueue # <<>>, cmds' = cmds, texts' = texts,
         vm' = [vm EXCEPT !.txQueue = Tail(@)]
  PROVE  TextOrder' /\ Waiting' = Waiting \ {Head(vm.txQueue)}
<1> DEFINE q == vm.txQueue
<1>1. vm'.txQueue = Tail(q)
  BY DEF OutboxInv, TypeOK, ViewModel
<1>2. q \in Seq(Text) /\ Len(q) \in Nat /\ Len(q) > 0
  BY ChannelFacts, EmptySeq DEF OutboxInv
<1>3. /\ Tail(q) \in Seq(Text) /\ Len(Tail(q)) = Len(q) - 1
      /\ \A k \in 1 .. Len(q) - 1 : Tail(q)[k] = q[k + 1]
      /\ DOMAIN Tail(q) = 1 .. Len(q) - 1
  <2>1. /\ Tail(q) \in Seq(Text) /\ Len(Tail(q)) = Len(q) - 1
        /\ \A k \in 1 .. Len(q) - 1 : Tail(q)[k] = q[k + 1]
    BY <1>2, HeadTailProperties
  <2> QED
    BY <2>1, LenProperties
<1>4. \A k \in 1 .. Len(q) - 1 : k + 1 \in 1 .. Len(q)
  BY <1>2
<1>5. TextOrder'
  <2>1. \A i, j \in 1 .. Len(q) - 1 : i < j => Tail(q)[i] < Tail(q)[j]
    <3> SUFFICES ASSUME NEW i \in 1 .. Len(q) - 1, NEW j \in 1 .. Len(q) - 1, i < j
                 PROVE  q[i + 1] < q[j + 1]
      BY <1>3
    <3>1. i + 1 \in 1 .. Len(q) /\ j + 1 \in 1 .. Len(q) /\ i + 1 < j + 1
      BY <1>2
    <3> QED
      BY <3>1 DEF OutboxInv, TextOrder
  <2>2. \A i \in 1 .. Len(q) - 1, j \in 1 .. Len(cmds) : IsText(j) => Tail(q)[i] < cmds[j][2]
    BY <1>3, <1>4 DEF OutboxInv, TextOrder
  <2>3. \A i \in 1 .. Len(q) - 1 : Tail(q)[i] <= Len(texts)
    BY <1>3, <1>4 DEF OutboxInv, TextOrder
  <2>4. /\ \A i, j \in 1 .. Len(cmds) : i < j /\ IsText(i) /\ IsText(j) => cmds[i][2] < cmds[j][2]
        /\ \A j \in 1 .. Len(cmds) : IsText(j) => cmds[j][2] <= Len(texts)
    BY DEF OutboxInv, TextOrder
  <2> QED
    BY <1>1, <1>3, <2>1, <2>2, <2>3, <2>4 DEF TextOrder, IsText
<1>6. QueuedTexts' = QueuedTexts \ {Head(q)}
  <2>1. QueuedTexts' = {Tail(q)[k] : k \in 1 .. Len(q) - 1}
    BY <1>1, <1>3 DEF QueuedTexts
  <2> QED
    BY <2>1, HeadOfQueue
<1>7. Unread' = Unread
  BY DEF Unread
<1> QED
  BY <1>5, <1>6, <1>7, HeadOfQueue DEF Waiting

LEMMA AiredOneMore ==
  ASSUME TypeOK, NEW t \in Text, NEW d \in Destination,
         aired' = Append(aired, [text |-> t, dest |-> d])
  PROVE  AiredTexts' = Append(AiredTexts, t)
<1> DEFINE Airing == [text : Text, dest : Destination]
<1>1. aired \in Seq(Airing) /\ Len(aired) \in Nat /\ DOMAIN aired = 1 .. Len(aired)
  BY LenProperties DEF TypeOK
<1>2. [text |-> t, dest |-> d] \in Airing
  OBVIOUS
<1>3. /\ aired' \in Seq(Airing) /\ Len(aired') = Len(aired) + 1
      /\ \A k \in 1 .. Len(aired) : aired'[k] = aired[k]
      /\ aired'[Len(aired) + 1].text = t
  BY <1>1, <1>2, AppendProperties
<1>4. DOMAIN aired' = 1 .. Len(aired) + 1
  BY <1>3, LenProperties
<1>5. AiredTexts = [k \in 1 .. Len(aired) |-> aired[k].text]
  BY <1>1 DEF AiredTexts
<1>6. AiredTexts \in Seq(Text) /\ Len(AiredTexts) = Len(aired)
  <2>1. \A k \in 1 .. Len(aired) : aired[k].text \in Text
    <3>1. \A k \in 1 .. Len(aired) : aired[k] \in Airing
      BY <1>1, ElementOfSeq
    <3> QED
      BY <3>1
  <2>2. AiredTexts \in [1 .. Len(aired) -> Text]
    BY <1>5, <2>1
  <2> QED
    BY <1>1, <2>2, SeqDef, LenProperties
<1>7. AiredTexts' = [k \in 1 .. Len(aired) + 1 |-> aired'[k].text]
  BY <1>4 DEF AiredTexts
<1>8. AiredTexts' \in Seq(Text) /\ Len(AiredTexts') = Len(aired) + 1
  <2>1. \A k \in 1 .. Len(aired) + 1 : aired'[k].text \in Text
    <3>1. \A k \in 1 .. Len(aired) + 1 : aired'[k] \in Airing
      BY <1>3, ElementOfSeq
    <3> QED
      BY <3>1
  <2>2. AiredTexts' \in [1 .. Len(aired) + 1 -> Text] /\ Len(aired) + 1 \in Nat
    BY <1>1, <1>7, <2>1
  <2> QED
    BY <2>2, SeqDef, LenProperties
<1>9. /\ Append(AiredTexts, t) \in Seq(Text) /\ Len(Append(AiredTexts, t)) = Len(aired) + 1
      /\ \A k \in 1 .. Len(aired) : Append(AiredTexts, t)[k] = AiredTexts[k]
      /\ Append(AiredTexts, t)[Len(aired) + 1] = t
  BY <1>6, AppendProperties
<1>10. \A k \in 1 .. Len(aired) + 1 : AiredTexts'[k] = Append(AiredTexts, t)[k]
  <2> SUFFICES ASSUME NEW k \in 1 .. Len(aired) + 1
               PROVE  AiredTexts'[k] = Append(AiredTexts, t)[k]
    OBVIOUS
  <2>1. AiredTexts'[k] = aired'[k].text
    BY <1>7
  <2>2. CASE k = Len(aired) + 1
    BY <1>3, <1>9, <2>1, <2>2
  <2>3. CASE k \in 1 .. Len(aired)
    BY <1>3, <1>5, <1>9, <2>1, <2>3
  <2>4. k = Len(aired) + 1 \/ k \in 1 .. Len(aired)
    <3>1. Len(aired) \in Nat
      BY <1>1
    <3> QED
      BY <3>1
  <2> QED
    BY <2>2, <2>3, <2>4
<1> QED
  BY <1>8, <1>9, <1>10, SeqEqual

-----------------------------------------------------------------------------
(* Step by step. *)

LEMMA TransmitRefines ==
  ASSUME OutboxInv, TransmitText
  PROVE  TextOrder' /\ Outbox!Transmit
<1> DEFINE t == Head(vm.txQueue)
<1>1. /\ TextOrder' /\ Waiting' = Waiting \ {t} /\ texts' = texts /\ dropped' = dropped
  BY TakeHead DEF TransmitText, userVars
<1>2. t \in Waiting /\ t \in Text /\ t \in Nat /\ \A u \in Waiting : u # t => t < u
  BY HeadOfQueue, TextIsNat DEF TransmitText, Waiting
<1>3. AiredTexts' = Append(AiredTexts, t)
  BY <1>2, AiredOneMore DEF TransmitText, OutboxInv, TypeOK
<1>4. \A u \in Waiting : t <= u
  <2>1. \A u \in Waiting : u \in Nat
    BY ChannelFacts, TextArgument, TextIsNat DEF OutboxInv, Waiting
  <2> QED
    BY <1>2, <2>1
<1> QED
  BY <1>1, <1>2, <1>3, <1>4 DEF Outbox!Transmit, Outbox!Oldest, Waiting, AiredTexts

LEMMA SkipRefines ==
  ASSUME OutboxInv, SkipText
  PROVE  TextOrder' /\ Outbox!GiveUp
<1> DEFINE t == Head(vm.txQueue)
<1>1. /\ TextOrder' /\ Waiting' = Waiting \ {t} /\ texts' = texts
      /\ dropped' = dropped \cup {t} /\ aired' = aired
  BY TakeHead DEF SkipText, userVars
<1>2. t \in Waiting /\ t \in Nat /\ \A u \in Waiting : u \in Nat /\ (u # t => t < u)
  BY HeadOfQueue, ChannelFacts, TextArgument, TextIsNat DEF SkipText, OutboxInv, Waiting
<1>3. {u \in Waiting : u <= t} = {t}
  BY <1>2
<1> QED
  BY <1>1, <1>2, <1>3 DEF Outbox!GiveUp, Waiting, AiredTexts

LEMMA EndManualRefines ==
  ASSUME OutboxInv, EndManual
  PROVE  TextOrder' /\ (Outbox!GiveUp \/ UNCHANGED Outbox!vars)
<1> DEFINE q == vm.txQueue
<1>1. /\ cmds' = cmds /\ texts' = texts /\ aired' = aired
      /\ vm'.txQueue = <<>> /\ Len(vm'.txQueue) = 0
  BY EmptySeq DEF EndManual, QueueAfterManual, OutboxInv, TypeOK, ViewModel, userVars
<1>2. /\ q \in Seq(Text) /\ Len(q) \in Nat
      /\ QueuedTexts = {q[k] : k \in 1 .. Len(q)}
      /\ dropped' = dropped \cup QueuedTexts
  BY ChannelFacts DEF EndManual, OutboxInv
<1>3. TextOrder'
  <2>1. \A i \in 1 .. Len(vm'.txQueue) : FALSE
    BY <1>1
  <2> QED
    BY <1>1, <2>1 DEF OutboxInv, TextOrder, IsText
<1>4. QueuedTexts' = {} /\ Unread' = Unread
  BY <1>1 DEF QueuedTexts, Unread
<1>5. CASE q = <<>>
  <2>1. QueuedTexts = {}
    BY <1>2, <1>5, EmptySeq
  <2> QED
    BY <1>1, <1>2, <1>3, <1>4, <2>1 DEF Outbox!vars, AiredTexts
<1>6. CASE q # <<>>
  <2> DEFINE t == q[Len(q)]
  <2>1. Len(q) > 0 /\ Len(q) \in 1 .. Len(q)
    BY <1>2, <1>6, EmptySeq
  <2>2. t \in QueuedTexts /\ t \in Nat
    BY <1>2, <2>1, ChannelFacts, TextIsNat DEF OutboxInv
  <2>3. \A u \in QueuedTexts : u \in Nat /\ u <= t
    <3> SUFFICES ASSUME NEW k \in 1 .. Len(q)
                 PROVE  q[k] \in Nat /\ q[k] <= t
      BY <1>2
    <3>1. q[k] \in Nat
      BY ChannelFacts, TextIsNat DEF OutboxInv
    <3>2. CASE k = Len(q)
      BY <3>1, <3>2
    <3>3. CASE k # Len(q)
      <4>1. k < Len(q)
        BY <1>2, <3>3
      <4>2. q[k] < t
        BY <2>1, <4>1 DEF OutboxInv, TextOrder
      <4> QED
        BY <2>2, <3>1, <4>2
    <3> QED
      BY <3>2, <3>3
  <2>4. \A u \in Unread : u \in Nat /\ t < u
    BY <2>1, ChannelFacts, TextArgument DEF OutboxInv, TextOrder
  <2>5. {u \in Waiting : u <= t} = QueuedTexts
    <3>1. \A u \in Unread : ~(u <= t)
      BY <2>2, <2>4
    <3> QED
      BY <2>3, <3>1 DEF Waiting
  <2>6. Waiting' = Waiting \ QueuedTexts
    <3>1. \A u \in Unread : u \notin QueuedTexts
      BY <2>2, <2>3, <2>4
    <3> QED
      BY <1>4, <3>1 DEF Waiting
  <2>7. t \in Waiting
    BY <2>2 DEF Waiting
  <2> HIDE DEF t
  <2> QED
    BY <1>1, <1>2, <1>3, <2>5, <2>6, <2>7 DEF Outbox!GiveUp, Waiting, AiredTexts
<1> QED
  BY <1>5, <1>6

LEMMA UsersRefine ==
  ASSUME OutboxInv, Users
  PROVE  TextOrder' /\ (Outbox!Type \/ UNCHANGED Outbox!vars)
<1>1. CASE SendText
  <2>1. TextOrder' /\ Unread' = Unread \cup {Len(texts) + 1} /\ Len(texts') = Len(texts) + 1
    BY <1>1, SendOneText
  <2>2. vm' = vm /\ aired' = aired /\ dropped' = dropped
    BY <1>1 DEF SendText, Send, loopVars
  <2>3. QueuedTexts' = QueuedTexts
    BY <2>2 DEF QueuedTexts
  <2> QED
    BY <2>1, <2>2, <2>3 DEF Outbox!Type
<1>2. CASE SendSetting \/ SendSetTxDest
  <2>1. PICK op \in Ops : \E arg \in Argument(op) : op # "SendText" /\ Send(op, arg)
    <3>1. CASE SendSetting
      BY <3>1 DEF SendSetting
    <3>2. CASE SendSetTxDest
      <4>1. "SetTxDest" \in Ops /\ Send("SetTxDest", count.sent + 1)
        BY <3>2 DEF SendSetTxDest
      <4>2. count.sent + 1 \in Argument("SetTxDest")
        BY <4>1, RadioBoundAssumption DEF Send, OutboxInv, TypeOK, Argument, Destination
      <4> QED
        BY <4>1, <4>2
    <3> QED
      BY <1>2, <3>1, <3>2
  <2>2. PICK arg \in Argument(op) : op # "SendText" /\ Send(op, arg)
    BY <2>1
  <2>3. <<op, arg>> \in Command
    BY CommandType
  <2>4. /\ cmds' = Append(cmds, <<op, arg>>) /\ vm' = vm /\ texts' = texts
        /\ aired' = aired /\ dropped' = dropped
    BY <1>2, <2>2 DEF Send, loopVars, SendSetting, SendSetTxDest, userVars
  <2>5. TextOrder' /\ Unread' = Unread
    BY <2>2, <2>3, <2>4, SendOther
  <2>6. QueuedTexts' = QueuedTexts
    BY <2>4 DEF QueuedTexts
  <2> QED
    BY <2>4, <2>5, <2>6 DEF Outbox!vars
<1> QED
  BY <1>1, <1>2 DEF Users

LEMMA StepRefines ==
  ASSUME OutboxInv, [Next]_vars
  PROVE  TextOrder' /\ [Outbox!Next]_(Outbox!vars)
<1>1. CASE Users
  BY <1>1, UsersRefine DEF Outbox!Next
<1>2. CASE ApplyCommand
  <2>1. TextOrder' /\ Waiting' = Waiting
    BY <1>2, DrainText
  <2>2. texts' = texts /\ aired' = aired /\ dropped' = dropped
    BY <1>2 DEF ApplyCommand, userVars
  <2> QED
    BY <2>1, <2>2 DEF Outbox!vars, Waiting
<1>3. CASE TransmitText
  BY <1>3, TransmitRefines DEF Outbox!Next
<1>4. CASE SkipText
  BY <1>4, SkipRefines DEF Outbox!Next
<1>5. CASE EndManual
  BY <1>5, EndManualRefines DEF Outbox!Next
<1>6. CASE \/ StartTick \/ Rebuild \/ ReadParams \/ Beacon \/ AutoTx \/ NoAutoTx
           \/ TickDriver \/ DecodeFrame \/ EndTick \/ UNCHANGED vars
  <2>1. /\ cmds' = cmds /\ texts' = texts /\ aired' = aired /\ dropped' = dropped
        /\ vm'.txQueue = vm.txQueue
    BY <1>6 DEF StartTick, Rebuild, ReadParams, Beacon, AutoTx, NoAutoTx, TickDriver,
       DecodeFrame, EndTick, vars, loopVars, userVars, OutboxInv, TypeOK, ViewModel
  <2>2. TextOrder'
    BY <2>1, OrderKept DEF OutboxInv
  <2> QED
    BY <2>1, <2>2 DEF Outbox!vars, QueuedTexts, Unread
<1> QED
  BY <1>1, <1>2, <1>3, <1>4, <1>5, <1>6 DEF Next, Loop

LEMMA OrderHolds == Spec => []TextOrder
<1>1. Init => TextOrder
  <2> SUFFICES ASSUME Init
               PROVE  TextOrder
    OBVIOUS
  <2>1. Len(cmds) = 0 /\ Len(vm.txQueue) = 0
    BY EmptySeq DEF Init
  <2> QED
    BY <2>1 DEF TextOrder
<1>2. TypeOK /\ TextsCounted /\ TextOrder /\ [Next]_vars => TextOrder'
  BY StepRefines DEF OutboxInv
<1> QED
  BY <1>1, <1>2, RadioTyping, PTL DEF Spec

(***************************************************************************)
(* For every number of commands and every interleaving of users and loop:  *)
(* texts leave in the order in which they were typed, each at most once,   *)
(* and one that is missing was given up, never lost between channel, queue *)
(* and driver.                                                             *)
(***************************************************************************)
THEOREM RadioImplementsOutbox == Spec => ImplementsOutbox
<1>1. Init => Outbox!Init
  <2> SUFFICES ASSUME Init
               PROVE  Outbox!Init
    OBVIOUS
  <2>1. Len(texts) = 0 /\ Unread = {} /\ QueuedTexts = {} /\ dropped = {}
    BY EmptySeq DEF Init, Unread, QueuedTexts
  <2>2. AiredTexts = <<>>
    BY DEF Init, AiredTexts
  <2> QED
    BY <2>1, <2>2 DEF Outbox!Init, AiredTexts
<1>2. TypeOK /\ TextsCounted /\ TextOrder /\ [Next]_vars => [Outbox!Next]_(Outbox!vars)
  BY StepRefines DEF OutboxInv
<1> QED
  BY <1>1, <1>2, RadioTyping, OrderHolds, PTL DEF Spec, ImplementsOutbox, Outbox!Spec

-----------------------------------------------------------------------------
(* The destination of a text. Destinations are numbered as they are chosen. *)

IsDest(j) == cmds[j][1] = "SetTxDest"

(* By the time the first n commands are applied, d or a later one is set. *)
Reached(d, n) == d <= vm.txDest \/ \E i \in 1 .. n : IsDest(i) /\ d <= cmds[i][2]

(***************************************************************************)
(* Selections grow from the view model along the channel to the window,    *)
(* and each text on the channel comes after the selection it was typed     *)
(* under, each text in the queue after that selection was applied.         *)
(***************************************************************************)
DestOrder ==
  /\ vm.txDest <= count.sent
  /\ \A j \in 1 .. Len(cmds) : IsDest(j) => vm.txDest <= cmds[j][2] /\ cmds[j][2] <= count.sent
  /\ \A i, j \in 1 .. Len(cmds) : i < j /\ IsDest(i) /\ IsDest(j) => cmds[i][2] <= cmds[j][2]
  /\ Reached(uiDest, Len(cmds))
  /\ \A j \in 1 .. Len(cmds) : IsText(j) => Reached(texts[cmds[j][2]].dest, j)
  /\ \A i \in 1 .. Len(vm.txQueue) : texts[vm.txQueue[i]].dest <= vm.txDest
  /\ pc = "manual" => dest = vm.txDest
  /\ \A k \in 1 .. Len(aired) :
       aired[k].text \in 1 .. Len(texts) /\ aired[k].dest >= texts[aired[k].text].dest

DestInv == OutboxInv /\ DestOrder

LEMMA DestFacts ==
  ASSUME TypeOK
  PROVE  /\ vm.txDest \in Nat /\ uiDest \in Nat /\ count.sent \in Nat
         /\ \A j \in 1 .. Len(cmds) : IsDest(j) => cmds[j][2] \in Nat
         /\ \A t \in 1 .. Len(texts) : texts[t].dest \in Nat
<1>1. \A d \in Destination : d \in Nat
  BY RadioBoundAssumption DEF Destination
<1>2. vm.txDest \in Nat /\ uiDest \in Nat /\ count.sent \in Nat
  BY <1>1, RadioBoundAssumption DEF TypeOK, ViewModel
<1>3. ASSUME NEW j \in 1 .. Len(cmds), IsDest(j)
      PROVE  cmds[j][2] \in Nat
  <2>1. cmds[j] \in Command
    BY ElementOfSeq DEF TypeOK
  <2>2. PICK op \in Ops : cmds[j] \in {op} \X Argument(op)
    BY <2>1 DEF Command
  <2>3. cmds[j][2] \in Argument("SetTxDest")
    BY <1>3, <2>2 DEF IsDest
  <2> QED
    BY <1>1, <2>3 DEF Argument
<1>4. \A t \in 1 .. Len(texts) : texts[t].dest \in Nat
  <2>1. \A t \in 1 .. Len(texts) : texts[t] \in [dest : Destination, fits : BOOLEAN]
    BY ElementOfSeq DEF TypeOK
  <2> QED
    BY <1>1, <2>1
<1> QED
  BY <1>2, <1>3, <1>4

LEMMA AppendedCommand ==
  ASSUME TypeOK, NEW c \in Command, cmds' = Append(cmds, c)
  PROVE  /\ Len(cmds) \in Nat /\ Len(cmds') = Len(cmds) + 1
         /\ \A j \in 1 .. Len(cmds) : j \in 1 .. Len(cmds') /\ cmds'[j] = cmds[j]
         /\ \A j \in 1 .. Len(cmds') : j \in 1 .. Len(cmds) \/ j = Len(cmds) + 1
         /\ Len(cmds) + 1 \in 1 .. Len(cmds') /\ cmds'[Len(cmds) + 1] = c
<1>1. cmds \in Seq(Command) /\ Len(cmds) \in Nat
  BY ChannelFacts
<1>2. /\ Len(cmds') = Len(cmds) + 1 /\ cmds'[Len(cmds) + 1] = c
      /\ \A j \in 1 .. Len(cmds) : cmds'[j] = cmds[j]
  BY <1>1, AppendProperties
<1> QED
  BY <1>1, <1>2

LEMMA UsersKeepDest ==
  ASSUME DestInv, Users
  PROVE  DestOrder'
<1>1. TypeOK
  BY DEF DestInv, OutboxInv
<1>2. /\ vm' = vm /\ pc' = pc /\ dest' = dest /\ aired' = aired
      /\ count'.sent = count.sent + 1
      /\ \E c \in Command :
           /\ cmds' = Append(cmds, c)
           /\ \/ c[1] \notin {"SetTxDest", "SendText"} /\ uiDest' = uiDest /\ texts' = texts
              \/ c = <<"SetTxDest", count.sent + 1>> /\ uiDest' = count.sent + 1 /\ texts' = texts
              \/ /\ c = <<"SendText", Len(texts) + 1>> /\ uiDest' = uiDest
                 /\ \E f \in BOOLEAN : texts' = Append(texts, [dest |-> uiDest, fits |-> f])
  <2>1. CASE SendSetting
    <3>1. PICK op \in Ops \ {"SetTxDest", "SendText"} : \E arg \in Argument(op) : Send(op, arg)
      BY <2>1 DEF SendSetting
    <3>2. PICK arg \in Argument(op) : Send(op, arg)
      BY <3>1
    <3> QED
      BY <1>1, <2>1, <3>2, CommandType, SentOneMore DEF SendSetting, Send, loopVars, userVars
  <2>2. CASE SendSetTxDest
    <3>1. "SetTxDest" \in Ops /\ Send("SetTxDest", count.sent + 1)
      BY <2>2 DEF SendSetTxDest
    <3>2. count.sent + 1 \in Argument("SetTxDest")
      BY <1>1, <3>1, RadioBoundAssumption DEF Send, TypeOK, Argument, Destination
    <3> QED
      BY <1>1, <2>2, <3>1, <3>2, CommandType, SentOneMore DEF SendSetTxDest, Send, loopVars
  <2>3. CASE SendText
    <3>1. "SendText" \in Ops /\ Send("SendText", Len(texts) + 1)
      BY <2>3 DEF SendText
    <3>2. Len(texts) + 1 \in Argument("SendText")
      <4>1. Len(texts) \in Nat /\ count.sent \in Nat /\ count.sent < MaxCommands
        BY <1>1, <3>1, ChannelFacts, DestFacts DEF Send
      <4>2. Len(texts) <= count.sent
        BY DEF DestInv, OutboxInv, TextsCounted
      <4>3. Len(texts) + 1 \in Text
        BY <4>1, <4>2, RadioBoundAssumption DEF Text
      <4> QED
        BY <4>3 DEF Argument
    <3> QED
      BY <1>1, <2>3, <3>1, <3>2, CommandType, SentOneMore DEF SendText, Send, loopVars
  <2> QED
    BY <2>1, <2>2, <2>3 DEF Users
<1>3. PICK c \in Command :
        /\ cmds' = Append(cmds, c)
        /\ \/ c[1] \notin {"SetTxDest", "SendText"} /\ uiDest' = uiDest /\ texts' = texts
           \/ c = <<"SetTxDest", count.sent + 1>> /\ uiDest' = count.sent + 1 /\ texts' = texts
           \/ /\ c = <<"SendText", Len(texts) + 1>> /\ uiDest' = uiDest
              /\ \E f \in BOOLEAN : texts' = Append(texts, [dest |-> uiDest, fits |-> f])
  BY <1>2
<1>4. /\ Len(cmds) \in Nat /\ Len(cmds') = Len(cmds) + 1
      /\ \A j \in 1 .. Len(cmds) : j \in 1 .. Len(cmds') /\ cmds'[j] = cmds[j]
      /\ \A j \in 1 .. Len(cmds') : j \in 1 .. Len(cmds) \/ j = Len(cmds) + 1
      /\ Len(cmds) + 1 \in 1 .. Len(cmds') /\ cmds'[Len(cmds) + 1] = c
  BY <1>1, <1>3, AppendedCommand
<1>5. /\ vm.txDest \in Nat /\ uiDest \in Nat /\ count.sent \in Nat /\ Len(texts) \in Nat
      /\ \A j \in 1 .. Len(cmds) : IsDest(j) => cmds[j][2] \in Nat
  BY <1>1, DestFacts, ChannelFacts
<1>6. /\ \A t \in 1 .. Len(texts) : t \in 1 .. Len(texts') /\ texts'[t] = texts[t]
      /\ c[1] = "SendText" => texts'[Len(texts) + 1].dest = uiDest
  <2>1. CASE c[1] = "SendText"
    <3>0. c # <<"SetTxDest", count.sent + 1>> /\ c[1] \in {"SetTxDest", "SendText"}
      BY <2>1
    <3>1. PICK f \in BOOLEAN : texts' = Append(texts, [dest |-> uiDest, fits |-> f])
      BY <1>3, <3>0, Zenon
    <3>2. [dest |-> uiDest, fits |-> f] \in [dest : Destination, fits : BOOLEAN]
      BY <1>1 DEF TypeOK
    <3>3. /\ Len(texts') = Len(texts) + 1 /\ \A t \in 1 .. Len(texts) : texts'[t] = texts[t]
          /\ texts'[Len(texts) + 1] = [dest |-> uiDest, fits |-> f]
      BY <1>1, <3>1, <3>2, AppendProperties DEF TypeOK
    <3>4. \A t \in 1 .. Len(texts) : t \in 1 .. Len(texts')
      BY <1>5, <3>3
    <3>5. texts'[Len(texts) + 1].dest = uiDest
      BY <3>3
    <3> QED
      BY <3>3, <3>4, <3>5
  <2>2. CASE c[1] # "SendText"
    <3>1. texts' = texts
      BY <1>3, <2>2
    <3> QED
      BY <2>2, <3>1
  <2> QED
    BY <2>1, <2>2
<1>8. \A j \in 1 .. Len(cmds') :
        cmds'[j][1] = "SetTxDest" => vm.txDest <= cmds'[j][2] /\ cmds'[j][2] <= count.sent + 1
  <2> SUFFICES ASSUME NEW j \in 1 .. Len(cmds'), cmds'[j][1] = "SetTxDest"
               PROVE  vm.txDest <= cmds'[j][2] /\ cmds'[j][2] <= count.sent + 1
    OBVIOUS
  <2>1. CASE j \in 1 .. Len(cmds)
    <3>1. vm.txDest <= cmds[j][2] /\ cmds[j][2] <= count.sent /\ cmds[j][2] \in Nat
      BY <1>4, <1>5, <2>1 DEF DestInv, DestOrder, IsDest
    <3> QED
      BY <1>4, <1>5, <2>1, <3>1
  <2>2. CASE j = Len(cmds) + 1
    <3>1. cmds'[j][2] = count.sent + 1
      BY <1>3, <1>4, <2>2
    <3>2. vm.txDest <= count.sent
      BY DEF DestInv, DestOrder
    <3> QED
      BY <1>5, <3>1, <3>2
  <2> QED
    BY <1>4, <2>1, <2>2
<1>9. \A i, j \in 1 .. Len(cmds') :
        i < j /\ cmds'[i][1] = "SetTxDest" /\ cmds'[j][1] = "SetTxDest" => cmds'[i][2] <= cmds'[j][2]
  <2> SUFFICES ASSUME NEW i \in 1 .. Len(cmds'), NEW j \in 1 .. Len(cmds'), i < j,
                      cmds'[i][1] = "SetTxDest", cmds'[j][1] = "SetTxDest"
               PROVE  cmds'[i][2] <= cmds'[j][2]
    OBVIOUS
  <2>1. i \in 1 .. Len(cmds)
    BY <1>4
  <2>2. cmds[i][2] <= count.sent /\ cmds[i][2] \in Nat
    BY <1>4, <1>5, <2>1 DEF DestInv, DestOrder, IsDest
  <2>3. CASE j \in 1 .. Len(cmds)
    BY <1>4, <2>1, <2>3 DEF DestInv, DestOrder, IsDest
  <2>4. CASE j = Len(cmds) + 1
    <3>1. cmds'[j][2] = count.sent + 1
      BY <1>3, <1>4, <2>4
    <3> QED
      BY <1>4, <1>5, <2>1, <2>2, <3>1
  <2> QED
    BY <1>4, <2>3, <2>4
<1>10. \/ uiDest' <= vm'.txDest
       \/ \E i \in 1 .. Len(cmds') : cmds'[i][1] = "SetTxDest" /\ uiDest' <= cmds'[i][2]
  <2>1. CASE uiDest' = uiDest
    <3>1. Reached(uiDest, Len(cmds))
      BY DEF DestInv, DestOrder
    <3>2. \A i \in 1 .. Len(cmds) : i \in 1 .. Len(cmds') /\ cmds'[i] = cmds[i]
      BY <1>4
    <3> QED
      BY <1>2, <2>1, <3>1, <3>2 DEF Reached, IsDest
  <2>2. CASE c = <<"SetTxDest", count.sent + 1>> /\ uiDest' = count.sent + 1
    <3>1. uiDest' <= cmds'[Len(cmds) + 1][2] /\ cmds'[Len(cmds) + 1][1] = "SetTxDest"
      BY <1>4, <1>5, <2>2
    <3> QED
      BY <1>4, <3>1 DEF Reached, IsDest
  <2> QED
    BY <1>3, <2>1, <2>2
<1>11. \A j \in 1 .. Len(cmds') :
         cmds'[j][1] = "SendText" =>
           \/ texts'[cmds'[j][2]].dest <= vm'.txDest
           \/ \E i \in 1 .. j : /\ cmds'[i][1] = "SetTxDest"
                               /\ texts'[cmds'[j][2]].dest <= cmds'[i][2]
  <2> SUFFICES ASSUME NEW j \in 1 .. Len(cmds'), cmds'[j][1] = "SendText"
               PROVE  \/ texts'[cmds'[j][2]].dest <= vm'.txDest
                      \/ \E i \in 1 .. j : /\ cmds'[i][1] = "SetTxDest"
                                          /\ texts'[cmds'[j][2]].dest <= cmds'[i][2]
    OBVIOUS
  <2>1. CASE j \in 1 .. Len(cmds)
    <3>1. cmds'[j] = cmds[j] /\ IsText(j)
      BY <1>4, <2>1 DEF IsText
    <3>2. cmds[j][2] \in 1 .. Len(texts)
      <4>1. cmds[j][2] \in Text /\ cmds[j][2] <= Len(texts)
        BY <1>1, <2>1, <3>1, TextArgument DEF DestInv, OutboxInv, TextOrder
      <4> QED
        BY <1>5, <4>1, RadioBoundAssumption DEF Text
    <3>3. Reached(texts[cmds[j][2]].dest, j)
      BY <2>1, <3>1 DEF DestInv, DestOrder
    <3>4. \A i \in 1 .. j : i \in 1 .. Len(cmds) /\ cmds'[i] = cmds[i]
      BY <1>4, <2>1
    <3>5. texts'[cmds[j][2]] = texts[cmds[j][2]]
      BY <1>6, <3>2
    <3> QED
      BY <1>2, <3>1, <3>3, <3>4, <3>5 DEF Reached, IsDest
  <2>2. CASE j = Len(cmds) + 1
    <3>1. cmds'[j] = c /\ c[1] = "SendText" /\ c[2] = Len(texts) + 1
      BY <1>3, <1>4, <2>2
    <3>2. texts'[cmds'[j][2]].dest = uiDest
      BY <1>6, <3>1
    <3>3. Reached(uiDest, Len(cmds))
      BY DEF DestInv, DestOrder
    <3>4. \A i \in 1 .. Len(cmds) : i \in 1 .. j /\ cmds'[i] = cmds[i]
      BY <1>4, <2>2
    <3> QED
      BY <1>2, <3>2, <3>3, <3>4 DEF Reached, IsDest
  <2> QED
    BY <1>4, <2>1, <2>2
<1>12. \A i \in 1 .. Len(vm.txQueue) : texts'[vm.txQueue[i]].dest <= vm.txDest
  <2> SUFFICES ASSUME NEW i \in 1 .. Len(vm.txQueue)
               PROVE  texts'[vm.txQueue[i]].dest <= vm.txDest
    OBVIOUS
  <2>1. vm.txQueue[i] \in Text /\ vm.txQueue[i] <= Len(texts)
    BY <1>1, ChannelFacts DEF DestInv, OutboxInv, TextOrder
  <2>2. vm.txQueue[i] \in 1 .. Len(texts)
    BY <1>5, <2>1, RadioBoundAssumption DEF Text
  <2>3. texts[vm.txQueue[i]].dest <= vm.txDest
    BY DEF DestInv, DestOrder
  <2> QED
    BY <1>6, <2>2, <2>3
<1>13. \A k \in 1 .. Len(aired) :
         aired[k].text \in 1 .. Len(texts') /\ aired[k].dest >= texts'[aired[k].text].dest
  BY <1>6 DEF DestInv, DestOrder
<1>14. vm.txDest <= count.sent + 1
  BY <1>5 DEF DestInv, DestOrder
<1>15. pc = "manual" => dest = vm.txDest
  BY DEF DestInv, DestOrder
<1> QED
  BY <1>2, <1>8, <1>9, <1>10, <1>11, <1>12, <1>13, <1>14, <1>15
  DEF DestOrder, Reached, IsDest, IsText

LEMMA AppliedDest ==
  ASSUME NEW v \in ViewModel, NEW op \in Operation, NEW arg
  PROVE  Applied(v, op, arg).txDest = IF op = "SetTxDest" THEN arg ELSE v.txDest
<1>1. CASE op = "SetTxDest"
  BY <1>1 DEF Applied, ViewModel
<1>2. CASE op # "SetTxDest"
  BY <1>2 DEF Applied, Renamed, Operation, ViewModel
<1> QED
  BY <1>1, <1>2

LEMMA DrainKeepsDest ==
  ASSUME DestInv, ApplyCommand
  PROVE  DestOrder'
<1>1. /\ TypeOK /\ texts' = texts /\ uiDest' = uiDest /\ aired' = aired /\ count' = count
      /\ pc = "drain" /\ pc' = "drain" /\ cmds # <<>> /\ cmds' = Tail(cmds)
  BY DEF ApplyCommand, userVars, DestInv, OutboxInv
<1>2. /\ Len(cmds) \in Nat /\ Len(cmds) > 0 /\ Len(cmds') = Len(cmds) - 1
      /\ Head(cmds) = cmds[1]
      /\ \A j \in 1 .. Len(cmds') : cmds'[j] = cmds[j + 1]
  <2>1. cmds \in Seq(Command) /\ Len(cmds) \in Nat
    BY <1>1, ChannelFacts
  <2> QED
    BY <1>1, <2>1, HeadTailProperties, EmptySeq
<1>3. /\ 1 \in 1 .. Len(cmds)
      /\ \A j \in 1 .. Len(cmds') : j + 1 \in 1 .. Len(cmds) /\ 1 < j + 1
      /\ \A i \in 1 .. Len(cmds) : i = 1 \/ (i - 1 \in 1 .. Len(cmds') /\ cmds'[i - 1] = cmds[i])
  BY <1>2
<1>4. /\ vm'.txDest = IF IsDest(1) THEN cmds[1][2] ELSE vm.txDest
      /\ vm'.txQueue = IF IsText(1) THEN Append(vm.txQueue, cmds[1][2]) ELSE vm.txQueue
  <2>1. cmds[1] \in Command
    BY <1>1, <1>3, ElementOfSeq DEF TypeOK
  <2>2. PICK op \in Ops : cmds[1] \in {op} \X Argument(op)
    BY <2>1 DEF Command
  <2>3. vm' = Applied(vm, op, cmds[1][2]) /\ op \in Operation /\ cmds[1][1] = op
    BY <1>2, <2>2, OpsAssumption DEF ApplyCommand
  <2> QED
    BY <1>1, <2>3, AppliedDest, AppliedQueue DEF TypeOK, IsText, IsDest
<1>5. /\ vm.txDest \in Nat /\ uiDest \in Nat /\ count.sent \in Nat /\ Len(texts) \in Nat
      /\ \A j \in 1 .. Len(cmds) : IsDest(j) => cmds[j][2] \in Nat
      /\ \A t \in 1 .. Len(texts) : texts[t].dest \in Nat
  BY <1>1, DestFacts, ChannelFacts
<1>6. /\ vm'.txDest \in Nat /\ vm.txDest <= vm'.txDest /\ vm'.txDest <= count.sent
      /\ \A d \in Nat : d <= vm.txDest => d <= vm'.txDest
  <2>1. vm'.txDest \in Nat /\ vm.txDest <= vm'.txDest /\ vm'.txDest <= count.sent
    BY <1>3, <1>4, <1>5 DEF DestInv, DestOrder
  <2> QED
    BY <1>5, <2>1
<1>7. ASSUME NEW d \in Nat, NEW n \in 1 .. Len(cmds), Reached(d, n)
      PROVE  \/ d <= vm'.txDest
             \/ \E i \in 1 .. n - 1 : cmds'[i][1] = "SetTxDest" /\ d <= cmds'[i][2]
  <2>1. CASE d <= vm.txDest
    BY <1>5, <1>6, <2>1
  <2>2. CASE \E i \in 1 .. n : IsDest(i) /\ d <= cmds[i][2]
    <3>1. PICK i \in 1 .. n : IsDest(i) /\ d <= cmds[i][2]
      BY <2>2
    <3>2. CASE i = 1
      BY <1>4, <3>1, <3>2
    <3>3. CASE i # 1
      <4>1. i \in 1 .. Len(cmds) /\ i - 1 \in 1 .. n - 1
        BY <1>2, <3>3
      <4>2. cmds'[i - 1] = cmds[i]
        BY <1>3, <3>3, <4>1
      <4> QED
        BY <3>1, <4>1, <4>2 DEF IsDest
    <3> QED
      BY <3>2, <3>3
  <2> QED
    BY <1>7, <2>1, <2>2 DEF Reached
<1>8. \A j \in 1 .. Len(cmds') :
        cmds'[j][1] = "SetTxDest" => vm'.txDest <= cmds'[j][2] /\ cmds'[j][2] <= count.sent
  BY <1>2, <1>3, <1>4 DEF DestInv, DestOrder, IsDest
<1>9. \A i, j \in 1 .. Len(cmds') :
        i < j /\ cmds'[i][1] = "SetTxDest" /\ cmds'[j][1] = "SetTxDest" => cmds'[i][2] <= cmds'[j][2]
  <2> SUFFICES ASSUME NEW i \in 1 .. Len(cmds'), NEW j \in 1 .. Len(cmds'), i < j,
                      cmds'[i][1] = "SetTxDest", cmds'[j][1] = "SetTxDest"
               PROVE  cmds'[i][2] <= cmds'[j][2]
    OBVIOUS
  <2>1. i + 1 \in 1 .. Len(cmds) /\ j + 1 \in 1 .. Len(cmds) /\ i + 1 < j + 1
    BY <1>3
  <2>2. cmds'[i] = cmds[i + 1] /\ cmds'[j] = cmds[j + 1]
    BY <1>2
  <2> QED
    BY <2>1, <2>2 DEF DestInv, DestOrder, IsDest
<1>10. \/ uiDest' <= vm'.txDest
       \/ \E i \in 1 .. Len(cmds') : cmds'[i][1] = "SetTxDest" /\ uiDest' <= cmds'[i][2]
  <2>1. Reached(uiDest, Len(cmds)) /\ Len(cmds) \in 1 .. Len(cmds)
    BY <1>2 DEF DestInv, DestOrder
  <2> QED
    BY <1>1, <1>2, <1>5, <1>7, <2>1
<1>11. \A j \in 1 .. Len(cmds) : IsText(j) => cmds[j][2] \in 1 .. Len(texts)
  <2> SUFFICES ASSUME NEW j \in 1 .. Len(cmds), IsText(j)
               PROVE  cmds[j][2] \in 1 .. Len(texts)
    OBVIOUS
  <2>1. cmds[j][2] \in Text /\ cmds[j][2] <= Len(texts)
    BY <1>1, TextArgument DEF DestInv, OutboxInv, TextOrder
  <2> QED
    BY <1>5, <2>1, RadioBoundAssumption DEF Text
<1>12. \A j \in 1 .. Len(cmds') :
         cmds'[j][1] = "SendText" =>
           \/ texts'[cmds'[j][2]].dest <= vm'.txDest
           \/ \E i \in 1 .. j : /\ cmds'[i][1] = "SetTxDest"
                               /\ texts'[cmds'[j][2]].dest <= cmds'[i][2]
  <2> SUFFICES ASSUME NEW j \in 1 .. Len(cmds'), cmds'[j][1] = "SendText"
               PROVE  \/ texts'[cmds'[j][2]].dest <= vm'.txDest
                      \/ \E i \in 1 .. j : /\ cmds'[i][1] = "SetTxDest"
                                          /\ texts'[cmds'[j][2]].dest <= cmds'[i][2]
    OBVIOUS
  <2>1. j + 1 \in 1 .. Len(cmds) /\ cmds'[j] = cmds[j + 1] /\ (j + 1) - 1 = j /\ IsText(j + 1)
    BY <1>2, <1>3 DEF IsText
  <2>2. cmds[j + 1][2] \in 1 .. Len(texts) /\ texts[cmds[j + 1][2]].dest \in Nat
    BY <1>5, <1>11, <2>1
  <2>3. Reached(texts[cmds[j + 1][2]].dest, j + 1)
    BY <2>1 DEF DestInv, DestOrder
  <2> QED
    BY <1>1, <1>7, <2>1, <2>2, <2>3
<1>13. ASSUME NEW i \in 1 .. Len(vm.txQueue)
       PROVE  texts[vm.txQueue[i]].dest <= vm'.txDest
  <2>1. vm.txQueue[i] \in 1 .. Len(texts)
    BY <1>1, <1>5, ChannelFacts, RadioBoundAssumption DEF DestInv, OutboxInv, TextOrder, Text
  <2>2. texts[vm.txQueue[i]].dest <= vm.txDest
    BY DEF DestInv, DestOrder
  <2>3. texts[vm.txQueue[i]].dest \in Nat
    BY <1>5, <2>1
  <2> QED
    BY <1>6, <2>2, <2>3
<1>14. \A i \in 1 .. Len(vm'.txQueue) : texts'[vm'.txQueue[i]].dest <= vm'.txDest
  <2>1. CASE ~IsText(1)
    BY <1>1, <1>4, <1>13, <2>1
  <2>2. CASE IsText(1)
    <3>1. cmds[1][2] \in Text /\ cmds[1][2] \in 1 .. Len(texts)
      BY <1>1, <1>3, <1>11, <2>2, TextArgument
    <3>2. texts[cmds[1][2]].dest <= vm.txDest
      <4>1. Reached(texts[cmds[1][2]].dest, 1)
        BY <1>3, <2>2 DEF DestInv, DestOrder
      <4>2. ~IsDest(1)
        BY <2>2 DEF IsText, IsDest
      <4> QED
        BY <4>1, <4>2 DEF Reached
    <3>3. /\ Len(vm.txQueue) \in Nat /\ Len(vm'.txQueue) = Len(vm.txQueue) + 1
          /\ \A i \in 1 .. Len(vm.txQueue) : vm'.txQueue[i] = vm.txQueue[i]
          /\ vm'.txQueue[Len(vm.txQueue) + 1] = cmds[1][2]
      BY <1>1, <1>4, <2>2, <3>1, ChannelFacts, AppendProperties
    <3>4. texts[cmds[1][2]].dest <= vm'.txDest
      <4>1. texts[cmds[1][2]].dest \in Nat
        BY <1>5, <3>1
      <4> QED
        BY <1>6, <3>2, <4>1
    <3> SUFFICES ASSUME NEW i \in 1 .. Len(vm'.txQueue)
                 PROVE  texts[vm'.txQueue[i]].dest <= vm'.txDest
      BY <1>1
    <3>5. CASE i \in 1 .. Len(vm.txQueue)
      BY <1>13, <3>3, <3>5
    <3>6. CASE i = Len(vm.txQueue) + 1
      BY <3>3, <3>4, <3>6
    <3> QED
      BY <3>3, <3>5, <3>6
  <2> QED
    BY <2>1, <2>2
<1>15. \A k \in 1 .. Len(aired') :
         aired'[k].text \in 1 .. Len(texts') /\ aired'[k].dest >= texts'[aired'[k].text].dest
  BY <1>1 DEF DestInv, DestOrder
<1>16. pc' # "manual"
  BY <1>1
<1> QED
  BY <1>1, <1>6, <1>8, <1>9, <1>10, <1>12, <1>14, <1>15, <1>16
  DEF DestOrder, Reached, IsDest, IsText

(* A step that keeps the channel and takes texts off the queue only. *)
LEMMA QueueShrinksKeepsDest ==
  ASSUME DestInv, cmds' = cmds, texts' = texts, uiDest' = uiDest, count'.sent = count.sent,
         vm'.txDest = vm.txDest,
         \A i \in 1 .. Len(vm'.txQueue) :
           \E j \in 1 .. Len(vm.txQueue) : vm'.txQueue[i] = vm.txQueue[j],
         pc' = "manual" => dest' = vm.txDest,
         aired' = aired
           \/ \E t \in QueuedTexts : aired' = Append(aired, [text |-> t, dest |-> vm.txDest])
  PROVE  DestOrder'
<1>1. TypeOK
  BY DEF DestInv, OutboxInv
<1>2. \A i \in 1 .. Len(vm'.txQueue) : texts'[vm'.txQueue[i]].dest <= vm'.txDest
  BY DEF DestInv, DestOrder
<1>3. \A k \in 1 .. Len(aired') :
        aired'[k].text \in 1 .. Len(texts') /\ aired'[k].dest >= texts'[aired'[k].text].dest
  <2>1. CASE aired' = aired
    BY <2>1 DEF DestInv, DestOrder
  <2>2. CASE \E t \in QueuedTexts : aired' = Append(aired, [text |-> t, dest |-> vm.txDest])
    <3>1. PICK t \in QueuedTexts : aired' = Append(aired, [text |-> t, dest |-> vm.txDest])
      BY <2>2
    <3>2. PICK i \in 1 .. Len(vm.txQueue) : t = vm.txQueue[i]
      BY <1>1, ChannelFacts
    <3>3. t \in Text /\ t \in 1 .. Len(texts)
      BY <1>1, <3>2, ChannelFacts, RadioBoundAssumption DEF DestInv, OutboxInv, TextOrder, Text
    <3>4. texts[t].dest <= vm.txDest /\ texts[t].dest \in Nat /\ vm.txDest \in Nat
      BY <1>1, <3>2, <3>3, DestFacts DEF DestInv, DestOrder
    <3>5. [text |-> t, dest |-> vm.txDest] \in [text : Text, dest : Destination]
      BY <1>1, <3>3 DEF TypeOK, ViewModel
    <3>6. aired \in Seq([text : Text, dest : Destination]) /\ Len(aired) \in Nat
      BY <1>1, LenProperties DEF TypeOK
    <3>7. /\ Len(aired') = Len(aired) + 1
          /\ \A k \in 1 .. Len(aired) : aired'[k] = aired[k]
          /\ aired'[Len(aired) + 1] = [text |-> t, dest |-> vm.txDest]
      BY <3>1, <3>5, <3>6, AppendProperties
    <3> SUFFICES ASSUME NEW k \in 1 .. Len(aired')
                 PROVE  /\ aired'[k].text \in 1 .. Len(texts)
                        /\ aired'[k].dest >= texts[aired'[k].text].dest
      OBVIOUS
    <3>8. CASE k \in 1 .. Len(aired)
      BY <3>7, <3>8 DEF DestInv, DestOrder
    <3>9. CASE k = Len(aired) + 1
      BY <3>3, <3>4, <3>7, <3>9
    <3> QED
      BY <3>6, <3>7, <3>8, <3>9
  <2> QED
    BY <2>1, <2>2
<1> QED
  BY <1>2, <1>3 DEF DestInv, DestOrder, Reached, IsDest, IsText

LEMMA StepKeepsDest ==
  ASSUME DestInv, [Next]_vars
  PROVE  DestOrder'
<1>1. TypeOK
  BY DEF DestInv, OutboxInv
<1>2. CASE Users
  BY <1>2, UsersKeepDest
<1>3. CASE ApplyCommand
  BY <1>3, DrainKeepsDest
<1>4. CASE TransmitText \/ SkipText
  <2>1. /\ cmds' = cmds /\ texts' = texts /\ uiDest' = uiDest /\ count' = count
        /\ dest' = dest /\ pc = "manual" /\ vm.txQueue # <<>>
        /\ vm' = [vm EXCEPT !.txQueue = Tail(@)]
    BY <1>4 DEF TransmitText, SkipText, userVars
  <2>2. dest = vm.txDest
    BY <2>1 DEF DestInv, DestOrder
  <2>3. vm'.txDest = vm.txDest /\ vm'.txQueue = Tail(vm.txQueue)
    BY <1>1, <2>1 DEF TypeOK, ViewModel
  <2>4. Head(vm.txQueue) \in QueuedTexts
    BY <2>1, HeadOfQueue DEF DestInv
  <2>5. aired' = aired
          \/ \E t \in QueuedTexts : aired' = Append(aired, [text |-> t, dest |-> vm.txDest])
    BY <1>4, <2>2, <2>4 DEF TransmitText, SkipText
  <2>6. \A i \in 1 .. Len(vm'.txQueue) :
          \E j \in 1 .. Len(vm.txQueue) : vm'.txQueue[i] = vm.txQueue[j]
    <3>1. vm.txQueue \in Seq(Text) /\ Len(vm.txQueue) \in Nat
      BY <1>1, ChannelFacts
    <3>2. /\ Len(vm'.txQueue) = Len(vm.txQueue) - 1
          /\ \A i \in 1 .. Len(vm'.txQueue) : vm'.txQueue[i] = vm.txQueue[i + 1]
      BY <2>1, <2>3, <3>1, HeadTailProperties
    <3>3. \A i \in 1 .. Len(vm'.txQueue) : i + 1 \in 1 .. Len(vm.txQueue)
      BY <3>1, <3>2
    <3> QED
      BY <3>2, <3>3
  <2> QED
    BY <2>1, <2>2, <2>3, <2>5, <2>6, QueueShrinksKeepsDest
<1>5. CASE EndManual
  <2>1. /\ cmds' = cmds /\ texts' = texts /\ uiDest' = uiDest /\ count' = count
        /\ aired' = aired /\ pc' = "auto" /\ vm'.txDest = vm.txDest /\ Len(vm'.txQueue) = 0
    BY <1>1, <1>5, EmptySeq DEF EndManual, QueueAfterManual, userVars, TypeOK, ViewModel
  <2>2. \A i \in 1 .. Len(vm'.txQueue) : FALSE
    BY <2>1
  <2> QED
    BY <2>1, <2>2, QueueShrinksKeepsDest
<1>6. CASE \/ StartTick \/ Rebuild \/ ReadParams \/ Beacon \/ AutoTx \/ NoAutoTx
           \/ TickDriver \/ DecodeFrame \/ EndTick \/ UNCHANGED vars
  <2>1. /\ cmds' = cmds /\ texts' = texts /\ uiDest' = uiDest /\ aired' = aired
        /\ vm'.txQueue = vm.txQueue /\ vm'.txDest = vm.txDest
    BY <1>1, <1>6 DEF StartTick, Rebuild, ReadParams, Beacon, AutoTx, NoAutoTx, TickDriver,
       DecodeFrame, EndTick, vars, loopVars, userVars, TypeOK, ViewModel
  <2>2. count'.sent = count.sent
    BY <1>1, <1>6 DEF StartTick, Rebuild, ReadParams, Beacon, AutoTx, NoAutoTx, TickDriver,
       OnlyEchoes, EchoesAndForeign, DecodeFrame, EndTick, vars, TypeOK
  <2>3. pc' = "manual" => dest' = vm.txDest
    BY <1>6 DEF StartTick, Rebuild, ReadParams, Beacon, ReadDest, AutoTx, NoAutoTx,
       TickDriver, DecodeFrame, EndTick, vars, loopVars, DestInv, DestOrder
  <2> QED
    BY <2>1, <2>2, <2>3, QueueShrinksKeepsDest
<1> QED
  BY <1>2, <1>3, <1>4, <1>5, <1>6 DEF Next, Loop

(***************************************************************************)
(* For every number of commands: a text is sent to the destination that    *)
(* was selected when it was typed, or to one selected later, never to one  *)
(* the user had already left.                                              *)
(***************************************************************************)
THEOREM TextsReachDestination == Spec => []DestNotStale
<1>1. Init => DestOrder
  <2> SUFFICES ASSUME Init
               PROVE  DestOrder
    OBVIOUS
  <2>1. Len(cmds) = 0 /\ Len(vm.txQueue) = 0 /\ Len(aired) = 0
    BY EmptySeq DEF Init
  <2>2. vm.txDest = 0 /\ uiDest = 0 /\ count.sent = 0 /\ pc # "manual"
    BY DEF Init
  <2> QED
    BY <2>1, <2>2 DEF DestOrder, Reached
<1>2. TypeOK /\ TextsCounted /\ TextOrder /\ DestOrder /\ [Next]_vars => DestOrder'
  BY StepKeepsDest DEF DestInv, OutboxInv
<1>3. TypeOK /\ DestOrder => DestNotStale
  BY LenProperties DEF TypeOK, DestOrder, DestNotStale
<1> QED
  BY <1>1, <1>2, <1>3, RadioTyping, OrderHolds, PTL DEF Spec
=============================================================================
