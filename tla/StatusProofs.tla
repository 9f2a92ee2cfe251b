---------------------------- MODULE StatusProofs ----------------------------
(***************************************************************************)
(* Theorems about Status, for every log length, beacon interval, number of *)
(* commands, reports and stations.                                         *)
(***************************************************************************)
EXTENDS Status, SequenceTheorems, FiniteSetTheorems, TLAPS

-----------------------------------------------------------------------------
(* One entry more. *)

TxEntry == [dir |-> "Tx", own |-> FALSE]
RxEntry == [dir |-> "Rx", own |-> FALSE]
EchoEntry == [dir |-> "Rx", own |-> TRUE]

(* PushLog, of an entry. *)
Writes(v, e) == vm' = [v EXCEPT !.log = Pushed(@, e)] /\ since' = Append(since, e)

RecentEnd(log, hist) ==
  /\ Len(log) = Lower(Len(hist), MAX_LOG)
  /\ \A k \in 1 .. Len(log) : log[k] = hist[Len(hist) - Len(log) + k]

LEMMA PushedLog ==
  ASSUME NEW log \in Seq(Entry), Len(log) <= MAX_LOG, NEW e \in Entry
  PROVE  LET new == Pushed(log, e)
             full == Len(log) = MAX_LOG
         IN /\ new \in Seq(Entry)
            /\ Len(new) = IF full THEN MAX_LOG ELSE Len(log) + 1
            /\ new[Len(new)] = e
            /\ \A k \in 1 .. Len(new) - 1 : new[k] = log[IF full THEN k + 1 ELSE k]
<1>1. MAX_LOG \in Nat \ {0} /\ Len(log) \in Nat
  BY StatusAssumption, LenProperties
<1>2. CASE Len(log) = MAX_LOG
  <2>1. log # <<>>
    BY <1>1, <1>2, EmptySeq
  <2>2. /\ Tail(log) \in Seq(Entry)
        /\ Len(Tail(log)) = Len(log) - 1
        /\ \A k \in 1 .. Len(Tail(log)) : Tail(log)[k] = log[k + 1]
    BY <2>1, HeadTailProperties
  <2>3. Pushed(log, e) = Append(Tail(log), e)
    BY <1>1, <1>2 DEF Pushed
  <2>4. /\ Append(Tail(log), e) \in Seq(Entry)
        /\ Len(Append(Tail(log), e)) = Len(log)
        /\ Append(Tail(log), e)[Len(log)] = e
        /\ \A k \in 1 .. Len(log) - 1 : Append(Tail(log), e)[k] = Tail(log)[k]
    BY <1>1, <2>2, AppendProperties
  <2> QED
    BY <1>1, <1>2, <2>2, <2>3, <2>4
<1>3. CASE Len(log) # MAX_LOG
  <2>1. Pushed(log, e) = Append(log, e)
    BY <1>1, <1>3 DEF Pushed
  <2>2. /\ Append(log, e) \in Seq(Entry)
        /\ Len(Append(log, e)) = Len(log) + 1
        /\ Append(log, e)[Len(log) + 1] = e
        /\ \A k \in 1 .. Len(log) : Append(log, e)[k] = log[k]
    BY AppendProperties
  <2> QED
    BY <1>1, <1>3, <2>1, <2>2
<1> QED
  BY <1>2, <1>3

LEMMA PushKeepsRecentEnd ==
  ASSUME NEW log \in Seq(Entry), NEW hist \in Seq(Entry), NEW e \in Entry,
         RecentEnd(log, hist)
  PROVE  RecentEnd(Pushed(log, e), Append(hist, e))
<1> DEFINE new == Pushed(log, e)
           after == Append(hist, e)
           n == Len(hist)
           m == Len(log)
<1>1. MAX_LOG \in Nat \ {0} /\ n \in Nat /\ m \in Nat /\ m <= MAX_LOG /\ m <= n
      /\ (m # MAX_LOG => m = n)
  BY StatusAssumption, LenProperties DEF RecentEnd, Lower
<1>2. Len(after) = n + 1 /\ after[n + 1] = e /\ \A k \in 1 .. n : after[k] = hist[k]
  BY AppendProperties
<1>3. /\ Len(new) = IF m = MAX_LOG THEN MAX_LOG ELSE m + 1
      /\ new[Len(new)] = e
      /\ \A k \in 1 .. Len(new) - 1 : new[k] = log[IF m = MAX_LOG THEN k + 1 ELSE k]
  BY <1>1, PushedLog
<1> HIDE DEF new, after
<1>4. Len(new) = Lower(Len(after), MAX_LOG)
  BY <1>1, <1>2, <1>3 DEF Lower
<1>5. ASSUME NEW k \in 1 .. Len(new)
      PROVE  new[k] = after[Len(after) - Len(new) + k]
  <2>1. CASE k = Len(new)
    BY <1>1, <1>2, <1>3, <2>1
  <2>2. CASE k # Len(new) /\ m = MAX_LOG
    <3>1. k \in 1 .. Len(new) - 1 /\ k + 1 \in 1 .. m /\ Len(new) = m
      BY <1>1, <1>3, <2>2
    <3>2. new[k] = log[k + 1] /\ log[k + 1] = hist[n - m + (k + 1)]
      BY <1>3, <2>2, <3>1 DEF RecentEnd
    <3>3. n - m + (k + 1) \in 1 .. n /\ Len(after) - Len(new) + k = n - m + (k + 1)
      BY <1>1, <1>2, <3>1
    <3> QED
      BY <1>2, <3>2, <3>3
  <2>3. CASE k # Len(new) /\ m # MAX_LOG
    <3>1. k \in 1 .. m /\ Len(new) = m + 1 /\ k \in 1 .. Len(new) - 1
      BY <1>1, <1>3, <2>3
    <3>2. new[k] = log[k] /\ log[k] = hist[n - m + k]
      BY <1>3, <2>3, <3>1 DEF RecentEnd
    <3>3. n - m + k \in 1 .. n /\ Len(after) - Len(new) + k = n - m + k
      BY <1>1, <1>2, <3>1
    <3> QED
      BY <1>2, <3>2, <3>3
  <2> QED
    BY <2>1, <2>2, <2>3
<1> QED
  BY <1>4, <1>5 DEF RecentEnd, new, after

(* The number of entries of a kind in a history. *)
Places(hist, e) == {k \in 1 .. Len(hist) : hist[k] = e}

LEMMA PlacesFinite ==
  ASSUME NEW hist \in Seq(Entry), NEW e
  PROVE  IsFiniteSet(Places(hist, e)) /\ Cardinality(Places(hist, e)) \in Nat
<1>1. Len(hist) \in Nat
  BY LenProperties
<1>2. IsFiniteSet(1 .. Len(hist))
  BY <1>1, FS_Interval
<1>3. Places(hist, e) \in SUBSET (1 .. Len(hist))
  BY DEF Places
<1> QED
  BY <1>2, <1>3, FS_Subset, FS_CardinalityType

LEMMA PlacesAppended ==
  ASSUME NEW hist \in Seq(Entry), NEW e \in Entry, NEW new \in Entry
  PROVE  Cardinality(Places(Append(hist, new), e))
           = Cardinality(Places(hist, e)) + (IF new = e THEN 1 ELSE 0)
<1> DEFINE n == Len(hist)
           after == Append(hist, new)
<1>1. n \in Nat
  BY LenProperties
<1>2. Len(after) = n + 1 /\ after[n + 1] = new /\ \A k \in 1 .. n : after[k] = hist[k]
  BY AppendProperties
<1> HIDE DEF after
<1>3. IsFiniteSet(Places(hist, e)) /\ Cardinality(Places(hist, e)) \in Nat
  BY PlacesFinite
<1>4. n + 1 \notin Places(hist, e)
  BY <1>1 DEF Places
<1>5. CASE new = e
  <2>1. Places(after, e) = Places(hist, e) \cup {n + 1}
    BY <1>1, <1>2, <1>5 DEF Places
  <2> QED
    BY <1>3, <1>4, <1>5, <2>1, FS_AddElement DEF after
<1>6. CASE new # e
  <2>1. Places(after, e) = Places(hist, e)
    BY <1>1, <1>2, <1>6 DEF Places
  <2> QED
    BY <1>3, <1>6, <2>1 DEF after
<1> QED
  BY <1>5, <1>6

LEMMA NoPlaces ==
  ASSUME NEW e
  PROVE  Cardinality(Places(<<>>, e)) = 0
<1>1. Places(<<>>, e) = {}
  BY EmptySeq DEF Places
<1> QED
  BY <1>1, FS_EmptySet

(* What ui_stats computes from any two readings. *)
LEMMA PercentIsSmall ==
  ASSUME NEW tx \in Nat \ {0}, NEW rx \in Nat
  PROVE  Percent(tx, rx) \in 0 .. 100
<1> DEFINE lost == tx - Lower(rx, tx)
<1>1. lost \in Nat /\ lost <= tx
  BY DEF Lower
<1> HIDE DEF lost
<1>2. lost * 100 \in Nat /\ lost * 100 <= tx * 100
  BY <1>1
<1>3. (lost * 100) \div tx \in 0 .. 100
  BY <1>1, <1>2, SMTT(60)
<1> QED
  BY <1>3 DEF Percent, lost
-----------------------------------------------------------------------------
(***************************************************************************)
(* The inductive invariant: counters are bounded by what was reported, and *)
(* between the stores of a report or a reset they differ from the history  *)
(* by exactly the store that is due.                                       *)
(***************************************************************************)
CountedBy(v, hist, at) ==
  /\ at \notin {"resetRx", "resetLog"} =>
       /\ v.tx = Cardinality(Places(hist, TxEntry)) + (IF at = "logTx" THEN 1 ELSE 0)
       /\ v.rx = Cardinality(Places(hist, RxEntry)) + (IF at = "logRx" THEN 1 ELSE 0)
  /\ at = "resetRx" => v.tx = 0
  /\ at = "resetLog" => v.tx = 0 /\ v.rx = 0

Reported(v, n) == v.tx <= n /\ v.rx <= n

PerBounded == window.per # None => window.per <= 100

View == [mode : Mode, rebuildNodes : BOOLEAN, rebuildDriver : BOOLEAN,
         tx : 0 .. MaxReports, rx : 0 .. MaxReports,
         log : Seq(Entry), neighbours : SUBSET Node]

StatusInv ==
  /\ TypeOK /\ Reported(vm, count.reports)
  /\ RecentEnd(vm.log, since) /\ CountedBy(vm, since, pc) /\ PerBounded

LEMMA VmFields ==
  ASSUME TypeOK
  PROVE  /\ vm \in View /\ vm.tx \in Nat /\ vm.rx \in Nat
         /\ count.reports \in 0 .. MaxReports /\ count.sent \in 0 .. MaxCommands
         /\ MaxReports \in Nat /\ MaxCommands \in Nat /\ 0 \in 0 .. MaxReports
<1>1. vm \in View /\ MaxReports \in Nat /\ MaxCommands \in Nat
  BY StatusAssumption DEF TypeOK, View
<1>2. vm.tx \in 0 .. MaxReports /\ vm.rx \in 0 .. MaxReports
  BY <1>1 DEF View
<1> QED
  BY <1>1, <1>2 DEF TypeOK

LEMMA WrittenFinite ==
  ASSUME TypeOK
  PROVE  \A e : Cardinality(Places(since, e)) \in Nat
BY PlacesFinite DEF TypeOK

(* All that the steps below need to know of the view model after an entry. *)
LEMMA PushPreserves ==
  ASSUME StatusInv, NEW v \in View, NEW e \in Entry,
         v.log = vm.log, v.tx = vm.tx, v.rx = vm.rx, Writes(v, e)
  PROVE  /\ vm' \in View /\ Len(vm'.log) <= MAX_LOG /\ since' \in Seq(Entry)
         /\ RecentEnd(vm'.log, since')
         /\ vm'.tx = vm.tx /\ vm'.rx = vm.rx
         /\ \A x \in Entry : Cardinality(Places(since', x))
              = Cardinality(Places(since, x)) + (IF e = x THEN 1 ELSE 0)
<1>1. vm' = [v EXCEPT !.log = Pushed(vm.log, e)] /\ since' = Append(since, e)
  BY DEF Writes
<1>2. vm.log \in Seq(Entry) /\ Len(vm.log) <= MAX_LOG /\ since \in Seq(Entry)
  BY DEF StatusInv, TypeOK
<1>3. Pushed(vm.log, e) \in Seq(Entry) /\ Len(Pushed(vm.log, e)) <= MAX_LOG
  <2>1. MAX_LOG \in Nat /\ Len(vm.log) \in Nat
    BY <1>2, LenProperties, StatusAssumption
  <2> QED
    BY <1>2, <2>1, PushedLog
<1>4. RecentEnd(Pushed(vm.log, e), Append(since, e))
  BY <1>2, PushKeepsRecentEnd DEF StatusInv
<1>5. Append(since, e) \in Seq(Entry)
  BY <1>2, AppendProperties
<1>6. \A x \in Entry : Cardinality(Places(Append(since, e), x))
        = Cardinality(Places(since, x)) + (IF e = x THEN 1 ELSE 0)
  BY <1>2, PlacesAppended
<1>7. vm' \in View /\ vm'.log = Pushed(vm.log, e) /\ vm'.tx = vm.tx /\ vm'.rx = vm.rx
  BY <1>1, <1>3 DEF View
<1>8. since' = Append(since, e)
  BY <1>1
<1> QED
  BY <1>3, <1>4, <1>5, <1>6, <1>7, <1>8

LEMMA Kinds ==
  /\ TxEntry \in Entry /\ RxEntry \in Entry /\ EchoEntry \in Entry
  /\ TxEntry # RxEntry /\ EchoEntry # TxEntry /\ EchoEntry # RxEntry
  /\ \A dir \in {"Fwd", "System", "Error"} :
       LET e == [dir |-> dir, own |-> FALSE]
       IN e \in Entry /\ e # TxEntry /\ e # RxEntry
<1>1. TxEntry \in Entry /\ RxEntry \in Entry /\ EchoEntry \in Entry
  BY DEF TxEntry, RxEntry, EchoEntry, Entry
<1>2. TxEntry.dir = "Tx" /\ RxEntry.dir = "Rx" /\ EchoEntry.dir = "Rx"
  BY DEF TxEntry, RxEntry, EchoEntry
<1>3. EchoEntry.own /\ ~RxEntry.own
  BY DEF RxEntry, EchoEntry
<1>4. EchoEntry # RxEntry
  BY <1>3
<1>5. ASSUME NEW dir \in {"Fwd", "System", "Error"}
      PROVE  LET e == [dir |-> dir, own |-> FALSE]
             IN e \in Entry /\ e.dir # "Tx" /\ e.dir # "Rx"
  BY DEF Entry
<1> QED
  BY <1>1, <1>2, <1>4, <1>5

LEMMA StatusInit == Init => StatusInv
<1> SUFFICES ASSUME Init PROVE StatusInv
  OBVIOUS
<1>1. <<>> \in Seq(Entry) /\ <<>> \in Seq(Command) /\ Len(<<>>) = 0
  BY EmptySeq
<1>2. vm.log = <<>> /\ vm.tx = 0 /\ vm.rx = 0 /\ since = <<>> /\ count.reports = 0
  BY DEF Init
<1>3. TypeOK
  <2>1. vm \in View
    BY <1>1, StatusAssumption DEF Init, Mode, View
  <2>2. /\ window \in [half : BOOLEAN, tx : 0 .. MaxReports, per : Nat \cup {None}]
        /\ count \in [sent : 0 .. MaxCommands, reports : 0 .. MaxReports]
    BY StatusAssumption DEF Init
  <2>3. Len(vm.log) <= MAX_LOG
    BY <1>1, <1>2, StatusAssumption
  <2> QED
    BY <1>1, <2>1, <2>2, <2>3, StatusAssumption DEF Init, TypeOK, View, Stage
<1>4. RecentEnd(vm.log, since)
  BY <1>1, <1>2, StatusAssumption DEF RecentEnd, Lower
<1>5. CountedBy(vm, since, pc)
  <2>1. pc = "drain"
    BY DEF Init
  <2>2. \A e : Cardinality(Places(since, e)) = 0
    BY <1>2, NoPlaces
  <2> QED
    BY <1>2, <2>1, <2>2 DEF CountedBy
<1> QED
  BY <1>2, <1>3, <1>4, <1>5 DEF StatusInv, Reported, PerBounded, Init

(* Steps of users and of the window. *)
LEMMA ReaderStep ==
  ASSUME StatusInv, Send \/ ReadTx \/ ReadRx
  PROVE  StatusInv'
<1>1. CASE Send
  <2>1. PICK c \in Command : cmds' = Append(cmds, c)
    BY <1>1 DEF Send
  <2>2. cmds' \in Seq(Command)
    BY <2>1, AppendProperties DEF StatusInv, TypeOK, View
  <2>3. /\ count' \in [sent : 0 .. MaxCommands, reports : 0 .. MaxReports]
        /\ count'.reports = count.reports
    <3>1. count' = [count EXCEPT !.sent = @ + 1] /\ count.sent < MaxCommands
      BY <1>1 DEF Send
    <3>2. count.sent + 1 \in 0 .. MaxCommands
      BY <3>1, VmFields DEF StatusInv
    <3> QED
      BY <3>1, <3>2 DEF StatusInv, TypeOK, View
  <2> QED
    BY <1>1, <2>2, <2>3 DEF Send, StatusInv, TypeOK, View, Reported, PerBounded
<1>2. CASE ReadTx
  <2>1. /\ window' \in [half : BOOLEAN, tx : 0 .. MaxReports, per : Nat \cup {None}]
        /\ window'.per = window.per
    BY <1>2 DEF ReadTx, StatusInv, TypeOK
  <2> QED
    BY <1>2, <2>1 DEF ReadTx, StatusInv, TypeOK, View, Reported, PerBounded
<1>3. CASE ReadRx
  <2>1. vm.rx \in Nat /\ window.tx \in Nat
    BY StatusAssumption DEF StatusInv, TypeOK, View
  <2>2. window.tx > 0 => Percent(window.tx, vm.rx) \in 0 .. 100
    BY <2>1, PercentIsSmall
  <2>3. window' = [half |-> FALSE, tx |-> 0,
                   per |-> IF window.tx > 0 THEN Percent(window.tx, vm.rx) ELSE None]
    BY <1>3 DEF ReadRx
  <2>4. /\ window' \in [half : BOOLEAN, tx : 0 .. MaxReports, per : Nat \cup {None}]
        /\ window'.per # None => window'.per <= 100
    BY <2>2, <2>3, StatusAssumption
  <2> QED
    BY <1>3, <2>4 DEF ReadRx, StatusInv, TypeOK, View, Reported, PerBounded
<1> QED
  BY <1>1, <1>2, <1>3

(* Applying commands, ResetStats store by store. *)
LEMMA CommandStep ==
  ASSUME StatusInv, ApplyCommand \/ ResetTx \/ ResetRx \/ ResetLog
  PROVE  StatusInv'
<1>1. CASE ApplyCommand
  <2>1. Head(cmds) \in Command /\ Tail(cmds) \in Seq(Command)
    BY <1>1, HeadTailProperties DEF ApplyCommand, StatusInv, TypeOK
  <2>2. Head(cmds) # "SetUhdEnabled" => Head(cmds) \in Mode
    BY <1>1, <2>1 DEF ApplyCommand, Command
  <2>3. /\ vm' \in View
        /\ vm'.tx = vm.tx /\ vm'.rx = vm.rx /\ vm'.log = vm.log
    <3>1. vm \in View
      BY VmFields DEF StatusInv
    <3>2. CASE Head(cmds) = "SetUhdEnabled"
      <4>1. vm' = [vm EXCEPT !.rebuildDriver = TRUE]
        BY <1>1, <3>2 DEF ApplyCommand
      <4> QED
        BY <3>1, <4>1 DEF View
    <3>3. CASE Head(cmds) # "SetUhdEnabled"
      <4>1. vm' = [vm EXCEPT !.mode = Head(cmds), !.rebuildNodes = TRUE]
        BY <1>1, <3>3 DEF ApplyCommand
      <4> QED
        BY <2>2, <3>1, <3>3, <4>1 DEF View
    <3> QED
      BY <3>2, <3>3
  <2> QED
    BY <1>1, <2>1, <2>3 DEF ApplyCommand, StatusInv, TypeOK, View, Reported, CountedBy, PerBounded
<1>2. CASE ResetTx
  <2>1. Tail(cmds) \in Seq(Command)
    BY <1>2, HeadTailProperties DEF ResetTx, StatusInv, TypeOK
  <2>2. /\ vm' \in View
        /\ vm'.tx = 0 /\ vm'.rx = vm.rx /\ vm'.log = vm.log
    <3>1. vm' = [vm EXCEPT !.tx = 0]
      BY <1>2 DEF ResetTx
    <3> QED
      BY <3>1, VmFields DEF StatusInv, View
  <2>3. Reported(vm', count'.reports)
    BY <1>2, <2>2, VmFields DEF ResetTx, StatusInv, Reported
  <2> QED
    BY <1>2, <2>1, <2>2, <2>3 DEF ResetTx, StatusInv, TypeOK, View, Stage, CountedBy, PerBounded
<1>3. CASE ResetRx
  <2>1. /\ vm' \in View
        /\ vm'.tx = vm.tx /\ vm'.rx = 0 /\ vm'.log = vm.log
    <3>1. vm' = [vm EXCEPT !.rx = 0]
      BY <1>3 DEF ResetRx
    <3> QED
      BY <3>1, VmFields DEF StatusInv, View
  <2>2. Reported(vm', count'.reports)
    BY <1>3, <2>1, VmFields DEF ResetRx, StatusInv, Reported
  <2> QED
    BY <1>3, <2>1, <2>2 DEF ResetRx, StatusInv, TypeOK, View, Stage, CountedBy, PerBounded
<1>4. CASE ResetLog
  <2>1. <<>> \in Seq(Entry) /\ Len(<<>>) = 0
    BY EmptySeq
  <2>2. /\ vm' \in View
        /\ vm'.tx = vm.tx /\ vm'.rx = vm.rx /\ vm'.log = <<>>
    <3>1. vm \in View /\ vm' = [vm EXCEPT !.log = <<>>]
      BY <1>4, VmFields DEF ResetLog, StatusInv
    <3> QED
      BY <2>1, <3>1 DEF View
  <2>3. since' = <<>> /\ RecentEnd(vm'.log, since') /\ Len(vm'.log) <= MAX_LOG
    BY <1>4, <2>1, <2>2, StatusAssumption DEF ResetLog, RecentEnd, Lower
  <2>4. CountedBy(vm', since', pc')
    <3>1. \A e : Cardinality(Places(since', e)) = 0
      BY <2>3, NoPlaces
    <3>2. pc = "resetLog" /\ pc' = "drain"
      BY <1>4 DEF ResetLog
    <3>3. vm'.tx = 0 /\ vm'.rx = 0
      BY <2>2, <3>2 DEF StatusInv, CountedBy
    <3> QED
      BY <3>1, <3>2, <3>3 DEF CountedBy
  <2> QED
    BY <1>4, <2>1, <2>2, <2>3, <2>4 DEF ResetLog, StatusInv, TypeOK, View, Stage, Reported, PerBounded
<1> QED
  BY <1>1, <1>2, <1>3, <1>4

(* Steps that neither count nor log. *)
LEMMA QuietStep ==
  ASSUME StatusInv,
         BeginTick \/ RebuildDriver \/ Beacon \/ EndSend \/ KeepSilent \/ EndTick
  PROVE  StatusInv'
<1>1. /\ vm' \in View
      /\ vm'.tx = vm.tx /\ vm'.rx = vm.rx /\ vm'.log = vm.log
  BY DEF BeginTick, RebuildDriver, Beacon, Listed, EndSend, KeepSilent, EndTick, StatusInv, TypeOK, View
<1>2. beaconIn' \in Nat
  BY StatusAssumption DEF BeginTick, RebuildDriver, Beacon, EndSend, KeepSilent, EndTick, StatusInv, TypeOK, View
<1>3. /\ pc \notin {"resetRx", "resetLog", "logTx", "logRx"}
      /\ pc' \in Stage \ {"resetRx", "resetLog", "logTx", "logRx"}
  BY DEF BeginTick, RebuildDriver, Beacon, EndSend, KeepSilent, EndTick, Stage
<1>4. UNCHANGED <<cmds, table, window, count, since>>
  BY DEF BeginTick, RebuildDriver, Beacon, EndSend, KeepSilent, EndTick
<1>5. CountedBy(vm', since', pc')
  BY <1>1, <1>3, <1>4 DEF StatusInv, CountedBy
<1>6. TypeOK'
  BY <1>1, <1>2, <1>3, <1>4 DEF StatusInv, TypeOK, View
<1> QED
  BY <1>1, <1>4, <1>5, <1>6 DEF StatusInv, Reported, PerBounded

(* A counter goes up, its entry is due. *)
LEMMA CountStep ==
  ASSUME StatusInv, CountTx \/ CountRx
  PROVE  StatusInv'
<1>1. /\ count' \in [sent : 0 .. MaxCommands, reports : 0 .. MaxReports]
      /\ count'.reports = count.reports + 1 /\ count.reports < MaxReports
  BY StatusAssumption DEF CountTx, CountRx, Report, StatusInv, TypeOK
<1>2. /\ vm.tx \in Nat /\ vm.rx \in Nat /\ count.reports \in Nat /\ MaxReports \in Nat
      /\ vm.tx <= count.reports /\ vm.rx <= count.reports
  BY VmFields DEF StatusInv, Reported
<1>3. /\ vm' \in View /\ vm'.log = vm.log
      /\ \/ pc' = "logTx" /\ vm'.tx = vm.tx + 1 /\ vm'.rx = vm.rx
         \/ pc' = "logRx" /\ vm'.tx = vm.tx /\ vm'.rx = vm.rx + 1
  <2>1. vm.tx + 1 \in 0 .. MaxReports /\ vm.rx + 1 \in 0 .. MaxReports /\ vm \in View
    BY <1>1, <1>2, VmFields DEF StatusInv
  <2>2. CASE CountTx
    <3>1. vm' = [vm EXCEPT !.tx = @ + 1] /\ pc' = "logTx"
      BY <2>2 DEF CountTx
    <3> QED
      BY <2>1, <3>1 DEF View
  <2>3. CASE CountRx
    <3>1. vm' = [vm EXCEPT !.rx = @ + 1] /\ pc' = "logRx"
      BY <2>3 DEF CountRx
    <3> QED
      BY <2>1, <3>1 DEF View
  <2> QED
    BY <2>2, <2>3
<1>4. table' \in SUBSET Node
  BY DEF CountTx, CountRx, StatusInv, TypeOK
<1>5. /\ pc \notin {"resetRx", "resetLog", "logTx", "logRx"} /\ pc' \in Stage
  BY DEF CountTx, CountRx, Stage
<1>6. UNCHANGED <<cmds, beaconIn, window, since>>
  BY DEF CountTx, CountRx
<1>7. CountedBy(vm', since', pc')
  <2>1. \A x : Cardinality(Places(since, x)) \in Nat
    BY WrittenFinite DEF StatusInv
  <2>2. /\ vm.tx = Cardinality(Places(since, TxEntry))
        /\ vm.rx = Cardinality(Places(since, RxEntry))
    BY <1>5, <2>1 DEF StatusInv, CountedBy
  <2> QED
    BY <1>2, <1>3, <1>5, <1>6, <2>2 DEF CountedBy
<1>8. TypeOK'
  BY <1>1, <1>3, <1>4, <1>5, <1>6 DEF StatusInv, TypeOK, View
<1> QED
  BY <1>1, <1>2, <1>3, <1>6, <1>7, <1>8 DEF StatusInv, Reported, PerBounded

(* An entry is written: the one that is due, or one that nobody counts. *)
LEMMA LogStep ==
  ASSUME StatusInv, RebuildNode \/ LogTx \/ LogRx \/ LogEcho \/ LogError \/ LogRelay
  PROVE  StatusInv'
<1>1. \E v \in View, e \in Entry :
        /\ v.log = vm.log /\ v.tx = vm.tx /\ v.rx = vm.rx /\ Writes(v, e)
        /\ e = TxEntry <=> pc = "logTx"
        /\ e = RxEntry <=> pc = "logRx"
  <2>1. vm \in View
    BY VmFields DEF StatusInv
  <2>2. CASE RebuildNode
    <3> DEFINE v == [vm EXCEPT !.rebuildNodes = FALSE]
               e == [dir |-> "System", own |-> FALSE]
    <3>1. v \in View /\ v.log = vm.log /\ v.tx = vm.tx /\ v.rx = vm.rx
      BY <2>1 DEF View
    <3>2. Writes(v, e) /\ pc # "logTx" /\ pc # "logRx"
      BY <2>2 DEF RebuildNode, PushLog, Writes
    <3>3. e \in Entry /\ e # TxEntry /\ e # RxEntry
      BY Kinds
    <3> HIDE DEF v, e
    <3> QED
      BY <3>1, <3>2, <3>3
  <2>3. CASE LogTx
    <3>1. Writes(vm, TxEntry) /\ pc = "logTx" /\ pc # "logRx"
      BY <2>3 DEF LogTx, PushLog, Writes, TxEntry
    <3> QED
      BY <2>1, <3>1, Kinds
  <2>4. CASE LogRx
    <3>1. Writes(vm, RxEntry) /\ pc = "logRx" /\ pc # "logTx"
      BY <2>4 DEF LogRx, PushLog, Writes, RxEntry
    <3> QED
      BY <2>1, <3>1, Kinds
  <2>5. CASE LogEcho
    <3>1. Writes(vm, EchoEntry) /\ pc # "logTx" /\ pc # "logRx"
      BY <2>5 DEF LogEcho, PushLog, Writes, EchoNoted, EchoEntry
    <3> QED
      BY <2>1, <3>1, Kinds
  <2>6. CASE LogError
    <3>1. Writes(vm, [dir |-> "Error", own |-> FALSE]) /\ pc # "logTx" /\ pc # "logRx"
      BY <2>6 DEF LogError, PushLog, Writes
    <3> QED
      BY <2>1, <3>1, Kinds
  <2>7. CASE LogRelay
    <3>1. Writes(vm, [dir |-> "Fwd", own |-> FALSE]) /\ pc # "logTx" /\ pc # "logRx"
      BY <2>7 DEF LogRelay, PushLog, Writes
    <3> QED
      BY <2>1, <3>1, Kinds
  <2> QED
    BY <2>2, <2>3, <2>4, <2>5, <2>6, <2>7
<1>2. PICK v \in View, e \in Entry :
        /\ v.log = vm.log /\ v.tx = vm.tx /\ v.rx = vm.rx /\ Writes(v, e)
        /\ e = TxEntry <=> pc = "logTx"
        /\ e = RxEntry <=> pc = "logRx"
  BY <1>1
<1>3. /\ vm' \in View /\ Len(vm'.log) <= MAX_LOG /\ since' \in Seq(Entry)
      /\ RecentEnd(vm'.log, since') /\ vm'.tx = vm.tx /\ vm'.rx = vm.rx
      /\ \A x \in Entry : Cardinality(Places(since', x))
           = Cardinality(Places(since, x)) + (IF e = x THEN 1 ELSE 0)
  BY <1>2, PushPreserves
<1>4. /\ count' \in [sent : 0 .. MaxCommands, reports : 0 .. MaxReports]
      /\ count'.reports >= count.reports
  <2>1. CASE Report
    <3>1. count' = [count EXCEPT !.reports = @ + 1] /\ count.reports < MaxReports
      BY <2>1 DEF Report
    <3>2. count.reports + 1 \in 0 .. MaxReports
      BY <3>1, VmFields DEF StatusInv
    <3>3. count \in [sent : 0 .. MaxCommands, reports : 0 .. MaxReports] /\ count.reports \in Nat
      BY VmFields DEF StatusInv, TypeOK
    <3>4. count'.reports = count.reports + 1
      BY <3>1, <3>3
    <3> QED
      BY <3>1, <3>2, <3>3, <3>4
  <2>2. CASE UNCHANGED count
    <3>1. count' = count /\ count.reports \in Nat
      BY <2>2, VmFields DEF StatusInv
    <3> QED
      BY <3>1 DEF StatusInv, TypeOK
  <2> QED
    BY <2>1, <2>2 DEF RebuildNode, LogTx, LogRx, LogEcho, LogError, LogRelay
<1>5. /\ pc \notin {"resetRx", "resetLog"}
      /\ pc' \in Stage \ {"resetRx", "resetLog", "logTx", "logRx"}
  BY DEF RebuildNode, LogTx, LogRx, LogEcho, LogError, LogRelay, StatusInv, TypeOK, View, Stage
<1>6. table' \in SUBSET Node /\ UNCHANGED <<cmds, beaconIn, window>>
  BY DEF RebuildNode, LogTx, LogRx, LogEcho, LogError, LogRelay, StatusInv, TypeOK
<1>7. CountedBy(vm', since', pc')
  <2>1. \A x : Cardinality(Places(since, x)) \in Nat
    BY WrittenFinite DEF StatusInv
  <2>2. /\ vm.tx = Cardinality(Places(since, TxEntry)) + (IF pc = "logTx" THEN 1 ELSE 0)
        /\ vm.rx = Cardinality(Places(since, RxEntry)) + (IF pc = "logRx" THEN 1 ELSE 0)
    BY <1>5 DEF StatusInv, CountedBy
  <2>3. TxEntry \in Entry /\ RxEntry \in Entry
    BY Kinds
  <2>4. /\ vm'.tx = Cardinality(Places(since', TxEntry))
        /\ vm'.rx = Cardinality(Places(since', RxEntry))
    BY <1>2, <1>3, <2>2, <2>3
  <2>5. Cardinality(Places(since', TxEntry)) \in Nat /\ Cardinality(Places(since', RxEntry)) \in Nat
    BY <1>3, PlacesFinite
  <2> QED
    BY <1>5, <2>4, <2>5 DEF CountedBy
<1>8. TypeOK'
  BY <1>3, <1>4, <1>5, <1>6 DEF StatusInv, TypeOK, View
<1>9. Reported(vm', count'.reports)
  BY <1>3, <1>4, VmFields DEF StatusInv, Reported
<1> QED
  BY <1>3, <1>6, <1>7, <1>8, <1>9 DEF StatusInv, PerBounded

LEMMA StatusStep ==
  ASSUME StatusInv, [Next]_vars
  PROVE  StatusInv'
<1>1. CASE UNCHANGED vars
  BY <1>1 DEF vars, StatusInv, TypeOK, View, Reported, PerBounded
<1> QED
  BY <1>1, ReaderStep, CommandStep, QuietStep, CountStep, LogStep DEF Next, Frame, Loop

LEMMA StatusInvariant == Spec => []StatusInv
BY StatusInit, StatusStep, PTL DEF Spec

-----------------------------------------------------------------------------
(***************************************************************************)
(* Types: in particular the log never outgrows MAX_LOG and the counters    *)
(* never outgrow what was reported.                                        *)
(***************************************************************************)
THEOREM StatusTyping == Spec => []TypeOK
<1>1. StatusInv => TypeOK
  BY DEF StatusInv
<1> QED
  BY <1>1, StatusInvariant, PTL

(***************************************************************************)
(* The log is the end of what happened since the statistics were reset, at *)
(* any length of log.                                                      *)
(***************************************************************************)
THEOREM LogKeepsTheLatest == Spec => []LogIsRecentHistory
<1>1. StatusInv => LogIsRecentHistory
  BY DEF StatusInv, RecentEnd, LogIsRecentHistory
<1> QED
  BY <1>1, StatusInvariant, PTL

(***************************************************************************)
(* Between reports and resets the counters count what was logged, for any  *)
(* number of reports, echoes and resets.                                   *)
(***************************************************************************)
THEOREM CountersAreExact == Spec => []CountersMatchLog
<1>1. ASSUME StatusInv
      PROVE  CountersMatchLog
  <2>1. since \in Seq(Entry)
    BY <1>1 DEF StatusInv, TypeOK
  <2>2. DOMAIN since = 1 .. Len(since)
    BY <2>1, LenProperties
  <2>3. /\ Written("Tx", FALSE) = Cardinality(Places(since, TxEntry))
        /\ Written("Rx", FALSE) = Cardinality(Places(since, RxEntry))
    BY <2>2 DEF Written, Places, TxEntry, RxEntry
  <2>4. /\ Cardinality(Places(since, TxEntry)) \in Nat
        /\ Cardinality(Places(since, RxEntry)) \in Nat
    BY <2>1, PlacesFinite
  <2>5. pc \notin {"resetRx", "resetLog", "logTx", "logRx"} =>
          /\ vm.tx = Cardinality(Places(since, TxEntry))
          /\ vm.rx = Cardinality(Places(since, RxEntry))
    BY <1>1, <2>4 DEF StatusInv, CountedBy
  <2> QED
    BY <2>3, <2>5 DEF CountersMatchLog
<1> QED
  BY <1>1, StatusInvariant, PTL

(***************************************************************************)
(* The rate on display is a percentage, whatever falls between the two     *)
(* reads of the window.                                                    *)
(***************************************************************************)
THEOREM RateIsPercentage == Spec => []PerIsPercentage
<1>1. StatusInv => PerIsPercentage
  BY DEF StatusInv, PerBounded, PerIsPercentage
<1> QED
  BY <1>1, StatusInvariant, PTL
=============================================================================
