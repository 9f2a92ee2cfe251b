------------------------------- MODULE Status -------------------------------
(***************************************************************************)
(* What the radio loop reports about itself: tx_count, rx_count, the log   *)
(* and the list of neighbours in the ViewModel, written by radio.rs and    *)
(* Command::ResetStats, read by a window on another thread.                *)
(*                                                                         *)
(* Counter and log are two stores, ResetStats is three; a window reads one *)
(* counter after the other. The node's own neighbour table belongs to the  *)
(* loop; the list in the ViewModel is a copy made when the beacon is due.  *)
(***************************************************************************)
EXTENDS Naturals, Sequences, FiniteSets

CONSTANTS
  Node,          \* other stations
  MAX_LOG,       \* entries the log keeps
  START_BEACON,  \* ticks to the first beacon after a driver rebuild
  BEACON_INTERVAL,
  None,          \* no percentage on display
  MaxCommands,   \* bound: commands sent in a behaviour
  MaxReports     \* bound: messages sent or heard in a behaviour

ASSUME StatusAssumption ==
  /\ MAX_LOG \in Nat \ {0} /\ START_BEACON \in Nat /\ BEACON_INTERVAL \in Nat
  /\ MaxCommands \in Nat /\ MaxReports \in Nat

VARIABLES
  cmds,       \* the command channel
  vm,         \* mode, rebuild_nodes, rebuild_driver, tx_count, rx_count, log, neighbours
  pc,         \* where the loop is
  table,      \* the NeighbourTable of the current MeshNode
  beaconIn,   \* ticks until next_beacon_at
  window,     \* a frame being drawn: where it is, the tx it read, the PER it shows
  count,      \* bounds: [sent |-> commands, reports |-> messages]
  since       \* history: the entries written since the statistics were reset

vars == <<cmds, vm, pc, table, beaconIn, window, count, since>>

Mode == {"Terminal", "Listen"}
Command == {"ResetStats", "SetUhdEnabled"} \cup Mode

(* own: self_origin, which only an echo of a message of ours has. *)
Entry == [dir : {"Tx", "Rx", "Fwd", "System", "Error"}, own : BOOLEAN]

Stage == {"drain", "resetRx", "resetLog", "rebuild", "beacon", "send", "logTx",
          "decode", "logRx", "relay"}

TypeOK ==
  /\ cmds \in Seq(Command)
  /\ vm \in [mode : Mode, rebuildNodes : BOOLEAN, rebuildDriver : BOOLEAN,
             tx : 0 .. MaxReports, rx : 0 .. MaxReports,
             log : Seq(Entry), neighbours : SUBSET Node]
  /\ Len(vm.log) <= MAX_LOG
  /\ pc \in Stage
  /\ table \in SUBSET Node
  /\ beaconIn \in Nat
  /\ window \in [half : BOOLEAN, tx : 0 .. MaxReports, per : Nat \cup {None}]
  /\ count \in [sent : 0 .. MaxCommands, reports : 0 .. MaxReports]
  /\ since \in Seq(Entry)

Init ==
  /\ cmds = <<>>
  /\ vm = [mode |-> "Listen", rebuildNodes |-> FALSE, rebuildDriver |-> FALSE,
           tx |-> 0, rx |-> 0, log |-> <<>>, neighbours |-> {}]
  /\ pc = "drain"
  /\ table = {}
  /\ beaconIn = START_BEACON
  /\ window = [half |-> FALSE, tx |-> 0, per |-> None]
  /\ count = [sent |-> 0, reports |-> 0]
  /\ since = <<>>

-----------------------------------------------------------------------------
(* The users, and a window that draws the statistics. *)

Send ==
  /\ count.sent < MaxCommands
  /\ count' = [count EXCEPT !.sent = @ + 1]
  /\ \E c \in Command : cmds' = Append(cmds, c)
  /\ UNCHANGED <<vm, pc, table, beaconIn, window, since>>

ReadTx ==
  /\ ~window.half
  /\ window' = [window EXCEPT !.half = TRUE, !.tx = vm.tx]
  /\ UNCHANGED <<cmds, vm, pc, table, beaconIn, count, since>>

Lower(m, n) == IF m < n THEN m ELSE n

(* Mutant: the divisor is read again. *)
PercentOfNow(tx, rx) == IF vm.tx = 0 THEN 101 ELSE ((tx - Lower(rx, tx)) * 100) \div vm.tx

Percent(tx, rx) == ((tx - Lower(rx, tx)) * 100) \div tx

ReadRx ==
  /\ window.half
  /\ window' = [half |-> FALSE, tx |-> 0,
                per |-> IF window.tx > 0 THEN Percent(window.tx, vm.rx) ELSE None]
  /\ UNCHANGED <<cmds, vm, pc, table, beaconIn, count, since>>

-----------------------------------------------------------------------------
(* The drain. ResetStats is applied store by store. *)

ApplyCommand ==
  /\ pc = "drain" /\ cmds # <<>> /\ Head(cmds) # "ResetStats"
  /\ vm' = IF Head(cmds) = "SetUhdEnabled"
             THEN [vm EXCEPT !.rebuildDriver = TRUE]
             ELSE [vm EXCEPT !.mode = Head(cmds), !.rebuildNodes = TRUE]
  /\ cmds' = Tail(cmds)
  /\ UNCHANGED <<pc, table, beaconIn, window, count, since>>

ResetTx ==
  /\ pc = "drain" /\ cmds # <<>> /\ Head(cmds) = "ResetStats"
  /\ vm' = [vm EXCEPT !.tx = 0]
  /\ cmds' = Tail(cmds)
  /\ pc' = "resetRx"
  /\ UNCHANGED <<table, beaconIn, window, count, since>>

ResetRx ==
  /\ pc = "resetRx"
  /\ vm' = [vm EXCEPT !.rx = 0]
  /\ pc' = "resetLog"
  /\ UNCHANGED <<cmds, table, beaconIn, window, count, since>>

ResetLog ==
  /\ pc = "resetLog"
  /\ vm' = [vm EXCEPT !.log = <<>>]
  /\ since' = <<>>
  /\ pc' = "drain"
  /\ UNCHANGED <<cmds, table, beaconIn, window, count>>

-----------------------------------------------------------------------------
(* push_log_full. *)

(* Mutants: a full log takes nothing new; the oldest entry goes an entry late. *)
PushedWhenRoom(log, e) == IF Len(log) < MAX_LOG THEN Append(log, e) ELSE log
PushedThenCut(log, e) == Append(IF Len(log) > MAX_LOG THEN Tail(log) ELSE log, e)

Pushed(log, e) == IF Len(log) < MAX_LOG THEN Append(log, e) ELSE Append(Tail(log), e)

(* v is the ViewModel but for its log. *)
PushLog(v, dir, own) ==
  /\ vm' = [v EXCEPT !.log = Pushed(@, [dir |-> dir, own |-> own])]
  /\ since' = Append(since, [dir |-> dir, own |-> own])

(* The bound on what is sent and heard. *)
Report ==
  /\ count.reports < MaxReports
  /\ count' = [count EXCEPT !.reports = @ + 1]

-----------------------------------------------------------------------------
(* The tick. *)

BeginTick ==
  /\ pc = "drain" /\ cmds = <<>>
  /\ pc' = "rebuild"
  /\ UNCHANGED <<cmds, vm, table, beaconIn, window, count, since>>

RebuildNode ==
  /\ pc = "rebuild" /\ vm.rebuildNodes
  /\ table' = {}
  /\ PushLog([vm EXCEPT !.rebuildNodes = FALSE], "System", FALSE)
  /\ UNCHANGED <<cmds, pc, beaconIn, window, count>>

RebuildDriver ==
  /\ pc = "rebuild" /\ ~vm.rebuildNodes
  /\ vm' = [vm EXCEPT !.rebuildDriver = FALSE]
  /\ beaconIn' = IF vm.rebuildDriver THEN START_BEACON ELSE beaconIn
  /\ pc' = "beacon"
  /\ UNCHANGED <<cmds, table, window, count, since>>

(* Mutant: the list is made for the beacon only. *)
ListedWithBeacon == IF vm.mode = "Terminal" THEN table ELSE vm.neighbours

Listed == table

(* The list is copied with the beacon, also when no beacon may be sent. *)
Beacon ==
  /\ pc = "beacon"
  /\ beaconIn' = IF beaconIn = 0 THEN BEACON_INTERVAL ELSE beaconIn
  /\ vm' = IF beaconIn = 0 THEN [vm EXCEPT !.neighbours = Listed] ELSE vm
  /\ pc' = "send"
  /\ UNCHANGED <<cmds, table, window, count, since>>

(* A text, typed or automatic, that build_text_frame accepts. *)
CountTx ==
  /\ pc = "send" /\ vm.mode = "Terminal" /\ Report
  /\ vm' = [vm EXCEPT !.tx = @ + 1]
  /\ pc' = "logTx"
  /\ UNCHANGED <<cmds, table, beaconIn, window, since>>

LogTx ==
  /\ pc = "logTx"
  /\ PushLog(vm, "Tx", FALSE)
  /\ pc' = "send"
  /\ UNCHANGED <<cmds, table, beaconIn, window, count>>

EndSend ==
  /\ pc = "send"
  /\ pc' = "decode"
  /\ UNCHANGED <<cmds, vm, table, beaconIn, window, count, since>>

(* A message of another station; a NodeInfo puts it in the table. *)
CountRx ==
  /\ pc = "decode" /\ Report
  /\ \E heard \in {{}} \cup {{n} : n \in Node} : table' = table \cup heard
  /\ vm' = [vm EXCEPT !.rx = @ + 1]
  /\ pc' = "logRx"
  /\ UNCHANGED <<cmds, beaconIn, window, since>>

LogRx ==
  /\ pc = "logRx"
  /\ PushLog(vm, "Rx", FALSE)
  /\ pc' \in {"decode", "relay"}
  /\ UNCHANGED <<cmds, table, beaconIn, window, count>>

(* Mutant: an echo counts as received. *)
EchoCounted(v) == [v EXCEPT !.rx = @ + 1]

EchoNoted(v) == v

(* The simulated channel plays our own message back: logged, not counted. *)
LogEcho ==
  /\ pc = "decode" /\ Report
  /\ PushLog(EchoNoted(vm), "Rx", TRUE)
  /\ UNCHANGED <<cmds, pc, table, beaconIn, window>>

(* process_rx_frame, the CRC or the header fails. *)
LogError ==
  /\ pc = "decode" /\ Report
  /\ PushLog(vm, "Error", FALSE)
  /\ UNCHANGED <<cmds, pc, table, beaconIn, window>>

(* A frame to relay, with a message for us before (pc = "relay") or without. *)
LogRelay ==
  /\ vm.mode = "Terminal"
  /\ \/ pc = "decode" /\ Report
     \/ pc = "relay" /\ UNCHANGED count
  /\ PushLog(vm, "Fwd", FALSE)
  /\ pc' = "decode"
  /\ UNCHANGED <<cmds, table, beaconIn, window>>

KeepSilent ==
  /\ pc = "relay" /\ vm.mode = "Listen"
  /\ pc' = "decode"
  /\ UNCHANGED <<cmds, vm, table, beaconIn, window, count, since>>

EndTick ==
  /\ pc = "decode"
  /\ beaconIn' = IF beaconIn = 0 THEN 0 ELSE beaconIn - 1
  /\ pc' = "drain"
  /\ UNCHANGED <<cmds, vm, table, window, count, since>>

Frame == ReadTx \/ ReadRx

Loop ==
  \/ ApplyCommand \/ ResetTx \/ ResetRx \/ ResetLog
  \/ BeginTick \/ RebuildNode \/ RebuildDriver \/ Beacon
  \/ CountTx \/ LogTx \/ EndSend
  \/ CountRx \/ LogRx \/ LogEcho \/ LogError \/ LogRelay \/ KeepSilent \/ EndTick

Next == Send \/ Frame \/ Loop

(***************************************************************************)
(* The loop's task is resumed for ever; the window owes nothing here.      *)
(***************************************************************************)
Spec == Init /\ [][Next]_vars
FairSpec == Spec /\ WF_vars(Loop)

-----------------------------------------------------------------------------
(* Properties. *)

(***************************************************************************)
(* The log is the end of what happened since the statistics were reset, in *)
(* order: push_log_full drops the oldest entry, never the new one.         *)
(***************************************************************************)
LogIsRecentHistory ==
  LET n == Len(since)
      m == Len(vm.log)
  IN /\ m = Lower(n, MAX_LOG)
     /\ \A k \in 1 .. m : vm.log[k] = since[n - m + k]

Written(dir, own) == Cardinality({k \in DOMAIN since : since[k] = [dir |-> dir, own |-> own]})

(***************************************************************************)
(* Whenever the loop is not between the stores of one report or one reset, *)
(* the counters count what was logged since the reset: own texts sent, and *)
(* messages of other stations, not the echoes of our own.                  *)
(***************************************************************************)
CountersMatchLog ==
  pc \notin {"resetRx", "resetLog", "logTx", "logRx"} =>
    vm.tx = Written("Tx", FALSE) /\ vm.rx = Written("Rx", FALSE)

(***************************************************************************)
(* The packet error rate on display is a percentage, though more may be    *)
(* received than sent and a reset may fall between the window's two reads: *)
(* ui_stats tests and divides by the one value it read.                    *)
(***************************************************************************)
PerIsPercentage == window.per # None => window.per <= 100

(***************************************************************************)
(* A station that stays in the node's table is listed in the end, and one  *)
(* that was forgotten with the node (a rename, a mode change) is not for   *)
(* ever: the list is refreshed in Listen mode too, and driver rebuilds put *)
(* the refresh off but do not stop it.                                     *)
(***************************************************************************)
ListFollowsTable ==
  \A n \in Node :
    /\ <>[](n \in table) => <>[](n \in vm.neighbours)
    /\ <>[](n \notin table) => <>[](n \notin vm.neighbours)
=============================================================================
