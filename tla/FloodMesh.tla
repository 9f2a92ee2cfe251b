----------------------------- MODULE FloodMesh ------------------------------
(***************************************************************************)
(* Stations that flood packets to each other over a shared medium.         *)
(*                                                                         *)
(* A station handles one received frame at a time, to the end: the radio   *)
(* loop calls process_rx_frame and pushes the relay before it looks at the *)
(* next frame. Between the stations nothing is synchronised: a frame on    *)
(* the air reaches each station in range at any later time, in any order,  *)
(* or never.                                                               *)
(***************************************************************************)
EXTENDS MeshNode

CONSTANTS
  Link,          \* <<s, t>>: t hears s; <<s, s>>: s hears itself
  TextDest,      \* the destinations users pick for their texts
  StrayFrames,   \* the frames other programs may send
  MaxPackets,    \* bound: packets and stray frames originated in a behaviour
  Lossy,         \* may the medium lose a frame?
  Rebuilds       \* may the user change a station's name or mode?

ASSUME LinkAssumption == Link \subseteq Station \X Station
ASSUME TextDestAssumption == TextDest \subseteq Destination
ASSUME StrayAssumption ==
  StrayFrames \subseteq {f \in Frame : f.from \notin Station}
ASSUME BoundAssumption == MaxPackets \in Nat
ASSUME SwitchAssumption == Lossy \in BOOLEAN /\ Rebuilds \in BOOLEAN

VARIABLES
  mode,         \* station -> "Terminal" or "Listen"
  dedup,        \* station -> its dedup ring
  neighbours,   \* station -> the senders in its neighbour table
  air,          \* receptions still to come: [at, via, frame]
  inbox,        \* station -> the packets handed to the application, in order
  sent,         \* history: the packets originated so far
  built,        \* history: how many (bounded by MaxPackets)
  heard         \* history: station -> the pairs its router has let through
                \* since the node was built

vars == <<mode, dedup, neighbours, air, inbox, sent, built, heard>>
stationVars == <<dedup, neighbours, inbox, heard>>

Mode == {"Terminal", "Listen"}

Reception == [at : Station, via : Sender, frame : Frame]

TypeOK ==
  /\ mode \in [Station -> Mode]
  /\ dedup \in [Station -> Seq(Pair)]
  /\ neighbours \in [Station -> SUBSET Sender]
  /\ air \in SUBSET Reception
  /\ inbox \in [Station -> Seq(Packet)]
  /\ sent \in SUBSET Packet
  /\ built \in 0 .. MaxPackets
  /\ heard \in [Station -> Seq(Pair)]

InRange(s) == {t \in Station : <<s, t>> \in Link}

(* Every station in range of s will have the chance to hear the frame. *)
Transmission(s, f) == {[at |-> t, via |-> s, frame |-> OnTheWire(f)] : t \in InRange(s)}

Init ==
  /\ mode \in [Station -> Mode]
  /\ dedup = [s \in Station |-> <<>>]
  /\ neighbours = [s \in Station |-> {}]
  /\ air = {}
  /\ inbox = [s \in Station |-> <<>>]
  /\ sent = {}
  /\ built = 0
  /\ heard = [s \in Station |-> <<>>]

-----------------------------------------------------------------------------
(* Originating packets. The id is random: an id already used may come again. *)

Originate(s, f) ==
  /\ built < MaxPackets
  /\ mode[s] = "Terminal"
  /\ built' = built + 1
  /\ sent' = sent \cup {PacketOf(f)}
  /\ air' = air \cup Transmission(s, f)
  /\ UNCHANGED <<mode, stationVars>>

SendText(s) ==
  \E dest \in TextDest, pid \in PacketId :
    Originate(s, BuildFrame(s, dest, pid, "text"))

SendNodeInfo(s) ==
  \E pid \in PacketId : Originate(s, BuildFrame(s, BROADCAST, pid, "nodeinfo"))

(* Another program's frame, in range of any set of stations. *)
StrayFrame(f) ==
  /\ built < MaxPackets
  /\ built' = built + 1
  /\ sent' = sent \cup {PacketOf(f)}
  /\ \E reached \in (SUBSET Station) \ {{}} :
       air' = air \cup {[at |-> s, via |-> f.from, frame |-> f] : s \in reached}
  /\ UNCHANGED <<mode, stationVars>>

-----------------------------------------------------------------------------
(* Receiving a frame: MeshNode::process_rx_frame and the radio loop's relay. *)

(* Malformed or WrongChannel: the router is not asked. *)
RejectFrame(r) ==
  /\ ~Accepts(r.frame)
  /\ air' = air \ {r}
  /\ UNCHANGED <<mode, stationVars, sent, built>>

DropDuplicate(r) ==
  /\ Accepts(r.frame)
  /\ Seen(dedup[r.at], PairOf(r.frame))
  /\ air' = air \ {r}
  /\ UNCHANGED <<mode, stationVars, sent, built>>

(* The router's first sight of the pair: deliver, relay, both or neither. *)
RouteFrame(r) ==
  LET me == r.at
      f == r.frame
  IN /\ Accepts(f)
     /\ ~Seen(dedup[me], PairOf(f))
     /\ dedup' = [dedup EXCEPT ![me] = Insert(@, PairOf(f))]
     /\ heard' = [heard EXCEPT ![me] = Append(@, PairOf(f))]
     /\ inbox' = [inbox EXCEPT ![me] = IF Delivers(me, f) THEN Append(@, PacketOf(f)) ELSE @]
     /\ neighbours' = [neighbours EXCEPT ![me] = UpdateNeighbours(@, me, f)]
     /\ air' = (air \ {r}) \cup
               (IF Relays(me, f) /\ mode[me] = "Terminal"
                  THEN Transmission(me, Relayed(f)) ELSE {})
     /\ UNCHANGED <<mode, sent, built>>

Receive(r) == RejectFrame(r) \/ DropDuplicate(r) \/ RouteFrame(r)

(* A collision, a CRC failure, a fade: the frame never reaches the station. *)
Lose(r) ==
  /\ Lossy
  /\ air' = air \ {r}
  /\ UNCHANGED <<mode, stationVars, sent, built>>

(* A new name or mode replaces the MeshNode, and with it what it remembered. *)
Rebuild(s) ==
  /\ Rebuilds
  /\ \E m \in Mode : mode' = [mode EXCEPT ![s] = m]
  /\ dedup' = [dedup EXCEPT ![s] = <<>>]
  /\ neighbours' = [neighbours EXCEPT ![s] = {}]
  /\ heard' = [heard EXCEPT ![s] = <<>>]
  /\ UNCHANGED <<air, inbox, sent, built>>

Next ==
  \/ \E s \in Station : SendText(s) \/ SendNodeInfo(s) \/ Rebuild(s)
  \/ \E f \in StrayFrames : StrayFrame(f)
  \/ \E r \in air : Receive(r) \/ Lose(r)

(***************************************************************************)
(* The radio loop polls for frames forever, so a frame that has arrived is *)
(* handled; nothing obliges a user to send, to rename, or the air to lose. *)
(***************************************************************************)
Spec == Init /\ [][Next]_vars
FairSpec == Spec /\ WF_vars(\E r \in air : Receive(r))

-----------------------------------------------------------------------------
(* Properties. *)

(***************************************************************************)
(* The ring holds exactly the most recent pairs the router let through, in *)
(* order: what check_and_insert's pop_front and push_back keep true, and   *)
(* the reason the drop of duplicates can be relied on.                     *)
(***************************************************************************)
CacheIsRecentHistory ==
  \A s \in Station :
    LET n == Len(heard[s])
        m == Len(dedup[s])
    IN /\ m = IF n < DEDUP_CAPACITY THEN n ELSE DEDUP_CAPACITY
       /\ \A k \in 1 .. m : dedup[s][k] = heard[s][n - m + k]

(***************************************************************************)
(* A station lets the same packet through again only after more than       *)
(* DEDUP_CAPACITY - 1 other packets: the guarantee route's dedup check     *)
(* gives to delivery and to relaying, whatever the order of arrival.       *)
(***************************************************************************)
DedupWindow ==
  \A s \in Station : \A i, j \in 1 .. Len(heard[s]) :
    i < j /\ heard[s][i] = heard[s][j] => j - i > DEDUP_CAPACITY

(***************************************************************************)
(* A message handed to the application was originated with this sender,    *)
(* destination, id and body, is meant for this station, and decoded. A     *)
(* relay cannot alter it: it re-sends the ciphertext under the same nonce. *)
(***************************************************************************)
Authentic ==
  \A s \in Station : \A k \in 1 .. Len(inbox[s]) :
    LET p == inbox[s][k]
    IN p \in sent /\ p.to \in {s, BROADCAST} /\ p.body # "garbage"

(***************************************************************************)
(* A neighbour in the table is a sender whose node info went through this  *)
(* node's own router, so its beacon's pair is in the router's history.     *)
(***************************************************************************)
NeighboursBeaconed ==
  \A s \in Station : \A n \in neighbours[s] :
    \E p \in sent :
      /\ p.from = n /\ p.body = "nodeinfo" /\ p.to \in {s, BROADCAST}
      /\ \E k \in 1 .. Len(heard[s]) : heard[s][k] = <<n, p.id>>

(* The stations at the end of a walk of at most n links from s. *)
Within(links, s, n) ==
  {t \in Station : \E w \in [0 .. n -> Station] :
     /\ w[0] = s /\ w[n] = t
     /\ \A i \in 0 .. n - 1 : w[i] = w[i + 1] \/ <<w[i], w[i + 1]>> \in links}

(***************************************************************************)
(* The hops a frame has spent (hop_start - hop_limit) are at least the     *)
(* distance from its origin to whoever transmits it now, and only the      *)
(* origin transmits a frame with no hop spent: the origin never relays     *)
(* its own packet, and the hop count shown to the user is an upper bound.  *)
(***************************************************************************)
HopsCoverDistance ==
  \A r \in air :
    LET f == r.frame
        spent == f.hop_start - f.hop_limit
    IN f.from \in Station =>
         /\ f.hop_start = HOP_LIMIT
         /\ f.hop_limit <= f.hop_start
         /\ r.via \in Within(Link, f.from, spent)
         /\ r.via = f.from <=> spent = 0

(* No other packet was sent under the same identity. *)
Alone(p) == \A q \in sent : q.from = p.from /\ q.id = p.id => q = p

RelayLink == {l \in Link : mode[l[1]] = "Terminal"}

(* Every broadcast of a station has reached all who could hear it. *)
AllHeard ==
  \A p \in sent :
    p.from \in Station /\ p.to = BROADCAST /\ Alone(p) =>
      \A t \in Within(RelayLink, p.from, HOP_LIMIT + 1) \ {p.from} :
        \E k \in 1 .. Len(inbox[t]) : inbox[t][k] = p

(***************************************************************************)
(* Where frames reach a station by one path only and none is lost, every   *)
(* broadcast is in the end handed to every station within HOP_LIMIT + 1    *)
(* links of relaying stations. (Not so in general: a copy with few hops    *)
(* left that arrives first suppresses a later one with more.)              *)
(***************************************************************************)
EventuallyHeard == []<>AllHeard

(***************************************************************************)
(* A flood ends: however often stations are renamed and forget what they   *)
(* relayed, and however small the ring, the decremented hop limit empties  *)
(* the air once no new packet is originated.                               *)
(***************************************************************************)
FloodDies == <>[](air = {})

(***************************************************************************)
(* With a ring that holds every packet in flight and nodes that are not    *)
(* rebuilt, the mesh implements at-most-once delivery.                     *)
(***************************************************************************)
Service == INSTANCE MeshService
ImplementsService == Service!Spec

(***************************************************************************)
(* mesh/router.rs:15: a new packet of another station with hops left is    *)
(* sent on, by a station that may transmit.                                *)
(***************************************************************************)
RelaysWhileHopsLast ==
  [][\A r \in air :
       /\ heard'[r.at] = Append(heard[r.at], PairOf(r.frame))
       /\ r \notin air'
       /\ r.frame.hop_limit > 0 /\ r.frame.from # r.at /\ mode[r.at] = "Terminal"
       => Transmission(r.at, Relayed(r.frame)) \subseteq air']_vars
=============================================================================
