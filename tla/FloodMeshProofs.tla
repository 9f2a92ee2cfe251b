-------------------------- MODULE FloodMeshProofs ---------------------------
(***************************************************************************)
(* Theorems about FloodMesh, for every set of stations, every topology and *)
(* every capacity, hop limit and bound: typing, the dedup window, and that *)
(* what the application is handed is what some sender originated.          *)
(***************************************************************************)
EXTENDS FloodMesh, SequenceTheorems, TLAPS

-----------------------------------------------------------------------------
(* What the operators of MeshNode preserve. *)

(* Hop counts fit in the header's three bits: the wire changes no frame. *)
LEMMA WireKeepsFrame ==
  ASSUME NEW f \in Frame
  PROVE  OnTheWire(f) = f
<1>1. f.hop_limit \in 0 .. 7 /\ f.hop_start \in 0 .. 7
  BY DEF Frame
<1>2. f.hop_limit % 8 = f.hop_limit /\ f.hop_start % 8 = f.hop_start
  BY <1>1
<1> QED
  BY <1>2 DEF OnTheWire, Frame

LEMMA BuiltFrame ==
  ASSUME NEW s \in Station, NEW dest \in Destination,
         NEW pid \in PacketId, NEW body \in Body
  PROVE  BuildFrame(s, dest, pid, body) \in Frame
<1>1. s \in Sender
  BY DEF Sender
<1>2. Encrypt(<<s, pid>>, body) \in Payload
  BY <1>1 DEF Encrypt, Payload, Pair
<1> QED
  BY <1>1, <1>2, HopLimitAssumption DEF BuildFrame, Frame

LEMMA PacketOfFrame ==
  ASSUME NEW f \in Frame
  PROVE  PacketOf(f) \in Packet /\ PairOf(f) \in Pair
<1>1. BodyOf(f) \in Body
  BY DEF BodyOf, Decrypt, Frame, Payload, Body
<1> QED
  BY <1>1 DEF PacketOf, PairOf, Packet, Pair, Frame

(* A relay keeps everything but the hop limit. *)
LEMMA RelayedFrame ==
  ASSUME NEW f \in Frame, f.hop_limit > 0
  PROVE  Relayed(f) \in Frame /\ PacketOf(Relayed(f)) = PacketOf(f)
<1>1. f.hop_limit - 1 \in 0 .. 7
  BY DEF Frame
<1>2. Relayed(f) \in Frame
  BY <1>1 DEF Relayed, Frame
<1>3. /\ Relayed(f).from = f.from /\ Relayed(f).to = f.to
      /\ Relayed(f).id = f.id /\ Relayed(f).payload = f.payload
  BY DEF Relayed, Frame
<1> QED
  BY <1>2, <1>3 DEF PacketOf, BodyOf, PairOf

LEMMA TransmissionType ==
  ASSUME NEW s \in Station, NEW f \in Frame
  PROVE  /\ Transmission(s, f) \subseteq Reception
         /\ \A r \in Transmission(s, f) : r.via = s /\ r.frame = f /\ <<s, r.at>> \in Link
<1>1. OnTheWire(f) = f
  BY WireKeepsFrame
<1>2. ASSUME NEW r \in Transmission(s, f)
      PROVE  r \in Reception /\ r.via = s /\ r.frame = f /\ <<s, r.at>> \in Link
  <2>1. PICK t \in InRange(s) : r = [at |-> t, via |-> s, frame |-> f]
    BY <1>1, <1>2 DEF Transmission
  <2>2. t \in Station /\ <<s, t>> \in Link
    BY DEF InRange
  <2> QED
    BY <2>1, <2>2 DEF Reception, Sender
<1> QED
  BY <1>2

(* A ring no longer than its capacity stays so, and keeps its order. *)
LEMMA InsertedRing ==
  ASSUME NEW ring \in Seq(Pair), NEW pair \in Pair, Len(ring) <= DEDUP_CAPACITY
  PROVE  LET new == Insert(ring, pair)
             full == Len(ring) = DEDUP_CAPACITY
         IN /\ new \in Seq(Pair)
            /\ Len(new) = IF full THEN DEDUP_CAPACITY ELSE Len(ring) + 1
            /\ new[Len(new)] = pair
            /\ \A k \in 1 .. Len(new) - 1 : new[k] = ring[IF full THEN k + 1 ELSE k]
<1>1. CASE Len(ring) = DEDUP_CAPACITY
  <2>1. ring # <<>> /\ Len(ring) \in Nat \ {0}
    BY <1>1, CapacityAssumption, EmptySeq
  <2>2. /\ Tail(ring) \in Seq(Pair)
        /\ Len(Tail(ring)) = Len(ring) - 1
        /\ \A k \in 1 .. Len(Tail(ring)) : Tail(ring)[k] = ring[k + 1]
    BY <2>1, HeadTailProperties
  <2>3. Insert(ring, pair) = Append(Tail(ring), pair)
    BY <1>1 DEF Insert
  <2>4. /\ Append(Tail(ring), pair) \in Seq(Pair)
        /\ Len(Append(Tail(ring), pair)) = Len(ring)
        /\ Append(Tail(ring), pair)[Len(ring)] = pair
        /\ \A k \in 1 .. Len(ring) - 1 : Append(Tail(ring), pair)[k] = Tail(ring)[k]
    BY <2>1, <2>2, AppendProperties
  <2> QED
    BY <1>1, <2>1, <2>2, <2>3, <2>4
<1>2. CASE Len(ring) # DEDUP_CAPACITY
  <2>1. Insert(ring, pair) = Append(ring, pair)
    BY <1>2 DEF Insert
  <2>2. Len(ring) \in Nat
    BY LenProperties
  <2>3. /\ Append(ring, pair) \in Seq(Pair)
        /\ Len(Append(ring, pair)) = Len(ring) + 1
        /\ Append(ring, pair)[Len(ring) + 1] = pair
        /\ \A k \in 1 .. Len(ring) : Append(ring, pair)[k] = ring[k]
    BY AppendProperties
  <2> QED
    BY <1>2, <2>1, <2>2, <2>3
<1> QED
  BY <1>1, <1>2

-----------------------------------------------------------------------------
(* Typing. *)

LEMMA OriginatePreservesType ==
  ASSUME NEW s \in Station, NEW f \in Frame, TypeOK, Originate(s, f)
  PROVE  TypeOK'
<1>1. PacketOf(f) \in Packet /\ Transmission(s, f) \subseteq Reception
  BY PacketOfFrame, TransmissionType
<1>2. built' \in 0 .. MaxPackets
  BY BoundAssumption DEF Originate, TypeOK
<1> QED
  BY <1>1, <1>2 DEF Originate, TypeOK, stationVars

LEMMA RoutePreservesType ==
  ASSUME NEW r \in air, TypeOK, \A s \in Station : Len(dedup[s]) <= DEDUP_CAPACITY,
         RouteFrame(r)
  PROVE  TypeOK'
<1> DEFINE me == r.at
           f == r.frame
<1>1. me \in Station /\ f \in Frame /\ r.via \in Sender
  BY DEF TypeOK, Reception
<1>2. PacketOf(f) \in Packet /\ PairOf(f) \in Pair
  BY <1>1, PacketOfFrame
<1>3. dedup' \in [Station -> Seq(Pair)]
  <2>1. Insert(dedup[me], PairOf(f)) \in Seq(Pair)
    BY <1>1, <1>2, InsertedRing DEF TypeOK
  <2> QED
    BY <1>1, <2>1 DEF RouteFrame, TypeOK
<1>4. heard' \in [Station -> Seq(Pair)]
  <2>1. Append(heard[me], PairOf(f)) \in Seq(Pair)
    BY <1>1, <1>2, AppendProperties DEF TypeOK
  <2> QED
    BY <1>1, <2>1 DEF RouteFrame, TypeOK
<1>5. inbox' \in [Station -> Seq(Packet)]
  <2>1. Append(inbox[me], PacketOf(f)) \in Seq(Packet)
    BY <1>1, <1>2, AppendProperties DEF TypeOK
  <2> QED
    BY <1>1, <2>1 DEF RouteFrame, TypeOK
<1>6. neighbours' \in [Station -> SUBSET Sender]
  <2>1. UpdateNeighbours(neighbours[me], me, f) \in SUBSET Sender
    BY <1>1 DEF UpdateNeighbours, TypeOK, Frame
  <2> QED
    BY <1>1, <2>1 DEF RouteFrame, TypeOK
<1>7. air' \in SUBSET Reception
  <2>1. CASE Relays(me, f) /\ mode[me] = "Terminal"
    <3>1. Relayed(f) \in Frame
      BY <1>1, <2>1, RelayedFrame DEF Relays
    <3>2. Transmission(me, Relayed(f)) \subseteq Reception
      BY <1>1, <3>1, TransmissionType
    <3> QED
      BY <2>1, <3>2 DEF RouteFrame, TypeOK
  <2>2. CASE ~(Relays(me, f) /\ mode[me] = "Terminal")
    BY <2>2 DEF RouteFrame, TypeOK
  <2> QED
    BY <2>1, <2>2
<1> QED
  BY <1>3, <1>4, <1>5, <1>6, <1>7 DEF RouteFrame, TypeOK

(* The ring never outgrows its capacity, which Insert's typing rests on. *)
RingFits == \A s \in Station : Len(dedup[s]) <= DEDUP_CAPACITY

LEMMA TypeInit == Init => TypeOK /\ RingFits
<1> SUFFICES ASSUME Init PROVE TypeOK /\ RingFits
  OBVIOUS
<1>1. <<>> \in Seq(Pair) /\ <<>> \in Seq(Packet) /\ Len(<<>>) = 0
  BY EmptySeq
<1>2. RingFits
  <2>1. \A s \in Station : dedup[s] = <<>>
    BY DEF Init
  <2>2. 0 <= DEDUP_CAPACITY
    BY CapacityAssumption
  <2> QED
    BY <1>1, <2>1, <2>2 DEF RingFits
<1>3. /\ dedup \in [Station -> Seq(Pair)] /\ heard \in [Station -> Seq(Pair)]
      /\ inbox \in [Station -> Seq(Packet)] /\ neighbours \in [Station -> SUBSET Sender]
  BY <1>1 DEF Init
<1>4. built \in 0 .. MaxPackets
  BY BoundAssumption DEF Init
<1> QED
  BY <1>2, <1>3, <1>4 DEF Init, TypeOK

LEMMA TypeStep ==
  ASSUME TypeOK, RingFits, [Next]_vars
  PROVE  TypeOK' /\ RingFits'
<1>1. ASSUME NEW s \in Station, SendText(s)
      PROVE  TypeOK' /\ RingFits'
  <2>1. PICK dest \in TextDest, pid \in PacketId :
          Originate(s, BuildFrame(s, dest, pid, "text"))
    BY <1>1 DEF SendText
  <2>2. BuildFrame(s, dest, pid, "text") \in Frame
    BY BuiltFrame, TextDestAssumption DEF Body
  <2> QED
    BY <2>1, <2>2, OriginatePreservesType DEF RingFits, Originate, stationVars
<1>2. ASSUME NEW s \in Station, SendNodeInfo(s)
      PROVE  TypeOK' /\ RingFits'
  <2>1. PICK pid \in PacketId : Originate(s, BuildFrame(s, BROADCAST, pid, "nodeinfo"))
    BY <1>2 DEF SendNodeInfo
  <2>2. BuildFrame(s, BROADCAST, pid, "nodeinfo") \in Frame
    BY BuiltFrame DEF Body, Destination
  <2> QED
    BY <2>1, <2>2, OriginatePreservesType DEF RingFits, Originate, stationVars
<1>3. ASSUME NEW f \in StrayFrames, StrayFrame(f)
      PROVE  TypeOK' /\ RingFits'
  <2>1. f \in Frame /\ PacketOf(f) \in Packet
    BY StrayAssumption, PacketOfFrame
  <2>2. f.from \in Sender
    BY <2>1 DEF Frame
  <2>3. PICK reached \in SUBSET Station :
          air' = air \cup {[at |-> s, via |-> f.from, frame |-> f] : s \in reached}
    BY <1>3 DEF StrayFrame
  <2>4. air' \in SUBSET Reception
    BY <2>1, <2>2, <2>3 DEF Reception, TypeOK
  <2>5. built' \in 0 .. MaxPackets
    BY <1>3, BoundAssumption DEF StrayFrame, TypeOK
  <2> QED
    BY <1>3, <2>1, <2>4, <2>5 DEF StrayFrame, TypeOK, RingFits, stationVars
<1>4. ASSUME NEW r \in air, RejectFrame(r) \/ DropDuplicate(r) \/ Lose(r)
      PROVE  TypeOK' /\ RingFits'
  BY <1>4 DEF RejectFrame, DropDuplicate, Lose, TypeOK, RingFits, stationVars
<1>5. ASSUME NEW r \in air, RouteFrame(r)
      PROVE  TypeOK' /\ RingFits'
  <2>1. TypeOK'
    BY <1>5, RoutePreservesType DEF RingFits
  <2>2. r.at \in Station /\ PairOf(r.frame) \in Pair /\ dedup[r.at] \in Seq(Pair)
    BY PacketOfFrame DEF TypeOK, Reception
  <2>3. Len(Insert(dedup[r.at], PairOf(r.frame))) <= DEDUP_CAPACITY
    <3>1. Len(dedup[r.at]) <= DEDUP_CAPACITY /\ Len(dedup[r.at]) \in Nat
      BY <2>2, LenProperties DEF RingFits
    <3> QED
      BY <2>2, <3>1, InsertedRing, CapacityAssumption
  <2>4. RingFits'
    BY <1>5, <2>2, <2>3 DEF RouteFrame, RingFits, TypeOK
  <2> QED
    BY <2>1, <2>4
<1>6. ASSUME NEW s \in Station, Rebuild(s)
      PROVE  TypeOK' /\ RingFits'
  <2>1. <<>> \in Seq(Pair) /\ Len(<<>>) = 0
    BY EmptySeq
  <2> QED
    BY <1>6, <2>1, CapacityAssumption DEF Rebuild, TypeOK, RingFits
<1>7. CASE UNCHANGED vars
  BY <1>7 DEF vars, TypeOK, RingFits
<1> QED
  BY <1>1, <1>2, <1>3, <1>4, <1>5, <1>6, <1>7 DEF Next, Receive

(***************************************************************************)
(* Every variable keeps its type, and the ring its bound, in every         *)
(* reachable state: in particular no hop limit ever wraps below zero.      *)
(***************************************************************************)
THEOREM Typing == Spec => [](TypeOK /\ RingFits)
<1>1. Init => TypeOK /\ RingFits
  BY TypeInit
<1>2. TypeOK /\ RingFits /\ [Next]_vars => (TypeOK /\ RingFits)'
  BY TypeStep
<1> QED
  BY <1>1, <1>2, PTL DEF Spec

-----------------------------------------------------------------------------
(* The dedup window. *)

(***************************************************************************)
(* One insertion, on sequences alone: if the ring is the recent end of the *)
(* history and the pair is not in it, the extended ring is the recent end  *)
(* of the extended history, and the last DEDUP_CAPACITY entries before the *)
(* new one differ from it.                                                 *)
(***************************************************************************)
RecentEnd(ring, hist) ==
  /\ Len(ring) = IF Len(hist) < DEDUP_CAPACITY THEN Len(hist) ELSE DEDUP_CAPACITY
  /\ \A k \in 1 .. Len(ring) : ring[k] = hist[Len(hist) - Len(ring) + k]

LEMMA InsertionKeepsRecentEnd ==
  ASSUME NEW ring \in Seq(Pair), NEW hist \in Seq(Pair), NEW pair \in Pair,
         RecentEnd(ring, hist)
  PROVE  RecentEnd(Insert(ring, pair), Append(hist, pair))
<1> DEFINE new == Insert(ring, pair)
           after == Append(hist, pair)
           n == Len(hist)
           m == Len(ring)
<1>1. n \in Nat /\ m \in Nat /\ m <= DEDUP_CAPACITY /\ DEDUP_CAPACITY \in Nat \ {0}
  BY LenProperties, CapacityAssumption DEF RecentEnd
<1>2. /\ Len(after) = n + 1
      /\ after[n + 1] = pair
      /\ \A k \in 1 .. n : after[k] = hist[k]
  BY AppendProperties
<1>3. /\ Len(new) = IF m = DEDUP_CAPACITY THEN DEDUP_CAPACITY ELSE m + 1
      /\ new[Len(new)] = pair
      /\ \A k \in 1 .. Len(new) - 1 : new[k] = ring[IF m = DEDUP_CAPACITY THEN k + 1 ELSE k]
  BY <1>1, InsertedRing
<1> HIDE DEF new, after
<1>4. Len(new) = IF Len(after) < DEDUP_CAPACITY THEN Len(after) ELSE DEDUP_CAPACITY
  BY <1>1, <1>2, <1>3 DEF RecentEnd
<1>5. ASSUME NEW k \in 1 .. Len(new)
      PROVE  new[k] = after[Len(after) - Len(new) + k]
  <2>1. CASE k = Len(new)
    BY <1>1, <1>2, <1>3, <2>1
  <2>2. CASE k # Len(new) /\ m = DEDUP_CAPACITY
    <3>1. k \in 1 .. Len(new) - 1 /\ k + 1 \in 1 .. m /\ Len(new) = m
      BY <1>1, <1>3, <2>2
    <3>2. new[k] = ring[k + 1]
      BY <1>3, <2>2, <3>1
    <3>3. ring[k + 1] = hist[n - m + (k + 1)]
      BY <3>1 DEF RecentEnd
    <3>4. n - m + (k + 1) \in 1 .. n
      BY <1>1, <3>1 DEF RecentEnd
    <3>5. Len(after) - Len(new) + k = n - m + (k + 1)
      BY <1>1, <1>2, <3>1
    <3> QED
      BY <1>2, <3>2, <3>3, <3>4, <3>5
  <2>3. CASE k # Len(new) /\ m # DEDUP_CAPACITY
    <3>1. k \in 1 .. m /\ Len(new) = m + 1 /\ k \in 1 .. Len(new) - 1
      BY <1>1, <1>3, <2>3
    <3>2. new[k] = ring[k] /\ ring[k] = hist[n - m + k]
      BY <1>3, <2>3, <3>1 DEF RecentEnd
    <3>3. n - m + k \in 1 .. n /\ Len(after) - Len(new) + k = n - m + k
      BY <1>1, <1>2, <3>1 DEF RecentEnd
    <3> QED
      BY <1>2, <3>2, <3>3
  <2> QED
    BY <2>1, <2>2, <2>3
<1> QED
  BY <1>4, <1>5 DEF RecentEnd, new, after

(* No repeat within the capacity. *)
WindowClear(hist) ==
  \A i, j \in 1 .. Len(hist) : i < j /\ hist[i] = hist[j] => j - i > DEDUP_CAPACITY

LEMMA InsertionKeepsWindowClear ==
  ASSUME NEW ring \in Seq(Pair), NEW hist \in Seq(Pair), NEW pair \in Pair,
         RecentEnd(ring, hist), WindowClear(hist), ~Seen(ring, pair)
  PROVE  WindowClear(Append(hist, pair))
<1> DEFINE after == Append(hist, pair)
           n == Len(hist)
           m == Len(ring)
<1>1. n \in Nat /\ m \in Nat /\ DEDUP_CAPACITY \in Nat \ {0}
  BY LenProperties, CapacityAssumption
<1>2. /\ Len(after) = n + 1
      /\ after[n + 1] = pair
      /\ \A k \in 1 .. n : after[k] = hist[k]
  BY AppendProperties
<1> HIDE DEF after
<1> SUFFICES ASSUME NEW i \in 1 .. n + 1, NEW j \in 1 .. n + 1, i < j, after[i] = after[j]
             PROVE  j - i > DEDUP_CAPACITY
  BY <1>2 DEF WindowClear, after
<1>3. i \in 1 .. n
  BY <1>1
<1>4. CASE j <= n
  BY <1>1, <1>2, <1>3, <1>4 DEF WindowClear
<1>5. CASE j = n + 1
  <2> SUFFICES ASSUME j - i <= DEDUP_CAPACITY PROVE FALSE
    BY <1>1
  <2>1. i - (n - m) \in 1 .. m
    BY <1>1, <1>3, <1>5 DEF RecentEnd
  <2>2. ring[i - (n - m)] = hist[(n - m) + (i - (n - m))]
    BY <2>1 DEF RecentEnd
  <2>3. (n - m) + (i - (n - m)) = i
    BY <1>1, <1>3
  <2>4. ring[i - (n - m)] = pair
    BY <1>2, <1>3, <1>5, <2>2, <2>3
  <2> QED
    BY <2>1, <2>4 DEF Seen
<1> QED
  BY <1>1, <1>4, <1>5

DedupInv == \A s \in Station : RecentEnd(dedup[s], heard[s]) /\ WindowClear(heard[s])

LEMMA DedupInvImplies == DedupInv => CacheIsRecentHistory /\ DedupWindow
BY DEF DedupInv, RecentEnd, WindowClear, CacheIsRecentHistory, DedupWindow

LEMMA EmptyDedup == RecentEnd(<<>>, <<>>) /\ WindowClear(<<>>)
<1>1. Len(<<>>) = 0
  BY EmptySeq
<1>2. 0 < DEDUP_CAPACITY
  BY CapacityAssumption
<1> QED
  BY <1>1, <1>2 DEF RecentEnd, WindowClear

LEMMA DedupStep ==
  ASSUME TypeOK, DedupInv, [Next]_vars
  PROVE  DedupInv'
<1>1. ASSUME NEW s \in Station, SendText(s) \/ SendNodeInfo(s)
      PROVE  DedupInv'
  BY <1>1 DEF SendText, SendNodeInfo, Originate, stationVars, DedupInv
<1>2. ASSUME NEW f \in StrayFrames, StrayFrame(f)
      PROVE  DedupInv'
  BY <1>2 DEF StrayFrame, stationVars, DedupInv
<1>3. ASSUME NEW r \in air, RejectFrame(r) \/ DropDuplicate(r) \/ Lose(r)
      PROVE  DedupInv'
  BY <1>3 DEF RejectFrame, DropDuplicate, Lose, stationVars, DedupInv
<1>4. ASSUME NEW r \in air, RouteFrame(r)
      PROVE  DedupInv'
  <2> DEFINE me == r.at
             pair == PairOf(r.frame)
  <2>1. /\ me \in Station /\ pair \in Pair
        /\ dedup[me] \in Seq(Pair) /\ heard[me] \in Seq(Pair)
    BY PacketOfFrame DEF TypeOK, Reception
  <2>2. /\ RecentEnd(dedup[me], heard[me]) /\ WindowClear(heard[me])
        /\ ~Seen(dedup[me], pair)
    BY <1>4, <2>1 DEF DedupInv, RouteFrame
  <2>3. /\ RecentEnd(Insert(dedup[me], pair), Append(heard[me], pair))
        /\ WindowClear(Append(heard[me], pair))
    BY <2>1, <2>2, InsertionKeepsRecentEnd, InsertionKeepsWindowClear
  <2>4. ASSUME NEW s \in Station
        PROVE  RecentEnd(dedup'[s], heard'[s]) /\ WindowClear(heard'[s])
    <3>1. CASE s = me
      <4>1. dedup'[s] = Insert(dedup[me], pair) /\ heard'[s] = Append(heard[me], pair)
        BY <1>4, <2>1, <3>1 DEF RouteFrame, TypeOK
      <4> QED
        BY <2>3, <4>1
    <3>2. CASE s # me
      <4>1. dedup'[s] = dedup[s] /\ heard'[s] = heard[s]
        BY <1>4, <2>1, <3>2 DEF RouteFrame, TypeOK
      <4> QED
        BY <4>1 DEF DedupInv
    <3> QED
      BY <3>1, <3>2
  <2> QED
    BY <2>4 DEF DedupInv
<1>5. ASSUME NEW s \in Station, Rebuild(s)
      PROVE  DedupInv'
  <2>1. ASSUME NEW t \in Station
        PROVE  RecentEnd(dedup'[t], heard'[t]) /\ WindowClear(heard'[t])
    <3>1. CASE t = s
      <4>1. dedup'[t] = <<>> /\ heard'[t] = <<>>
        BY <1>5, <3>1 DEF Rebuild, TypeOK
      <4> QED
        BY <4>1, EmptyDedup
    <3>2. CASE t # s
      <4>1. dedup'[t] = dedup[t] /\ heard'[t] = heard[t]
        BY <1>5, <3>2 DEF Rebuild, TypeOK
      <4> QED
        BY <4>1 DEF DedupInv
    <3> QED
      BY <3>1, <3>2
  <2> QED
    BY <2>1 DEF DedupInv
<1>6. CASE UNCHANGED vars
  BY <1>6 DEF vars, DedupInv
<1> QED
  BY <1>1, <1>2, <1>3, <1>4, <1>5, <1>6 DEF Next, Receive

(***************************************************************************)
(* The dedup ring is always the recent end of what the router let through, *)
(* so no packet passes it twice within DEDUP_CAPACITY others: for every    *)
(* capacity, mesh, order of arrival, loss and rebuild.                     *)
(***************************************************************************)
THEOREM RingIsRecentHistory == Spec => [](CacheIsRecentHistory /\ DedupWindow)
<1>1. Init => DedupInv
  BY EmptyDedup DEF Init, DedupInv
<1>2. TypeOK /\ DedupInv /\ [Next]_vars => DedupInv'
  BY DedupStep
<1>3. DedupInv => CacheIsRecentHistory /\ DedupWindow
  BY DedupInvImplies
<1> QED
  BY <1>1, <1>2, <1>3, Typing, PTL DEF Spec

-----------------------------------------------------------------------------
(* Nothing is handed over that was not sent. *)

(* Whatever is on the air carries a packet some sender originated. *)
AirAuthentic == \A r \in air : PacketOf(r.frame) \in sent

LEMMA OriginatePreservesAuthentic ==
  ASSUME NEW s \in Station, NEW f \in Frame, Originate(s, f), Authentic, AirAuthentic
  PROVE  (Authentic /\ AirAuthentic)'
<1>1. sent \subseteq sent' /\ PacketOf(f) \in sent' /\ inbox' = inbox
  BY DEF Originate, stationVars
<1>2. \A r \in Transmission(s, f) : r.frame = f
  BY TransmissionType
<1>3. \A r \in air' : PacketOf(r.frame) \in sent'
  BY <1>1, <1>2 DEF Originate, AirAuthentic
<1> QED
  BY <1>1, <1>3 DEF Authentic, AirAuthentic

LEMMA RoutePreservesAuthentic ==
  ASSUME NEW r \in air, TypeOK, RouteFrame(r), Authentic, AirAuthentic
  PROVE  (Authentic /\ AirAuthentic)'
<1> DEFINE me == r.at
           f == r.frame
<1>1. me \in Station /\ f \in Frame /\ PacketOf(f) \in sent /\ sent' = sent
  BY DEF TypeOK, Reception, AirAuthentic, RouteFrame
<1>2. AirAuthentic'
  <2>1. ASSUME Relays(me, f), NEW q \in Transmission(me, Relayed(f))
        PROVE  PacketOf(q.frame) \in sent
    <3>1. Relayed(f) \in Frame /\ PacketOf(Relayed(f)) = PacketOf(f)
      BY <1>1, <2>1, RelayedFrame DEF Relays
    <3>2. q.frame = Relayed(f)
      BY <1>1, <2>1, <3>1, TransmissionType
    <3> QED
      BY <1>1, <3>1, <3>2
  <2> QED
    BY <1>1, <2>1 DEF RouteFrame, AirAuthentic
<1>3. ASSUME NEW s \in Station, NEW k \in 1 .. Len(inbox'[s])
      PROVE  LET p == inbox'[s][k]
             IN p \in sent' /\ p.to \in {s, BROADCAST} /\ p.body # "garbage"
  <2>1. CASE s = me /\ Delivers(me, f)
    <3>1. inbox'[s] = Append(inbox[s], PacketOf(f)) /\ inbox[s] \in Seq(Packet)
      BY <1>1, <2>1 DEF RouteFrame, TypeOK
    <3>2. /\ PacketOf(f).to = f.to /\ PacketOf(f).body = BodyOf(f)
          /\ f.to \in {s, BROADCAST} /\ BodyOf(f) # "garbage"
      BY <2>1 DEF PacketOf, Delivers, ForUs, Decodes
    <3>3. CASE k = Len(inbox[s]) + 1
      <4>1. inbox'[s][k] = PacketOf(f)
        BY <3>1, <3>3, AppendProperties, <1>1, PacketOfFrame
      <4> QED
        BY <1>1, <3>2, <4>1
    <3>4. CASE k # Len(inbox[s]) + 1
      <4>1. k \in 1 .. Len(inbox[s]) /\ inbox'[s][k] = inbox[s][k]
        BY <3>1, <3>4, AppendProperties, LenProperties, <1>1, PacketOfFrame
      <4> QED
        BY <1>1, <4>1 DEF Authentic
    <3> QED
      BY <3>3, <3>4
  <2>2. CASE ~(s = me /\ Delivers(me, f))
    <3>1. inbox'[s] = inbox[s]
      BY <1>1, <2>2 DEF RouteFrame, TypeOK
    <3> QED
      BY <1>1, <3>1 DEF Authentic
  <2> QED
    BY <2>1, <2>2
<1> QED
  BY <1>2, <1>3 DEF Authentic

LEMMA AuthenticStep ==
  ASSUME TypeOK, Authentic, AirAuthentic, [Next]_vars
  PROVE  (Authentic /\ AirAuthentic)'
<1>1. ASSUME NEW s \in Station, SendText(s) \/ SendNodeInfo(s)
      PROVE  (Authentic /\ AirAuthentic)'
  <2>1. PICK f \in Frame : Originate(s, f)
    <3>1. \A dest \in Destination, pid \in PacketId, body \in Body :
            BuildFrame(s, dest, pid, body) \in Frame
      BY BuiltFrame
    <3> QED
      BY <1>1, <3>1, TextDestAssumption DEF SendText, SendNodeInfo, Body, Destination
  <2> QED
    BY <2>1, OriginatePreservesAuthentic
<1>2. ASSUME NEW f \in StrayFrames, StrayFrame(f)
      PROVE  (Authentic /\ AirAuthentic)'
  <2>1. sent \subseteq sent' /\ PacketOf(f) \in sent' /\ inbox' = inbox
    BY <1>2 DEF StrayFrame, stationVars
  <2>2. \A r \in air' : r \in air \/ r.frame = f
    BY <1>2 DEF StrayFrame
  <2> QED
    BY <2>1, <2>2 DEF Authentic, AirAuthentic
<1>3. ASSUME NEW r \in air, RejectFrame(r) \/ DropDuplicate(r) \/ Lose(r)
      PROVE  (Authentic /\ AirAuthentic)'
  BY <1>3 DEF RejectFrame, DropDuplicate, Lose, stationVars, Authentic, AirAuthentic
<1>4. ASSUME NEW r \in air, RouteFrame(r)
      PROVE  (Authentic /\ AirAuthentic)'
  BY <1>4, RoutePreservesAuthentic
<1>5. ASSUME NEW s \in Station, Rebuild(s)
      PROVE  (Authentic /\ AirAuthentic)'
  BY <1>5 DEF Rebuild, Authentic, AirAuthentic
<1>6. CASE UNCHANGED vars
  BY <1>6 DEF vars, Authentic, AirAuthentic
<1> QED
  BY <1>1, <1>2, <1>3, <1>4, <1>5, <1>6 DEF Next, Receive

(***************************************************************************)
(* What a station's application is handed was originated as it arrives,    *)
(* and is meant for that station: relays, loss and rebuilds included.      *)
(***************************************************************************)
THEOREM DeliveredIsAuthentic == Spec => []Authentic
<1>1. Init => Authentic /\ AirAuthentic
  <2>1. Len(<<>>) = 0
    BY EmptySeq
  <2>2. Init => \A s \in Station : inbox[s] = <<>>
    BY DEF Init
  <2> QED
    BY <2>1, <2>2 DEF Init, Authentic, AirAuthentic
<1>2. TypeOK /\ Authentic /\ AirAuthentic /\ [Next]_vars => (Authentic /\ AirAuthentic)'
  BY AuthenticStep
<1> QED
  BY <1>1, <1>2, Typing, PTL DEF Spec

-----------------------------------------------------------------------------
(* Hops and distance. *)

LEMMA StartOfWalk ==
  ASSUME NEW s \in Station
  PROVE  s \in Within(Link, s, 0)
<1> DEFINE w == [i \in 0 .. 0 |-> s]
<1>1. w \in [0 .. 0 -> Station] /\ w[0] = s
  OBVIOUS
<1>2. \A i \in 0 .. 0 - 1 : w[i] = w[i + 1] \/ <<w[i], w[i + 1]>> \in Link
  OBVIOUS
<1> QED
  BY <1>1, <1>2 DEF Within

LEMMA LongerWalk ==
  ASSUME NEW s \in Station, NEW n \in Nat, NEW t \in Within(Link, s, n),
         NEW u \in Station, <<t, u>> \in Link
  PROVE  u \in Within(Link, s, n + 1)
<1>1. PICK w \in [0 .. n -> Station] :
        /\ w[0] = s /\ w[n] = t
        /\ \A i \in 0 .. n - 1 : w[i] = w[i + 1] \/ <<w[i], w[i + 1]>> \in Link
  BY DEF Within
<1> DEFINE v == [i \in 0 .. n + 1 |-> IF i = n + 1 THEN u ELSE w[i]]
<1>2. v \in [0 .. n + 1 -> Station]
  OBVIOUS
<1>3. v[0] = s /\ v[n + 1] = u /\ v[n] = t /\ \A i \in 0 .. n : v[i] = w[i]
  BY <1>1
<1>4. ASSUME NEW i \in 0 .. (n + 1) - 1
      PROVE  v[i] = v[i + 1] \/ <<v[i], v[i + 1]>> \in Link
  <2>1. CASE i = n
    BY <1>3, <2>1
  <2>2. CASE i # n
    <3>1. i \in 0 .. n - 1 /\ i \in 0 .. n /\ i + 1 \in 0 .. n
      BY <2>2
    <3> QED
      BY <1>1, <1>3, <3>1
  <2> QED
    BY <2>1, <2>2
<1> QED
  BY <1>2, <1>3, <1>4 DEF Within

(***************************************************************************)
(* The inductive form: what HopsCoverDistance says of each reception, and  *)
(* that its last hop was over a link.                                      *)
(***************************************************************************)
OnItsWay(r) ==
  LET f == r.frame
      spent == f.hop_start - f.hop_limit
  IN f.from \in Station =>
       /\ f.hop_start = HOP_LIMIT
       /\ f.hop_limit <= f.hop_start
       /\ r.via \in Within(Link, f.from, spent)
       /\ r.via = f.from <=> spent = 0
       /\ <<r.via, r.at>> \in Link

HopInv == \A r \in air : OnItsWay(r)

LEMMA OriginatePreservesHops ==
  ASSUME NEW s \in Station, NEW dest \in Destination, NEW pid \in PacketId,
         NEW body \in Body, Originate(s, BuildFrame(s, dest, pid, body)), HopInv
  PROVE  HopInv'
<1> DEFINE f == BuildFrame(s, dest, pid, body)
<1>1. f \in Frame /\ f.from = s /\ f.hop_start = HOP_LIMIT /\ f.hop_limit = HOP_LIMIT
  BY BuiltFrame DEF BuildFrame
<1>2. HOP_LIMIT - HOP_LIMIT = 0 /\ HOP_LIMIT <= HOP_LIMIT
  BY HopLimitAssumption
<1>3. s \in Within(Link, s, 0)
  BY StartOfWalk
<1>4. ASSUME NEW r \in Transmission(s, f)
      PROVE  OnItsWay(r)
  <2>1. r.via = s /\ r.frame = f /\ <<s, r.at>> \in Link
    BY <1>1, TransmissionType
  <2> HIDE DEF f
  <2> QED
    BY <1>1, <1>2, <1>3, <2>1 DEF OnItsWay
<1>5. air' = air \cup Transmission(s, f)
  BY DEF Originate
<1> QED
  BY <1>4, <1>5 DEF HopInv, OnItsWay

LEMMA RoutePreservesHops ==
  ASSUME NEW r \in air, TypeOK, RouteFrame(r), HopInv
  PROVE  HopInv'
<1> DEFINE me == r.at
           f == r.frame
           spent == f.hop_start - f.hop_limit
<1>1. me \in Station /\ f \in Frame /\ f.hop_limit \in 0 .. 7 /\ f.hop_start \in 0 .. 7
  BY DEF TypeOK, Reception, Frame
<1>2. ASSUME Relays(me, f), NEW q \in Transmission(me, Relayed(f))
      PROVE  OnItsWay(q)
  <2>1. /\ Relayed(f) \in Frame /\ Relayed(f).hop_limit = f.hop_limit - 1
        /\ Relayed(f).hop_start = f.hop_start /\ Relayed(f).from = f.from
    BY <1>1, <1>2, RelayedFrame DEF Relays, Relayed, Frame
  <2>2. q.via = me /\ q.frame = Relayed(f) /\ <<me, q.at>> \in Link
    BY <1>1, <1>2, <2>1, TransmissionType
  <2>3. CASE f.from \in Station
    <3>1. /\ f.hop_start = HOP_LIMIT /\ spent \in Nat
          /\ r.via \in Within(Link, f.from, spent) /\ <<r.via, me>> \in Link
      <4>1. OnItsWay(r)
        BY DEF HopInv
      <4>2. /\ f.hop_start = HOP_LIMIT /\ f.hop_limit <= f.hop_start
            /\ r.via \in Within(Link, f.from, spent) /\ <<r.via, me>> \in Link
        BY <2>3, <4>1 DEF OnItsWay
      <4>3. spent \in Nat
        BY <1>1, <4>2
      <4> QED
        BY <4>2, <4>3
    <3>2. me \in Within(Link, f.from, spent + 1)
      BY <1>1, <2>3, <3>1, LongerWalk
    <3>3. Relayed(f).hop_start - Relayed(f).hop_limit = spent + 1
      BY <1>1, <2>1
    <3>4. me # f.from /\ spent + 1 # 0
      BY <1>2, <3>1 DEF Relays
    <3>5. Relayed(f).hop_limit <= Relayed(f).hop_start
      BY <1>1, <2>1, <3>1
    <3> QED
      BY <2>1, <2>2, <3>1, <3>2, <3>3, <3>4, <3>5 DEF OnItsWay
  <2>4. CASE f.from \notin Station
    BY <2>1, <2>2, <2>4 DEF OnItsWay
  <2> QED
    BY <2>3, <2>4
<1>3. \A q \in air' : q \in air \/ (Relays(me, f) /\ q \in Transmission(me, Relayed(f)))
  BY DEF RouteFrame
<1> QED
  BY <1>2, <1>3 DEF HopInv, OnItsWay

LEMMA HopStep ==
  ASSUME TypeOK, HopInv, [Next]_vars
  PROVE  HopInv'
<1>1. ASSUME NEW s \in Station, SendText(s) \/ SendNodeInfo(s)
      PROVE  HopInv'
  <2>1. PICK dest \in Destination, pid \in PacketId, body \in Body :
          Originate(s, BuildFrame(s, dest, pid, body))
    BY <1>1, TextDestAssumption DEF SendText, SendNodeInfo, Body, Destination
  <2> QED
    BY <2>1, OriginatePreservesHops
<1>2. ASSUME NEW f \in StrayFrames, StrayFrame(f)
      PROVE  HopInv'
  <2>1. \A r \in air' : r \in air \/ r.frame = f
    BY <1>2 DEF StrayFrame
  <2>2. f.from \notin Station
    BY StrayAssumption
  <2> QED
    BY <2>1, <2>2 DEF HopInv, OnItsWay
<1>3. ASSUME NEW r \in air, RejectFrame(r) \/ DropDuplicate(r) \/ Lose(r)
      PROVE  HopInv'
  BY <1>3 DEF RejectFrame, DropDuplicate, Lose, HopInv, OnItsWay
<1>4. ASSUME NEW r \in air, RouteFrame(r)
      PROVE  HopInv'
  BY <1>4, RoutePreservesHops
<1>5. ASSUME NEW s \in Station, Rebuild(s)
      PROVE  HopInv'
  BY <1>5 DEF Rebuild, HopInv, OnItsWay
<1>6. CASE UNCHANGED vars
  BY <1>6 DEF vars, HopInv, OnItsWay
<1> QED
  BY <1>1, <1>2, <1>3, <1>4, <1>5, <1>6 DEF Next, Receive

(***************************************************************************)
(* The hops a station's packet has spent bound its distance from the       *)
(* origin, and the origin never relays it, in every mesh.                  *)
(***************************************************************************)
THEOREM HopsBoundDistance == Spec => []HopsCoverDistance
<1>1. Init => HopInv
  BY DEF Init, HopInv
<1>2. TypeOK /\ HopInv /\ [Next]_vars => HopInv'
  BY HopStep
<1>3. HopInv => HopsCoverDistance
  BY DEF HopInv, OnItsWay, HopsCoverDistance
<1> QED
  BY <1>1, <1>2, <1>3, Typing, PTL DEF Spec
=============================================================================
