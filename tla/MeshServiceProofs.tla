------------------------- MODULE MeshServiceProofs --------------------------
(***************************************************************************)
(* What the router's history gives the layers above it, for every mesh:    *)
(* the window of the dedup check by itself, neighbours that were really    *)
(* heard, and, where the ring is as large as all the traffic and no node   *)
(* is rebuilt, the at-most-once delivery of MeshService.                   *)
(***************************************************************************)
EXTENDS FloodMeshProofs, FiniteSetTheorems

(***************************************************************************)
(* No packet passes a station's router twice within DEDUP_CAPACITY others. *)
(***************************************************************************)
THEOREM NoPairTwice == Spec => []DedupWindow
BY RingIsRecentHistory, PTL

-----------------------------------------------------------------------------
(* The air and the history carry only what was originated. *)

PairIn(p) == <<p.from, p.id>>

SentPairs == {PairIn(p) : p \in sent}

LEMMA PairInPacket ==
  ASSUME NEW f \in Frame
  PROVE  PairIn(PacketOf(f)) = PairOf(f)
BY DEF PairIn, PacketOf, PairOf

LEMMA AirIsAuthentic == Spec => []AirAuthentic
<1>1. Init => Authentic /\ AirAuthentic
  <2>1. Len(<<>>) = 0
    BY EmptySeq
  <2>2. Init => \A s \in Station : inbox[s] = <<>>
    BY DEF Init
  <2> QED
    BY <2>1, <2>2 DEF Init, Authentic, AirAuthentic
<1>2. TypeOK /\ Authentic /\ AirAuthentic /\ [Next]_vars => (Authentic /\ AirAuthentic)'
  BY AuthenticStep
<1> QED
  BY <1>1, <1>2, Typing, PTL DEF Spec

(* The two steps that add to the history of what was sent. *)
LEMMA OriginationIs ==
  ASSUME [Next]_vars, sent' # sent
  PROVE  /\ \E f \in Frame : sent' = sent \cup {PacketOf(f)}
         /\ built' = built + 1
         /\ UNCHANGED <<dedup, neighbours, inbox, heard>>
<1>1. ASSUME NEW s \in Station, NEW f \in Frame, Originate(s, f)
      PROVE  /\ sent' = sent \cup {PacketOf(f)}
             /\ built' = built + 1
             /\ UNCHANGED <<dedup, neighbours, inbox, heard>>
  BY <1>1 DEF Originate, stationVars
<1>2. ASSUME NEW s \in Station, SendText(s) \/ SendNodeInfo(s)
      PROVE  \E f \in Frame : Originate(s, f)
  <2>1. \A dest \in Destination, pid \in PacketId, body \in Body :
          BuildFrame(s, dest, pid, body) \in Frame
    BY BuiltFrame
  <2> QED
    BY <1>2, <2>1, TextDestAssumption DEF SendText, SendNodeInfo, Body, Destination
<1>3. ASSUME NEW f \in StrayFrames, StrayFrame(f)
      PROVE  /\ f \in Frame /\ sent' = sent \cup {PacketOf(f)}
             /\ built' = built + 1
             /\ UNCHANGED <<dedup, neighbours, inbox, heard>>
  BY <1>3, StrayAssumption DEF StrayFrame, stationVars
<1>4. CASE Next
  <2>1. (\E s \in Station : SendText(s) \/ SendNodeInfo(s)) \/ (\E f \in StrayFrames : StrayFrame(f))
    BY <1>4 DEF Next, Rebuild, Receive, RejectFrame, DropDuplicate, RouteFrame, Lose
  <2> QED
    BY <1>1, <1>2, <1>3, <2>1
<1>5. CASE UNCHANGED vars
  BY <1>5 DEF vars
<1> QED
  BY <1>4, <1>5

(* The steps that leave the history of what was sent alone. *)
LEMMA ReceptionIs ==
  ASSUME [Next]_vars, sent' = sent
  PROVE  \/ \E r \in air : RouteFrame(r)
         \/ \E s \in Station : Rebuild(s)
         \/ UNCHANGED <<dedup, neighbours, inbox, heard>>
<1>1. ASSUME NEW s \in Station, SendText(s) \/ SendNodeInfo(s)
      PROVE  UNCHANGED <<dedup, neighbours, inbox, heard>>
  BY <1>1 DEF SendText, SendNodeInfo, Originate, stationVars
<1>2. ASSUME NEW f \in StrayFrames, StrayFrame(f)
      PROVE  UNCHANGED <<dedup, neighbours, inbox, heard>>
  BY <1>2 DEF StrayFrame, stationVars
<1>3. ASSUME NEW r \in air, RejectFrame(r) \/ DropDuplicate(r) \/ Lose(r)
      PROVE  UNCHANGED <<dedup, neighbours, inbox, heard>>
  BY <1>3 DEF RejectFrame, DropDuplicate, Lose, stationVars
<1>4. CASE UNCHANGED vars
  BY <1>4 DEF vars
<1> QED
  BY <1>1, <1>2, <1>3, <1>4 DEF Next, Receive

(* What a routed frame adds to one station, in the terms used below. *)
LEMMA RoutedAt ==
  ASSUME TypeOK, AirAuthentic, NEW r \in air, RouteFrame(r)
  PROVE  LET me == r.at
             f == r.frame
         IN /\ me \in Station /\ f \in Frame
            /\ PairOf(f) \in Pair /\ PacketOf(f) \in Packet /\ PacketOf(f) \in sent
            /\ heard' = [heard EXCEPT ![me] = Append(heard[me], PairOf(f))]
            /\ Len(heard'[me]) = Len(heard[me]) + 1
            /\ heard'[me][Len(heard[me]) + 1] = PairOf(f)
            /\ \A k \in 1 .. Len(heard[me]) : heard'[me][k] = heard[me][k]
            /\ \A s \in Station \ {me} : heard'[s] = heard[s]
            /\ Len(heard[me]) \in Nat
<1> DEFINE me == r.at
           f == r.frame
<1>1. me \in Station /\ f \in Frame /\ PacketOf(f) \in sent
  BY DEF TypeOK, Reception, AirAuthentic
<1>2. PacketOf(f) \in Packet /\ PairOf(f) \in Pair
  BY <1>1, PacketOfFrame
<1>3. /\ heard' = [heard EXCEPT ![me] = Append(heard[me], PairOf(f))]
      /\ heard \in [Station -> Seq(Pair)] /\ heard[me] \in Seq(Pair)
  BY <1>1 DEF RouteFrame, TypeOK
<1>4. heard'[me] = Append(heard[me], PairOf(f)) /\ \A s \in Station \ {me} : heard'[s] = heard[s]
  BY <1>1, <1>3
<1>5. /\ Len(Append(heard[me], PairOf(f))) = Len(heard[me]) + 1
      /\ Append(heard[me], PairOf(f))[Len(heard[me]) + 1] = PairOf(f)
      /\ \A k \in 1 .. Len(heard[me]) : Append(heard[me], PairOf(f))[k] = heard[me][k]
      /\ Len(heard[me]) \in Nat
  BY <1>2, <1>3, AppendProperties, LenProperties
<1> QED
  BY <1>1, <1>2, <1>3, <1>4, <1>5

LEMMA NeighbourStep ==
  ASSUME TypeOK, AirAuthentic, NeighboursBeaconed, [Next]_vars
  PROVE  NeighboursBeaconed'
<1>1. CASE sent' # sent
  <2>1. sent \subseteq sent' /\ neighbours' = neighbours /\ heard' = heard
    BY <1>1, OriginationIs
  <2> QED
    BY <2>1 DEF NeighboursBeaconed
<1>2. ASSUME NEW r \in air, RouteFrame(r)
      PROVE  NeighboursBeaconed'
  <2> DEFINE me == r.at
             f == r.frame
  <2>1. /\ me \in Station /\ f \in Frame /\ PacketOf(f) \in sent
        /\ Len(heard'[me]) = Len(heard[me]) + 1
        /\ heard'[me][Len(heard[me]) + 1] = PairOf(f)
        /\ \A k \in 1 .. Len(heard[me]) : heard'[me][k] = heard[me][k]
        /\ \A s \in Station \ {me} : heard'[s] = heard[s]
        /\ Len(heard[me]) \in Nat
    BY <1>2, RoutedAt
  <2>2. sent' = sent /\ neighbours' = [neighbours EXCEPT ![me] = UpdateNeighbours(@, me, f)]
    BY <1>2 DEF RouteFrame
  <2>3. ASSUME NEW s \in Station, NEW n \in neighbours'[s]
        PROVE  \E p \in sent' :
                 /\ p.from = n /\ p.body = "nodeinfo" /\ p.to \in {s, BROADCAST}
                 /\ \E k \in 1 .. Len(heard'[s]) : heard'[s][k] = <<n, p.id>>
    <3>1. CASE n \in neighbours[s]
      <4>1. PICK p \in sent, k \in 1 .. Len(heard[s]) :
              /\ p.from = n /\ p.body = "nodeinfo" /\ p.to \in {s, BROADCAST}
              /\ heard[s][k] = <<n, p.id>>
        BY <3>1 DEF NeighboursBeaconed
      <4>2. k \in 1 .. Len(heard'[s]) /\ heard'[s][k] = heard[s][k]
        BY <2>1
      <4> QED
        BY <2>2, <4>1, <4>2
    <3>2. CASE n \notin neighbours[s]
      <4>1. s = me /\ n = f.from /\ Delivers(me, f) /\ BodyOf(f) = "nodeinfo"
        BY <2>1, <2>2, <3>2 DEF UpdateNeighbours, TypeOK
      <4>2. /\ PacketOf(f).from = n /\ PacketOf(f).body = "nodeinfo"
            /\ PacketOf(f).to \in {s, BROADCAST} /\ PairOf(f) = <<n, PacketOf(f).id>>
        BY <4>1 DEF PacketOf, PairOf, Delivers, ForUs
      <4>3. Len(heard[me]) + 1 \in 1 .. Len(heard'[s])
        BY <2>1, <4>1
      <4> QED
        BY <2>1, <2>2, <4>1, <4>2, <4>3
    <3> QED
      BY <3>1, <3>2
  <2> QED
    BY <2>3 DEF NeighboursBeaconed
<1>3. ASSUME NEW s \in Station, Rebuild(s), sent' = sent
      PROVE  NeighboursBeaconed'
  <2>1. /\ neighbours'[s] = {}
        /\ \A t \in Station \ {s} : neighbours'[t] = neighbours[t] /\ heard'[t] = heard[t]
    BY <1>3 DEF Rebuild, TypeOK
  <2>2. ASSUME NEW t \in Station, NEW n \in neighbours'[t]
        PROVE  \E p \in sent' :
                 /\ p.from = n /\ p.body = "nodeinfo" /\ p.to \in {t, BROADCAST}
                 /\ \E k \in 1 .. Len(heard'[t]) : heard'[t][k] = <<n, p.id>>
    <3>1. n \in neighbours[t] /\ heard'[t] = heard[t]
      BY <2>1
    <3>2. PICK p \in sent :
            /\ p.from = n /\ p.body = "nodeinfo" /\ p.to \in {t, BROADCAST}
            /\ \E k \in 1 .. Len(heard[t]) : heard[t][k] = <<n, p.id>>
      BY <3>1 DEF NeighboursBeaconed
    <3> QED
      BY <1>3, <3>1, <3>2
  <2> QED
    BY <2>2 DEF NeighboursBeaconed
<1>4. CASE sent' = sent /\ UNCHANGED <<dedup, neighbours, inbox, heard>>
  BY <1>4 DEF NeighboursBeaconed
<1> QED
  BY <1>1, <1>2, <1>3, <1>4, ReceptionIs

(***************************************************************************)
(* Every neighbour a station lists sent it a node info that went through   *)
(* the router of the node it runs now: relays, losses and rebuilds         *)
(* included.                                                               *)
(***************************************************************************)
THEOREM NeighboursWereHeard == Spec => []NeighboursBeaconed
<1>1. Init => NeighboursBeaconed
  BY DEF Init, NeighboursBeaconed
<1>2. TypeOK /\ AirAuthentic /\ NeighboursBeaconed /\ [Next]_vars => NeighboursBeaconed'
  BY NeighbourStep
<1> QED
  BY <1>1, <1>2, Typing, AirIsAuthentic, PTL DEF Spec
-----------------------------------------------------------------------------
(* At-most-once delivery. *)

(***************************************************************************)
(* The inductive invariant. There are never more packet identities than    *)
(* packets originated; the router lets through only identities that were   *)
(* sent, each once; and what the application was handed went through the   *)
(* router.                                                                 *)
(***************************************************************************)
CountInv == IsFiniteSet(SentPairs) /\ Cardinality(SentPairs) <= built

HeardInv ==
  \A s \in Station :
    /\ \A k \in 1 .. Len(heard[s]) : heard[s][k] \in SentPairs
    /\ \A i, j \in 1 .. Len(heard[s]) : heard[s][i] = heard[s][j] => i = j

HandedInv ==
  \A s \in Station : \A k \in 1 .. Len(inbox[s]) :
    \E j \in 1 .. Len(heard[s]) : heard[s][j] = PairIn(inbox[s][k])

LEMMA CountStep ==
  ASSUME TypeOK, CountInv, [Next]_vars
  PROVE  CountInv'
<1>1. CASE sent' # sent
  <2>1. PICK f \in Frame : sent' = sent \cup {PacketOf(f)} /\ built' = built + 1
    BY <1>1, OriginationIs
  <2>2. SentPairs' = SentPairs \cup {PairIn(PacketOf(f))}
    BY <2>1 DEF SentPairs
  <2>3. /\ IsFiniteSet(SentPairs')
        /\ Cardinality(SentPairs') <= Cardinality(SentPairs) + 1
        /\ Cardinality(SentPairs) \in Nat
    BY <2>2, FS_AddElement, FS_CardinalityType DEF CountInv
  <2>4. built \in Nat
    BY BoundAssumption DEF TypeOK
  <2>5. Cardinality(SentPairs') \in Nat
    BY <2>3, FS_CardinalityType
  <2> QED
    BY <2>1, <2>3, <2>4, <2>5 DEF CountInv
<1>2. CASE sent' = sent
  <2>1. SentPairs' = SentPairs
    BY <1>2 DEF SentPairs
  <2>2. built' \in Nat /\ built \in Nat /\ built <= built'
    BY BoundAssumption DEF TypeOK, Next, SendText, SendNodeInfo, Originate, StrayFrame,
       Rebuild, Receive, RejectFrame, DropDuplicate, RouteFrame, Lose, vars
  <2>3. Cardinality(SentPairs) \in Nat
    BY FS_CardinalityType DEF CountInv
  <2> QED
    BY <2>1, <2>2, <2>3 DEF CountInv
<1> QED
  BY <1>1, <1>2

(* A history without repeats is no longer than what was originated. *)
LEMMA HistoryIsShort ==
  ASSUME TypeOK, CountInv, HeardInv, NEW s \in Station
  PROVE  Len(heard[s]) \in Nat /\ Len(heard[s]) <= MaxPackets
<1> DEFINE n == Len(heard[s])
           h == [k \in 1 .. n |-> heard[s][k]]
<1>1. n \in Nat /\ built \in Nat /\ built <= MaxPackets /\ MaxPackets \in Nat
  BY LenProperties, BoundAssumption DEF TypeOK
<1>2. h \in [1 .. n -> SentPairs]
  BY DEF HeardInv
<1>3. IsFiniteSet(1 .. n) /\ Cardinality(1 .. n) = n
  <2>1. 1 \in Int /\ n \in Int
    BY <1>1
  <2>2. IsFiniteSet(1 .. n) /\ Cardinality(1 .. n) = IF 1 > n THEN 0 ELSE n - 1 + 1
    BY <2>1, FS_Interval
  <2> QED
    BY <1>1, <2>2
<1>4. IsFiniteSet(SentPairs) /\ Cardinality(SentPairs) \in Nat /\ Cardinality(SentPairs) <= built
  BY FS_CardinalityType DEF CountInv
<1>5. ASSUME Cardinality(SentPairs) < Cardinality(1 .. n)
      PROVE  FALSE
  <2>1. \E x, y \in 1 .. n : x # y /\ h[x] = h[y]
    <3> HIDE DEF h, n
    <3> QED
      BY <1>2, <1>3, <1>4, <1>5, FS_PigeonHole
  <2>2. PICK x \in 1 .. n, y \in 1 .. n : x # y /\ heard[s][x] = heard[s][y]
    BY <2>1
  <2> QED
    BY <2>2 DEF HeardInv
<1> QED
  BY <1>1, <1>3, <1>4, <1>5

(* So with room for everything, a pair not in the ring was never heard. *)
LEMMA UnseenIsNew ==
  ASSUME MaxPackets <= DEDUP_CAPACITY, TypeOK, CountInv, HeardInv, DedupInv,
         NEW s \in Station, NEW pair, ~Seen(dedup[s], pair)
  PROVE  \A k \in 1 .. Len(heard[s]) : heard[s][k] # pair
<1>1. /\ Len(heard[s]) \in Nat /\ Len(heard[s]) <= DEDUP_CAPACITY
      /\ DEDUP_CAPACITY \in Nat
  BY HistoryIsShort, BoundAssumption, CapacityAssumption
<1>2. RecentEnd(dedup[s], heard[s])
  BY DEF DedupInv
<1>3. Len(dedup[s]) = Len(heard[s])
  BY <1>1, <1>2 DEF RecentEnd
<1>4. ASSUME NEW k \in 1 .. Len(heard[s])
      PROVE  dedup[s][k] = heard[s][k]
  <2>1. dedup[s][k] = heard[s][Len(heard[s]) - Len(dedup[s]) + k]
    BY <1>2, <1>3 DEF RecentEnd
  <2>2. Len(heard[s]) - Len(dedup[s]) + k = k
    BY <1>1, <1>3
  <2> QED
    BY <2>1, <2>2
<1> QED
  BY <1>3, <1>4 DEF Seen
LEMMA HistoryStep ==
  ASSUME MaxPackets <= DEDUP_CAPACITY, TypeOK, AirAuthentic, CountInv, HeardInv,
         DedupInv, [Next]_vars
  PROVE  HeardInv'
<1>1. CASE sent' # sent
  <2>1. heard' = heard /\ SentPairs \subseteq SentPairs'
    BY <1>1, OriginationIs DEF SentPairs
  <2> QED
    BY <2>1 DEF HeardInv
<1>2. ASSUME NEW r \in air, RouteFrame(r)
      PROVE  HeardInv'
  <2> DEFINE me == r.at
             f == r.frame
             n == Len(heard[me])
  <2>1. /\ me \in Station /\ f \in Frame /\ PacketOf(f) \in sent /\ n \in Nat
        /\ Len(heard'[me]) = n + 1 /\ heard'[me][n + 1] = PairOf(f)
        /\ \A k \in 1 .. n : heard'[me][k] = heard[me][k]
        /\ \A s \in Station \ {me} : heard'[s] = heard[s]
    BY <1>2, RoutedAt
  <2>2. SentPairs' = SentPairs /\ PairOf(f) \in SentPairs
    <3>1. sent' = sent
      BY <1>2 DEF RouteFrame
    <3>2. PairIn(PacketOf(f)) = PairOf(f)
      BY <2>1, PairInPacket
    <3> QED
      BY <2>1, <3>1, <3>2 DEF SentPairs
  <2>3. \A k \in 1 .. n : heard[me][k] # PairOf(f)
    BY <1>2, <2>1, UnseenIsNew DEF RouteFrame
  <2>4. ASSUME NEW s \in Station
        PROVE  /\ \A k \in 1 .. Len(heard'[s]) : heard'[s][k] \in SentPairs
               /\ \A i, j \in 1 .. Len(heard'[s]) : heard'[s][i] = heard'[s][j] => i = j
    <3>1. /\ \A k \in 1 .. Len(heard[s]) : heard[s][k] \in SentPairs
          /\ \A i, j \in 1 .. Len(heard[s]) : heard[s][i] = heard[s][j] => i = j
      BY DEF HeardInv
    <3>2. CASE s = me
      <4>1. ASSUME NEW k \in 1 .. Len(heard'[s])
            PROVE  \/ k \in 1 .. n /\ heard'[s][k] = heard[s][k]
                   \/ k = n + 1 /\ heard'[s][k] = PairOf(f)
        BY <2>1, <3>2
      <4>2. \A k \in 1 .. Len(heard'[s]) : heard'[s][k] \in SentPairs
        BY <2>2, <3>1, <3>2, <4>1
      <4>3. ASSUME NEW i \in 1 .. Len(heard'[s]), NEW j \in 1 .. Len(heard'[s]),
                   heard'[s][i] = heard'[s][j]
            PROVE  i = j
        <5>1. CASE i \in 1 .. n /\ j \in 1 .. n
          <6>1. heard'[me][i] = heard[me][i] /\ heard'[me][j] = heard[me][j]
            BY <2>1, <5>1
          <6> QED
            BY <3>1, <3>2, <4>3, <5>1, <6>1
        <5>2. CASE i = n + 1 \/ j = n + 1
          BY <2>3, <3>2, <4>1, <4>3, <5>2
        <5> QED
          BY <4>1, <5>1, <5>2
      <4> QED
        BY <4>2, <4>3
    <3>3. CASE s # me
      BY <2>1, <3>1, <3>3
    <3> QED
      BY <3>2, <3>3
  <2> QED
    BY <2>2, <2>4 DEF HeardInv
<1>3. ASSUME NEW s \in Station, Rebuild(s), sent' = sent
      PROVE  HeardInv'
  <2>1. SentPairs' = SentPairs
    BY <1>3 DEF SentPairs
  <2>2. heard'[s] = <<>> /\ \A t \in Station \ {s} : heard'[t] = heard[t]
    BY <1>3 DEF Rebuild, TypeOK
  <2>3. Len(heard'[s]) = 0
    BY <2>2, EmptySeq
  <2>4. ASSUME NEW t \in Station
        PROVE  /\ \A k \in 1 .. Len(heard'[t]) : heard'[t][k] \in SentPairs
               /\ \A i, j \in 1 .. Len(heard'[t]) : heard'[t][i] = heard'[t][j] => i = j
    <3>1. CASE t = s
      BY <2>3, <3>1
    <3>2. CASE t # s
      BY <2>2, <3>2 DEF HeardInv
    <3> QED
      BY <3>1, <3>2
  <2> QED
    BY <2>1, <2>4 DEF HeardInv
<1>4. CASE sent' = sent /\ UNCHANGED <<dedup, neighbours, inbox, heard>>
  <2>1. SentPairs' = SentPairs
    BY <1>4 DEF SentPairs
  <2> QED
    BY <1>4, <2>1 DEF HeardInv
<1> QED
  BY <1>1, <1>2, <1>3, <1>4, ReceptionIs

(* The packets handed over by one routed frame. *)
LEMMA HandedAt ==
  ASSUME TypeOK, AirAuthentic, NEW r \in air, RouteFrame(r)
  PROVE  LET me == r.at
             p == PacketOf(r.frame)
         IN /\ \A s \in Station \ {me} : inbox'[s] = inbox[s]
            /\ ~Delivers(me, r.frame) => inbox'[me] = inbox[me]
            /\ Delivers(me, r.frame) =>
                 /\ Len(inbox'[me]) = Len(inbox[me]) + 1
                 /\ inbox'[me][Len(inbox[me]) + 1] = p
                 /\ \A k \in 1 .. Len(inbox[me]) : inbox'[me][k] = inbox[me][k]
            /\ Len(inbox[me]) \in Nat
<1> DEFINE me == r.at
           p == PacketOf(r.frame)
<1>1. me \in Station /\ p \in Packet
  BY RoutedAt
<1>2. inbox' = [inbox EXCEPT ![me] = IF Delivers(me, r.frame) THEN Append(inbox[me], p) ELSE inbox[me]]
  BY DEF RouteFrame
<1>3. inbox \in [Station -> Seq(Packet)] /\ inbox[me] \in Seq(Packet)
  BY <1>1 DEF TypeOK
<1>4. /\ Len(Append(inbox[me], p)) = Len(inbox[me]) + 1
      /\ Append(inbox[me], p)[Len(inbox[me]) + 1] = p
      /\ \A k \in 1 .. Len(inbox[me]) : Append(inbox[me], p)[k] = inbox[me][k]
      /\ Len(inbox[me]) \in Nat
  BY <1>1, <1>3, AppendProperties, LenProperties
<1> HIDE DEF p
<1> QED
  BY <1>1, <1>2, <1>3, <1>4 DEF p

LEMMA HandedStep ==
  ASSUME ~Rebuilds, TypeOK, AirAuthentic, HandedInv, [Next]_vars
  PROVE  HandedInv'
<1>1. CASE sent' # sent
  BY <1>1, OriginationIs DEF HandedInv
<1>2. ASSUME NEW r \in air, RouteFrame(r)
      PROVE  HandedInv'
  <2> DEFINE me == r.at
             f == r.frame
             n == Len(heard[me])
             m == Len(inbox[me])
  <2>1. /\ me \in Station /\ f \in Frame /\ n \in Nat
        /\ Len(heard'[me]) = n + 1 /\ heard'[me][n + 1] = PairOf(f)
        /\ \A k \in 1 .. n : heard'[me][k] = heard[me][k]
        /\ \A s \in Station \ {me} : heard'[s] = heard[s]
    BY <1>2, RoutedAt
  <2>2. PairIn(PacketOf(f)) = PairOf(f)
    BY <2>1, PairInPacket
  <2>3. ASSUME NEW s \in Station, NEW k \in 1 .. Len(inbox[s])
        PROVE  \E j \in 1 .. Len(heard'[s]) : heard'[s][j] = PairIn(inbox[s][k])
    <3>1. PICK j \in 1 .. Len(heard[s]) : heard[s][j] = PairIn(inbox[s][k])
      BY DEF HandedInv
    <3>2. j \in 1 .. Len(heard'[s]) /\ heard'[s][j] = heard[s][j]
      BY <2>1
    <3> QED
      BY <3>1, <3>2
  <2>4. ASSUME NEW s \in Station, NEW k \in 1 .. Len(inbox'[s])
        PROVE  \E j \in 1 .. Len(heard'[s]) : heard'[s][j] = PairIn(inbox'[s][k])
    <3>1. CASE inbox'[s] = inbox[s]
      BY <2>3, <3>1
    <3>2. CASE inbox'[s] # inbox[s]
      <4>1. /\ s = me /\ m \in Nat /\ Len(inbox'[me]) = m + 1
            /\ inbox'[me][m + 1] = PacketOf(f)
            /\ \A i \in 1 .. m : inbox'[me][i] = inbox[me][i]
        BY <1>2, <3>2, HandedAt
      <4>2. CASE k = m + 1
        <5>1. n + 1 \in 1 .. Len(heard'[s])
          BY <2>1, <4>1
        <5> QED
          BY <2>1, <2>2, <4>1, <4>2, <5>1
      <4>3. CASE k # m + 1
        <5>1. k \in 1 .. Len(inbox[s]) /\ inbox'[s][k] = inbox[s][k]
          BY <4>1, <4>3
        <5> QED
          BY <2>3, <5>1
      <4> QED
        BY <4>2, <4>3
    <3> QED
      BY <3>1, <3>2
  <2> QED
    BY <2>4 DEF HandedInv
<1>3. ~\E s \in Station : Rebuild(s)
  BY DEF Rebuild
<1>4. CASE sent' = sent /\ UNCHANGED <<dedup, neighbours, inbox, heard>>
  BY <1>4 DEF HandedInv
<1> QED
  BY <1>1, <1>2, <1>3, <1>4, ReceptionIs
LEMMA ServiceStep ==
  ASSUME MaxPackets <= DEDUP_CAPACITY, ~Rebuilds, TypeOK, AirAuthentic,
         CountInv, HeardInv, HandedInv, DedupInv, [Next]_vars
  PROVE  [Service!Next]_<<sent, inbox>>
<1>1. CASE sent' # sent
  <2>1. PICK f \in Frame : sent' = sent \cup {PacketOf(f)} /\ inbox' = inbox
    BY <1>1, OriginationIs
  <2>2. PacketOf(f) \in Packet
    BY PacketOfFrame
  <2> QED
    BY <2>1, <2>2 DEF Service!Next, Service!Send
<1>2. ASSUME NEW r \in air, RouteFrame(r)
      PROVE  [Service!Next]_<<sent, inbox>>
  <2> DEFINE me == r.at
             p == PacketOf(r.frame)
  <2>1. me \in Station /\ r.frame \in Frame /\ p \in sent /\ sent' = sent
    BY <1>2, RoutedAt DEF RouteFrame
  <2>2. inbox' = [inbox EXCEPT ![me] = IF Delivers(me, r.frame) THEN Append(@, p) ELSE @]
    BY <1>2 DEF RouteFrame
  <2>3. CASE ~Delivers(me, r.frame)
    <3>1. inbox' = inbox
      BY <2>1, <2>2, <2>3 DEF TypeOK
    <3> QED
      BY <2>1, <3>1
  <2>4. CASE Delivers(me, r.frame)
    <3>1. p.to \in {me, BROADCAST}
      BY <2>4 DEF PacketOf, Delivers, ForUs
    <3>2. ~Service!HandedBefore(me, p)
      <4> SUFFICES ASSUME NEW k \in DOMAIN inbox[me],
                          inbox[me][k].from = p.from, inbox[me][k].id = p.id
                   PROVE  FALSE
        BY DEF Service!HandedBefore
      <4>1. k \in 1 .. Len(inbox[me])
        BY <2>1, LenProperties DEF TypeOK
      <4>2. PICK j \in 1 .. Len(heard[me]) : heard[me][j] = PairIn(inbox[me][k])
        BY <2>1, <4>1 DEF HandedInv
      <4>3. PairIn(inbox[me][k]) = PairIn(p)
        BY DEF PairIn
      <4>4. PairIn(p) = PairOf(r.frame)
        BY <2>1, PairInPacket
      <4>5. heard[me][j] # PairOf(r.frame)
        BY <1>2, <2>1, UnseenIsNew DEF RouteFrame
      <4> QED
        BY <4>2, <4>3, <4>4, <4>5
    <3>3. inbox' = [inbox EXCEPT ![me] = Append(@, p)]
      BY <2>2, <2>4
    <3>4. Service!Deliver(me)
      <4> HIDE DEF p, me
      <4> QED
        BY <2>1, <3>1, <3>2, <3>3 DEF Service!Deliver
    <3> QED
      BY <2>1, <3>4 DEF Service!Next
  <2> QED
    BY <2>3, <2>4
<1>3. ~\E s \in Station : Rebuild(s)
  BY DEF Rebuild
<1>4. CASE sent' = sent /\ UNCHANGED <<dedup, neighbours, inbox, heard>>
  BY <1>4
<1> QED
  BY <1>1, <1>2, <1>3, <1>4, ReceptionIs

(***************************************************************************)
(* Where the ring has room for every packet originated and no node is      *)
(* rebuilt, the stations, whatever the mesh, the losses and the order of   *)
(* arrival, implement at-most-once delivery: nothing is handed over that   *)
(* was not sent, nothing to the wrong station, nothing twice.              *)
(***************************************************************************)
THEOREM MeshImplementsService ==
  ASSUME ~Rebuilds, MaxPackets <= DEDUP_CAPACITY
  PROVE  Spec => ImplementsService
<1>1. Init => CountInv /\ HeardInv /\ HandedInv /\ DedupInv /\ Service!Init
  <2> SUFFICES ASSUME Init PROVE CountInv /\ HeardInv /\ HandedInv /\ DedupInv /\ Service!Init
    OBVIOUS
  <2>1. SentPairs = {}
    BY DEF Init, SentPairs
  <2>2. CountInv
    BY <2>1, FS_EmptySet DEF Init, CountInv
  <2>3. \A s \in Station : Len(heard[s]) = 0 /\ Len(inbox[s]) = 0
    BY EmptySeq DEF Init
  <2>4. HeardInv /\ HandedInv
    BY <2>3 DEF HeardInv, HandedInv
  <2>5. DedupInv
    BY EmptyDedup DEF Init, DedupInv
  <2> QED
    BY <2>2, <2>4, <2>5 DEF Init, Service!Init
<1>2. /\ TypeOK /\ AirAuthentic /\ CountInv /\ HeardInv /\ HandedInv /\ DedupInv
      /\ [Next]_vars
      => (CountInv /\ HeardInv /\ HandedInv /\ DedupInv)'
  BY CountStep, HistoryStep, HandedStep, DedupStep
<1>3. /\ TypeOK /\ AirAuthentic /\ CountInv /\ HeardInv /\ HandedInv /\ DedupInv
      /\ [Next]_vars
      => [Service!Next]_<<sent, inbox>>
  BY ServiceStep
<1> QED
  BY <1>1, <1>2, <1>3, Typing, AirIsAuthentic, PTL DEF Spec, ImplementsService, Service!Spec
=============================================================================
