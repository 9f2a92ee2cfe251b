--------------------------- MODULE RxBufferProofs ---------------------------
(***************************************************************************)
(* Theorems about RxBuffer, for every limit, tick and set of frame sizes.  *)
(***************************************************************************)
EXTENDS RxBuffer, SequenceTheorems, TLAPS

(***************************************************************************)
(* Frames come one after the other: all but the last have ended, each      *)
(* begins after the end of those before it, and the decode loop leaves     *)
(* none that has ended. Without it a decoded frame could take samples of   *)
(* its successor with it.                                                  *)
(***************************************************************************)
InOrder ==
  /\ \A k \in 1 .. Len(frames) : k < Len(frames) => Arrived(frames[k])
  /\ \A j, k \in 1 .. Len(frames) :
       j < k => frames[k].since + frames[j].size <= frames[j].since
  /\ pc = "hear" => \A k \in 1 .. Len(frames) : ~Arrived(frames[k])

RxInv == TypeOK /\ InOrder /\ KeptIsThere /\ CutOnlyIfLong

LEMMA HalfFits == Half \in Nat /\ Half <= MAX_RX_BUF /\ TICK <= Half /\ TICK \in Nat \ {0}
BY RxBufferAssumption DEF Half

LEMMA FrameFacts ==
  ASSUME TypeOK, NEW k \in 1 .. Len(frames)
  PROVE  /\ frames[k] \in Frame
         /\ frames[k].size \in Nat /\ frames[k].size > TICK
         /\ frames[k].since \in Nat /\ frames[k].fate \in Fate
<1>1. frames[k] \in Frame
  BY ElementOfSeq DEF TypeOK
<1> QED
  BY <1>1, RxBufferAssumption DEF Frame

(* What a tick's samples do to any frame on the air, old or new. *)
LEMMA KeptFacts ==
  ASSUME NEW n \in Nat, NEW f \in Frame, f.fate = "kept" => f.since <= n
  PROVE  /\ Kept(n, f) \in Frame
         /\ Kept(n, f).size = f.size /\ Kept(n, f).since = f.since
         /\ Kept(n, f).fate = "kept" => f.since <= Trimmed(n)
         /\ Kept(n, f).fate = "trimmed" => f.fate = "trimmed" \/ f.since > Half
<1>1. f.since \in Nat /\ f.fate \in Fate
  BY DEF Frame
<1>2. CASE f.fate = "kept" /\ Cuts(n, f)
  BY <1>2 DEF Kept, Cuts, Frame, Fate
<1>3. CASE ~(f.fate = "kept" /\ Cuts(n, f))
  <2>1. Kept(n, f) = f
    BY <1>3 DEF Kept
  <2>2. f.fate = "kept" => f.since <= Trimmed(n)
    BY <1>1, <1>3, HalfFits, RxBufferAssumption DEF Cuts, Trimmed
  <2> QED
    BY <2>1, <2>2
<1> QED
  BY <1>2, <1>3

(***************************************************************************)
(* Extend keeps the invariant for every sequence of frames that is in      *)
(* order and may have been heard by the end of the tick.                   *)
(***************************************************************************)
LEMMA ExtendPreserves ==
  ASSUME RxInv, NEW heard \in Seq(Frame), Extend(heard),
         \A k \in 1 .. Len(heard) : k < Len(heard) => Arrived(heard[k]),
         \A j, k \in 1 .. Len(heard) :
           j < k => heard[k].since + heard[j].size <= heard[j].since,
         \A k \in 1 .. Len(heard) :
           /\ heard[k].fate = "kept" => /\ heard[k].since <= len + TICK
                                        /\ heard[k].since < heard[k].size + TICK
           /\ heard[k].fate = "trimmed" => heard[k].size + TICK > Half + 1
  PROVE  RxInv'
<1> DEFINE n == len + TICK
<1>1. n \in Nat /\ len \in Nat
  BY HalfFits, RxBufferAssumption DEF RxInv, TypeOK
<1>2. /\ frames' = [k \in 1 .. Len(heard) |-> Kept(n, heard[k])]
      /\ len' = Trimmed(n) /\ pc' = "decode"
  BY LenProperties DEF Extend
<1>3. ASSUME NEW k \in 1 .. Len(heard)
      PROVE  /\ heard[k] \in Frame /\ Kept(n, heard[k]) \in Frame
             /\ Kept(n, heard[k]).size = heard[k].size
             /\ Kept(n, heard[k]).since = heard[k].since
             /\ Kept(n, heard[k]).fate = "kept" => heard[k].since <= Trimmed(n)
             /\ Kept(n, heard[k]).fate = "trimmed"
                  => heard[k].fate = "trimmed" \/ (heard[k].since > Half /\ heard[k].fate = "kept")
  <2>1. heard[k] \in Frame
    BY ElementOfSeq
  <2>2. heard[k].fate = "kept" => heard[k].since <= n
    OBVIOUS
  <2>3. Kept(n, heard[k]).fate = "trimmed" => heard[k].fate \in {"trimmed", "kept"}
    BY <2>1 DEF Kept, Frame, Fate
  <2> QED
    BY <1>1, <2>1, <2>2, <2>3, KeptFacts
<1>4. Len(heard) \in Nat
  BY LenProperties
<1>5. frames' \in Seq(Frame) /\ Len(frames') = Len(heard)
  <2>1. frames' \in [1 .. Len(heard) -> Frame]
    BY <1>2, <1>3
  <2> QED
    BY <1>4, <2>1, SeqDef, LenProperties
<1>6. TypeOK'
  <2>1. len' \in 0 .. MAX_RX_BUF
    BY <1>1, <1>2, HalfFits, RxBufferAssumption DEF Trimmed
  <2> QED
    BY <1>2, <1>5, <2>1 DEF TypeOK
<1>7. InOrder'
  <2>1. \A k \in 1 .. Len(heard) :
          frames'[k].since = heard[k].since /\ frames'[k].size = heard[k].size
    BY <1>2, <1>3
  <2> QED
    BY <1>2, <1>5, <2>1 DEF InOrder, Arrived
<1>8. KeptIsThere'
  BY <1>2, <1>3, <1>5, LenProperties DEF KeptIsThere
<1>9. CutOnlyIfLong'
  <2> SUFFICES ASSUME NEW k \in 1 .. Len(heard), frames'[k].fate = "trimmed"
               PROVE  frames'[k].size + TICK > Half + 1
    BY <1>5, LenProperties DEF CutOnlyIfLong
  <2>1. frames'[k] = Kept(n, heard[k]) /\ frames'[k].size = heard[k].size
    BY <1>2, <1>3
  <2>2. CASE heard[k].fate = "trimmed"
    BY <2>1, <2>2
  <2>3. CASE heard[k].since > Half /\ heard[k].fate = "kept"
    <3>1. heard[k].since \in Nat /\ heard[k].size \in Nat
      BY <1>3, RxBufferAssumption DEF Frame
    <3> QED
      BY <2>1, <2>3, <3>1, HalfFits
  <2> QED
    BY <1>3, <2>1, <2>2, <2>3
<1> QED
  BY <1>6, <1>7, <1>8, <1>9 DEF RxInv

LEMMA GrownFacts ==
  ASSUME RxInv, pc = "hear"
  PROVE  /\ Grown \in Seq(Frame) /\ Len(Grown) = Len(frames) /\ Len(frames) \in {0, 1}
         /\ \A k \in 1 .. Len(frames) :
              /\ Grown[k].since = frames[k].since + TICK
              /\ Grown[k].size = frames[k].size
              /\ Grown[k].fate = frames[k].fate
         /\ \A k \in 1 .. Len(frames) :
              /\ Grown[k].fate = "kept" => /\ Grown[k].since <= len + TICK
                                           /\ Grown[k].since < Grown[k].size + TICK
              /\ Grown[k].fate = "trimmed" => Grown[k].size + TICK > Half + 1
<1>1. frames \in Seq(Frame) /\ Len(frames) \in Nat /\ DOMAIN frames = 1 .. Len(frames)
  BY LenProperties DEF RxInv, TypeOK
<1>2. Len(frames) \in {0, 1}
  <2>1. ASSUME Len(frames) > 1 PROVE FALSE
    BY <1>1, <2>1 DEF RxInv, InOrder
  <2> QED
    BY <1>1, <2>1
<1>3. ASSUME NEW k \in 1 .. Len(frames)
      PROVE  /\ frames[k] \in Frame /\ frames[k].since \in Nat /\ frames[k].size \in Nat
             /\ [frames[k] EXCEPT !.since = @ + TICK] \in Frame
  BY FrameFacts, HalfFits DEF RxInv, Frame
<1>4. /\ Grown = [k \in 1 .. Len(frames) |-> [frames[k] EXCEPT !.since = @ + TICK]]
      /\ Grown \in [1 .. Len(frames) -> Frame]
  BY <1>1, <1>3 DEF Grown
<1>5. Grown \in Seq(Frame) /\ Len(Grown) = Len(frames)
  BY <1>1, <1>4, SeqDef, LenProperties
<1>6. \A k \in 1 .. Len(frames) :
        /\ Grown[k].since = frames[k].since + TICK
        /\ Grown[k].size = frames[k].size
        /\ Grown[k].fate = frames[k].fate
  BY <1>3, <1>4 DEF Frame
<1>7. ASSUME NEW k \in 1 .. Len(frames)
      PROVE  /\ Grown[k].fate = "kept" => /\ Grown[k].since <= len + TICK
                                          /\ Grown[k].since < Grown[k].size + TICK
             /\ Grown[k].fate = "trimmed" => Grown[k].size + TICK > Half + 1
  <2>1. frames[k].since < frames[k].size
    <3>1. ~Arrived(frames[k])
      BY DEF RxInv, InOrder
    <3>2. frames[k].since \in Nat /\ frames[k].size \in Nat
      BY <1>3
    <3> QED
      BY <3>1, <3>2 DEF Arrived
  <2>2. frames[k].fate = "kept" => frames[k].since <= len
    BY <1>1 DEF RxInv, KeptIsThere
  <2>3. frames[k].fate = "trimmed" => frames[k].size + TICK > Half + 1
    BY <1>1 DEF RxInv, CutOnlyIfLong
  <2>4. len \in Nat
    BY RxBufferAssumption DEF RxInv, TypeOK
  <2>5. frames[k].since \in Nat /\ frames[k].size \in Nat
    BY <1>3
  <2>6. /\ Grown[k].since = frames[k].since + TICK
        /\ Grown[k].size = frames[k].size
        /\ Grown[k].fate = frames[k].fate
    BY <1>6
  <2> QED
    BY <2>1, <2>2, <2>3, <2>4, <2>5, <2>6, HalfFits
<1> QED
  BY <1>2, <1>5, <1>6, <1>7

LEMMA HearOnPreserves ==
  ASSUME RxInv, HearOn
  PROVE  RxInv'
<1>1. Extend(Grown) /\ pc = "hear"
  BY DEF HearOn, Extend
<1>2. \A j, k \in 1 .. Len(Grown) : ~(j < k)
  BY <1>1, GrownFacts
<1> QED
  BY <1>1, <1>2, GrownFacts, ExtendPreserves

LEMMA HearNewFramePreserves ==
  ASSUME RxInv, HearNewFrame
  PROVE  RxInv'
<1>1. PICK n \in Size, back \in 1 .. TICK :
        back <= Room /\ Extend(Append(Grown, [size |-> n, since |-> back, fate |-> "kept"]))
  BY DEF HearNewFrame
<1> DEFINE new == [size |-> n, since |-> back, fate |-> "kept"]
           heard == Append(Grown, new)
<1>2. pc = "hear"
  BY <1>1 DEF Extend
<1>3. back \in Nat /\ back <= TICK /\ n \in Nat /\ n > TICK /\ new \in Frame
  BY <1>1, HalfFits, RxBufferAssumption DEF Frame, Fate
<1>4. /\ heard \in Seq(Frame) /\ Len(heard) = Len(frames) + 1
      /\ \A k \in 1 .. Len(frames) : heard[k] = Grown[k]
      /\ heard[Len(frames) + 1] = new
  BY <1>2, <1>3, GrownFacts, AppendProperties
<1>5. CASE Len(frames) = 0
  <2>1. /\ \A k \in 1 .. Len(heard) : k = 1 /\ heard[k] = new
        /\ \A j, k \in 1 .. Len(heard) : ~(j < k)
        /\ \A k \in 1 .. Len(heard) : ~(k < Len(heard))
    BY <1>4, <1>5
  <2>2. len \in Nat
    BY RxBufferAssumption DEF RxInv, TypeOK
  <2>3. \A k \in 1 .. Len(heard) :
           /\ heard[k].fate = "kept" => /\ heard[k].since <= len + TICK
                                        /\ heard[k].since < heard[k].size + TICK
           /\ heard[k].fate = "trimmed" => heard[k].size + TICK > Half + 1
    BY <1>3, <2>1, <2>2, HalfFits
  <2> HIDE DEF heard
  <2> QED
    BY <1>1, <1>4, <2>1, <2>3, ExtendPreserves DEF heard
<1>6. CASE Len(frames) = 1
  <2>1. Arrived(Grown[1]) /\ back + Grown[1].size <= Grown[1].since
    <3>1. Len(Grown) = 1 /\ frames # <<>>
      BY <1>2, <1>6, GrownFacts, EmptySeq
    <3>2. Room = IF Arrived(Grown[1]) THEN Grown[1].since - Grown[1].size ELSE 0
      BY <1>6, <3>1 DEF Room
    <3>3. Grown[1].since \in Nat /\ Grown[1].size \in Nat
      <4>1. 1 \in 1 .. Len(frames)
        BY <1>6
      <4>2. frames[1].since \in Nat /\ frames[1].size \in Nat
        BY <4>1, FrameFacts DEF RxInv
      <4> QED
        BY <1>2, <4>1, <4>2, GrownFacts, HalfFits
    <3> QED
      BY <1>1, <3>2, <3>3 DEF Arrived
  <2>2. Len(heard) = 2 /\ heard[1] = Grown[1] /\ heard[2] = new
    BY <1>4, <1>6
  <2>3. len \in Nat
    BY RxBufferAssumption DEF RxInv, TypeOK
  <2>4. \A k \in 1 .. Len(heard) : k < Len(heard) => Arrived(heard[k])
    BY <2>1, <2>2
  <2>5. \A j, k \in 1 .. Len(heard) :
          j < k => heard[k].since + heard[j].size <= heard[j].since
    <3> SUFFICES ASSUME NEW j \in 1 .. 2, NEW k \in 1 .. 2, j < k
                 PROVE  heard[k].since + heard[j].size <= heard[j].since
      BY <2>2
    <3>1. j = 1 /\ k = 2
      OBVIOUS
    <3> QED
      BY <2>1, <2>2, <3>1
  <2>6. \A k \in 1 .. Len(heard) :
           /\ heard[k].fate = "kept" => /\ heard[k].since <= len + TICK
                                        /\ heard[k].since < heard[k].size + TICK
           /\ heard[k].fate = "trimmed" => heard[k].size + TICK > Half + 1
    <3>1. \A k \in 1 .. Len(heard) : k = 1 \/ k = 2
      BY <2>2
    <3>2. /\ new.fate = "kept" /\ new.since <= len + TICK /\ new.since < new.size + TICK
      BY <1>3, <2>3, HalfFits
    <3> QED
      BY <1>2, <1>6, <2>2, <3>1, <3>2, GrownFacts
  <2> HIDE DEF heard
  <2> QED
    BY <1>1, <1>4, <2>4, <2>5, <2>6, ExtendPreserves DEF heard
<1> QED
  BY <1>2, <1>5, <1>6, GrownFacts

(* Taking the first frame out, decoded or missed. *)
LEMMA TailPreserves ==
  ASSUME RxInv, pc = "decode", frames # <<>>, Arrived(Head(frames)),
         frames' = Tail(frames), pc' = pc, len' \in 0 .. MAX_RX_BUF,
         len' = len \/ len' = DrainedBy(Head(frames))
  PROVE  RxInv'
<1>1. frames \in Seq(Frame) /\ Len(frames) \in Nat /\ Len(frames) > 0
  BY EmptySeq, LenProperties DEF RxInv, TypeOK
<1>2. /\ frames' \in Seq(Frame) /\ Len(frames') = Len(frames) - 1
      /\ \A k \in 1 .. Len(frames) - 1 : frames'[k] = frames[k + 1]
      /\ Head(frames) = frames[1]
  BY <1>1, HeadTailProperties
<1>3. TypeOK'
  BY <1>2 DEF TypeOK
<1>4. InOrder'
  BY <1>1, <1>2 DEF RxInv, InOrder
<1>5. KeptIsThere'
  <2> SUFFICES ASSUME NEW k \in 1 .. Len(frames) - 1, frames[k + 1].fate = "kept"
               PROVE  frames[k + 1].since <= len'
    BY <1>2, LenProperties DEF KeptIsThere
  <2>1. CASE len' = len
    BY <1>1, <2>1, LenProperties DEF RxInv, KeptIsThere
  <2>2. CASE len' = DrainedBy(Head(frames))
    <3>1. 1 \in 1 .. Len(frames) /\ k + 1 \in 1 .. Len(frames) /\ 1 < k + 1
      BY <1>1
    <3>2. frames[k + 1].since + frames[1].size <= frames[1].since
      BY <3>1 DEF RxInv, InOrder
    <3>3. frames[k + 1].since \in Nat /\ frames[1].size \in Nat /\ frames[1].since \in Nat
      BY <3>1, FrameFacts DEF RxInv
    <3> QED
      BY <1>2, <2>2, <3>2, <3>3 DEF DrainedBy
  <2> QED
    BY <2>1, <2>2
<1>6. CutOnlyIfLong'
  <2> SUFFICES ASSUME NEW k \in 1 .. Len(frames) - 1, frames[k + 1].fate = "trimmed"
               PROVE  frames[k + 1].size + TICK > Half + 1
    BY <1>2, LenProperties DEF CutOnlyIfLong
  <2> QED
    BY <1>1, LenProperties DEF RxInv, CutOnlyIfLong
<1> QED
  BY <1>3, <1>4, <1>5, <1>6 DEF RxInv

LEMMA ClearPreserves ==
  ASSUME RxInv, Clear
  PROVE  RxInv'
<1>1. frames \in Seq(Frame) /\ Len(frames) \in Nat /\ DOMAIN frames = 1 .. Len(frames)
  BY LenProperties DEF RxInv, TypeOK
<1>2. /\ frames' = [k \in 1 .. Len(frames) |-> [frames[k] EXCEPT !.fate = "cleared"]]
      /\ len' = 0 /\ pc' = pc
  BY <1>1 DEF Clear
<1>3. \A k \in 1 .. Len(frames) :
        /\ frames'[k] \in Frame /\ frames'[k].fate = "cleared"
        /\ frames'[k].size = frames[k].size /\ frames'[k].since = frames[k].since
  BY <1>2, FrameFacts DEF RxInv, Frame, Fate
<1>4. frames' \in Seq(Frame) /\ Len(frames') = Len(frames)
  <2>1. frames' \in [1 .. Len(frames) -> Frame]
    BY <1>2, <1>3
  <2> QED
    BY <1>1, <2>1, SeqDef, LenProperties
<1>5. TypeOK'
  BY <1>2, <1>4, RxBufferAssumption DEF RxInv, TypeOK
<1>6. InOrder'
  BY <1>2, <1>3, <1>4 DEF RxInv, InOrder, Arrived
<1>7. KeptIsThere' /\ CutOnlyIfLong'
  BY <1>3, <1>4, LenProperties DEF KeptIsThere, CutOnlyIfLong
<1> QED
  BY <1>5, <1>6, <1>7 DEF RxInv

LEMMA RxInductive == RxInv /\ [Next]_vars => RxInv'
<1> SUFFICES ASSUME RxInv, [Next]_vars
             PROVE  RxInv'
  OBVIOUS
<1>1. CASE HearOn
  BY <1>1, HearOnPreserves
<1>2. CASE HearNewFrame
  BY <1>2, HearNewFramePreserves
<1>3. CASE DecodeFrame
  <2>1. frames # <<>> /\ Head(frames) = frames[1] /\ 1 \in 1 .. Len(frames)
    BY <1>3, EmptySeq, HeadTailProperties, LenProperties DEF DecodeFrame, RxInv, TypeOK
  <2>2. Arrived(frames[1]) /\ frames[1].fate = "kept"
    BY <1>3, <2>1 DEF DecodeFrame
  <2>3. frames[1].since <= len
    BY <2>1, <2>2, LenProperties DEF RxInv, KeptIsThere, TypeOK
  <2>4. DrainedBy(Head(frames)) \in 0 .. MAX_RX_BUF
    BY <2>1, <2>2, <2>3, FrameFacts, RxBufferAssumption DEF DrainedBy, Arrived, RxInv, TypeOK
  <2> QED
    BY <1>3, <2>4, TailPreserves DEF DecodeFrame
<1>4. CASE MissFrame
  BY <1>4, TailPreserves DEF MissFrame, RxInv, TypeOK
<1>5. CASE DecodeFails
  <2>1. len' \in 0 .. MAX_RX_BUF
    BY <1>5, RxBufferAssumption DEF DecodeFails, RxInv, TypeOK
  <2>2. KeptIsThere'
    BY <1>5 DEF DecodeFails, KeptIsThere
  <2> QED
    BY <1>5, <2>1, <2>2 DEF DecodeFails, RxInv, TypeOK, InOrder, CutOnlyIfLong
<1>6. CASE EndTick
  BY <1>6, LenProperties DEF EndTick, RxInv, TypeOK, InOrder, KeptIsThere, CutOnlyIfLong
<1>7. CASE Clear
  BY <1>7, ClearPreserves
<1>8. CASE UNCHANGED vars
  BY <1>8 DEF vars, RxInv, TypeOK, InOrder, KeptIsThere, CutOnlyIfLong
<1> QED
  BY <1>1, <1>2, <1>3, <1>4, <1>5, <1>6, <1>7, <1>8 DEF Next

LEMMA RxHolds == Spec => []RxInv
<1>1. Init => RxInv
  BY EmptySeq, RxBufferAssumption DEF Init, RxInv, TypeOK, InOrder, KeptIsThere, CutOnlyIfLong
<1> QED
  BY <1>1, RxInductive, PTL DEF Spec

(* The buffer never outgrows its limit, and its length never goes below 0. *)
THEOREM RxTyping == Spec => []TypeOK
BY RxHolds, PTL DEF RxInv

(***************************************************************************)
(* For every size of buffer, tick and frames: the trim of rx_buffer loses  *)
(* a frame only if it, and the tick it ends in, outgrow half the buffer.   *)
(***************************************************************************)
THEOREM TrimSparesShortFrames == Spec => []CutOnlyIfLong
BY RxHolds, PTL DEF RxInv

(***************************************************************************)
(* A frame that was not trimmed or cleared is complete in the buffer, and  *)
(* stays so while earlier frames and noise are drained in front of it.     *)
(***************************************************************************)
THEOREM DrainSparesFrames == Spec => []KeptIsThere
BY RxHolds, PTL DEF RxInv
=============================================================================
