------------------------------ MODULE RxBuffer ------------------------------
(***************************************************************************)
(* The receive buffer of radio.rs: samples are appended tick by tick, the  *)
(* buffer is cut to half its limit when it outgrows it, and the streaming  *)
(* decoder is called until it finds no frame.                              *)
(*                                                                         *)
(* Samples are counted, never looked at. A frame is known by its size and  *)
(* by how far behind the newest sample it begins (since): it has arrived   *)
(* when since >= size, and its samples are in the buffer if since <= len.  *)
(* The decoder is external (lora-rs). It finds a frame whose samples are   *)
(* all there, in the order of arrival, with a good CRC or a bad one; what  *)
(* is left of other signals it may take for a header and throw away.       *)
(***************************************************************************)
EXTENDS Naturals, Sequences

CONSTANTS
  MAX_RX_BUF,   \* the limit of the buffer
  TICK,         \* samples_per_tick
  Size          \* the sizes of the frames other stations send

(* A frame is longer than a tick, so a tick holds at most one beginning. *)
ASSUME RxBufferAssumption ==
  /\ MAX_RX_BUF \in Nat /\ TICK \in Nat \ {0} /\ TICK <= MAX_RX_BUF \div 2
  /\ Size \subseteq {n \in Nat : n > TICK}

VARIABLES
  len,       \* rx_buffer.len()
  frames,    \* the frames on the air or in the buffer, oldest first
  pc         \* "hear": before driver.tick; "decode": in the decode loop

vars == <<len, frames, pc>>

(* trimmed or cleared: samples of it were dropped before it could be decoded. *)
Fate == {"kept", "trimmed", "cleared"}
Frame == [size : Size, since : Nat, fate : Fate]

TypeOK ==
  /\ len \in 0 .. MAX_RX_BUF
  /\ frames \in Seq(Frame)
  /\ pc \in {"hear", "decode"}

Init == len = 0 /\ frames = <<>> /\ pc = "hear"

-----------------------------------------------------------------------------
(* Half the limit remains, the newest samples. *)
Half == MAX_RX_BUF \div 2

(* Mutant: the buffer may outgrow its limit by a tick. *)
TrimmedLate(n) == IF n > MAX_RX_BUF + TICK THEN Half ELSE n

Trimmed(n) == IF n > MAX_RX_BUF THEN Half ELSE n

(* Mutant: the older half is kept, which holds only what begins in it. *)
CutsNewest(n, f) == n > MAX_RX_BUF /\ f.since <= n - Half

Cuts(n, f) == n > MAX_RX_BUF /\ f.since > Half

Kept(n, f) == IF f.fate = "kept" /\ Cuts(n, f) THEN [f EXCEPT !.fate = "trimmed"] ELSE f

Arrived(f) == f.since >= f.size

Grown == [k \in DOMAIN frames |-> [frames[k] EXCEPT !.since = @ + TICK]]

(* The samples that have come since the last frame ended. *)
Room == IF frames = <<>> THEN TICK
        ELSE LET last == Grown[Len(frames)]
             IN IF Arrived(last) THEN last.since - last.size ELSE 0

(***************************************************************************)
(* One call of driver.tick and what is done with its samples: noise, more  *)
(* of the frame that is arriving, or the beginning of the next.            *)
(***************************************************************************)
Extend(heard) ==
  /\ pc = "hear"
  /\ len' = Trimmed(len + TICK)
  /\ frames' = [k \in DOMAIN heard |-> Kept(len + TICK, heard[k])]
  /\ pc' = "decode"

HearOn == Extend(Grown)

HearNewFrame ==
  \E n \in Size, back \in 1 .. TICK :
    /\ back <= Room
    /\ Extend(Append(Grown, [size |-> n, since |-> back, fate |-> "kept"]))

(* Mutant: everything is dropped with the frame. *)
EmptiedBy(f) == 0

(* consumed ends with the last sample of the frame. *)
DrainedBy(f) == f.since - f.size

(* Ok or CrcFail: all of the frame is in the buffer. *)
DecodeFrame ==
  /\ pc = "decode"
  /\ frames # <<>> /\ Arrived(Head(frames)) /\ Head(frames).fate = "kept"
  /\ len' = DrainedBy(Head(frames))
  /\ frames' = Tail(frames)
  /\ UNCHANGED pc

(* The end of a frame whose beginning was dropped: nothing to decode. *)
MissFrame ==
  /\ pc = "decode"
  /\ frames # <<>> /\ Arrived(Head(frames)) /\ Head(frames).fate # "kept"
  /\ frames' = Tail(frames)
  /\ UNCHANGED <<len, pc>>

(* DecodeFailed: noise taken for a header, in front of the whole frames. *)
DecodeFails ==
  /\ pc = "decode"
  /\ len' \in {n \in 0 .. len : \A k \in DOMAIN frames : frames[k].fate = "kept" => frames[k].since <= n}
  /\ UNCHANGED <<frames, pc>>

EndTick ==
  /\ pc = "decode"
  /\ \A k \in DOMAIN frames : ~Arrived(frames[k])
  /\ pc' = "hear"
  /\ UNCHANGED <<len, frames>>

(* Rebuilding the driver or the modems drops what was received, in part or not. *)
Clear ==
  /\ pc = "hear"
  /\ len' = 0
  /\ frames' = [k \in DOMAIN frames |-> [frames[k] EXCEPT !.fate = "cleared"]]
  /\ UNCHANGED pc

Next ==
  \/ HearOn \/ HearNewFrame
  \/ DecodeFrame \/ MissFrame \/ DecodeFails \/ EndTick
  \/ Clear

Spec == Init /\ [][Next]_vars

-----------------------------------------------------------------------------
(* Properties. *)

(***************************************************************************)
(* The trim costs a frame only if it is, with the rest of the tick it ends *)
(* in, longer than half the buffer: wherever in the buffer it began, and   *)
(* however much noise has piled up in front of it.                         *)
(***************************************************************************)
CutOnlyIfLong ==
  \A k \in DOMAIN frames : frames[k].fate = "trimmed" => frames[k].size + TICK > Half + 1

(***************************************************************************)
(* What was not trimmed or cleared is in the buffer from its first sample  *)
(* on: taking a decoded frame out, or noise, leaves the next frame whole.  *)
(***************************************************************************)
KeptIsThere == \A k \in DOMAIN frames : frames[k].fate = "kept" => frames[k].since <= len
=============================================================================
