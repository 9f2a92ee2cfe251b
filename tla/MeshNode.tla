------------------------------ MODULE MeshNode ------------------------------
(***************************************************************************)
(* One station's protocol stack as pure operators: the frame header of     *)
(* mac/packet.rs, the keystream of mac/crypto.rs, the dedup ring and the   *)
(* routing decision of mesh/router.rs, and the receive path of app.rs.     *)
(* FloodMesh puts stations that use these operators on the air.            *)
(*                                                                         *)
(* Payload bytes are abstracted to what the receive path tells apart: does *)
(* the decrypted body parse as a Data message, and on which port.          *)
(***************************************************************************)
EXTENDS Naturals, Sequences

CONSTANTS
  Station,          \* the nodes that run this program
  Stranger,         \* the senders that do not (another program, a gateway)
  BROADCAST,        \* the destination 0xFFFFFFFF
  PacketId,         \* the values of the 32-bit packet id
  DEDUP_CAPACITY,   \* entries of the dedup ring (50 in the code)
  HOP_LIMIT         \* hop_limit and hop_start of a new packet (3 in the code)

ASSUME SenderAssumption == Station \cap Stranger = {}
ASSUME BroadcastAssumption == BROADCAST \notin Station \cup Stranger
ASSUME CapacityAssumption == DEDUP_CAPACITY \in Nat \ {0}
ASSUME HopLimitAssumption == HOP_LIMIT \in 0 .. 7

Sender == Station \cup Stranger
Destination == Sender \cup {BROADCAST}

(* What Data::decode makes of a body: a text, a node info, or an error. *)
Body == {"text", "nodeinfo", "garbage"}

(* The identity of a packet: the dedup key and the keystream nonce. *)
Pair == Sender \X PacketId

(* A ciphertext: the nonce it was made with and the body inside. *)
Payload == [nonce : Pair, body : Body]

(***************************************************************************)
(* A frame as MeshFrame::from_bytes sees it. "whole" is false for fewer    *)
(* than 16 bytes; "ours" is channel_hash = this channel's hash. want_ack   *)
(* is never read after the header is decoded and is left out.              *)
(***************************************************************************)
Frame == [to : Destination, from : Sender, id : PacketId,
          hop_limit : 0 .. 7, hop_start : 0 .. 7,
          via_mqtt : BOOLEAN, ours : BOOLEAN, whole : BOOLEAN,
          payload : Payload]

PairOf(f) == <<f.from, f.id>>

(* The header's flag byte carries each hop field in three bits. *)
OnTheWire(f) == [f EXCEPT !.hop_limit = @ % 8, !.hop_start = @ % 8]

Encrypt(pair, body) == [nonce |-> pair, body |-> body]

(* AES-CTR under another (id, from) yields noise, which does not parse. *)
Decrypt(pair, payload) ==
  IF payload.nonce = pair THEN payload.body ELSE "garbage"

BodyOf(f) == Decrypt(PairOf(f), f.payload)

BuildFrame(me, dest, pid, body) ==
  [to |-> dest, from |-> me, id |-> pid,
   hop_limit |-> HOP_LIMIT, hop_start |-> HOP_LIMIT,
   via_mqtt |-> FALSE, ours |-> TRUE, whole |-> TRUE,
   payload |-> Encrypt(<<me, pid>>, body)]

(* The frame reaches the router: long enough, and on our channel. *)
Accepts(f) == f.whole /\ (f.via_mqtt \/ f.ours)

(***************************************************************************)
(* The dedup ring: a FIFO of at most DEDUP_CAPACITY pairs.                 *)
(***************************************************************************)
(* Mutant: the scan starts one entry late. *)
SeenSkipsOldest(ring, pair) == \E k \in 2 .. Len(ring) : ring[k] = pair

Seen(ring, pair) == \E k \in 1 .. Len(ring) : ring[k] = pair

(* Mutant: a full ring takes nothing new. *)
InsertWhenRoom(ring, pair) ==
  IF Len(ring) = DEDUP_CAPACITY THEN ring ELSE Append(ring, pair)

Insert(ring, pair) ==
  Append(IF Len(ring) = DEDUP_CAPACITY THEN Tail(ring) ELSE ring, pair)

(***************************************************************************)
(* The routing decision and what process_rx_frame makes of it. A body that *)
(* does not decode ends the call with an error, and with it the relay.     *)
(***************************************************************************)
ForUs(me, f) == f.to \in {me, BROADCAST}

Decodes(f) == BodyOf(f) # "garbage"

(* Mutant: the destination is not looked at. *)
DeliversToAll(me, f) == Decodes(f)

Delivers(me, f) == ForUs(me, f) /\ Decodes(f)

(* Mutants: an echo of an own packet is relayed; the last hop is kept. *)
RelaysOwn(me, f) == f.hop_limit > 0 /\ (ForUs(me, f) => Decodes(f))
RelaysKeepsLastHop(me, f) ==
  f.hop_limit > 1 /\ f.from # me /\ (ForUs(me, f) => Decodes(f))

Relays(me, f) ==
  /\ f.hop_limit > 0
  /\ f.from # me
  /\ ForUs(me, f) => Decodes(f)

(* Mutant: only a broadcast spends a hop. *)
RelayedUnspent(f) ==
  IF f.to = BROADCAST THEN [f EXCEPT !.hop_limit = @ - 1] ELSE f

Relayed(f) == [f EXCEPT !.hop_limit = @ - 1]

(* The packet inside a frame, as it was meant by its sender. *)
PacketOf(f) == [from |-> f.from, to |-> f.to, id |-> f.id, body |-> BodyOf(f)]

Packet == [from : Sender, to : Destination, id : PacketId, body : Body]

(* Mutants: any message makes a neighbour; the destination is recorded. *)
UpdateNeighboursAlways(table, me, f) == table \cup {f.from}
UpdateNeighboursTo(table, me, f) ==
  IF Delivers(me, f) /\ BodyOf(f) = "nodeinfo" THEN table \cup {f.to} ELSE table

(* A NODEINFO_APP message names its sender as a neighbour. *)
UpdateNeighbours(table, me, f) ==
  IF Delivers(me, f) /\ BodyOf(f) = "nodeinfo" THEN table \cup {f.from} ELSE table
=============================================================================
