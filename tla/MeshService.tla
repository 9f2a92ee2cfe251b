---------------------------- MODULE MeshService -----------------------------
(***************************************************************************)
(* What the mesh promises its application, without frames, hops or rings:  *)
(* a station is handed a packet only if someone sent it, only if it was    *)
(* meant for that station or for all, and never twice under one packet     *)
(* identity. Nothing is promised about order, or that a packet arrives.    *)
(***************************************************************************)
EXTENDS Sequences

CONSTANTS
  Station,      \* who may be handed a packet
  Packet,       \* records with the fields from, to, id
  BROADCAST     \* the destination that is everyone

VARIABLES
  sent,         \* the packets sent so far
  inbox         \* station -> the packets it was handed, in order

Init ==
  /\ sent = {}
  /\ inbox = [s \in Station |-> <<>>]

Send ==
  /\ \E p \in Packet : sent' = sent \cup {p}
  /\ UNCHANGED inbox

HandedBefore(s, p) ==
  \E k \in DOMAIN inbox[s] : inbox[s][k].from = p.from /\ inbox[s][k].id = p.id

Deliver(s) ==
  /\ \E p \in sent :
       /\ p.to \in {s, BROADCAST}
       /\ ~HandedBefore(s, p)
       /\ inbox' = [inbox EXCEPT ![s] = Append(@, p)]
  /\ UNCHANGED sent

Next == Send \/ \E s \in Station : Deliver(s)

Spec == Init /\ [][Next]_<<sent, inbox>>
=============================================================================
