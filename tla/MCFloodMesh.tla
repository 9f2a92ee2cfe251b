---------------------------- MODULE MCFloodMesh -----------------------------
(***************************************************************************)
(* Small meshes for TLC: who hears whom, and what other programs send.     *)
(***************************************************************************)
EXTENDS FloodMesh

CONSTANTS a, b, c, d, g, h, i1, i2

Both(s, t) == {<<s, t>>, <<t, s>>}

Pair2 == Both(a, b)
Line3 == Both(a, b) \cup Both(b, c)
Line4 == Line3 \cup Both(c, d)

(* The simulated channel plays a frame back to the station that sent it. *)
EchoingLine == Line4 \cup {<<a, a>>}

Stray(dest, pid, hops, mqtt, our, isWhole, body) ==
  [to |-> dest, from |-> g, id |-> pid, hop_limit |-> hops, hop_start |-> 7,
   via_mqtt |-> mqtt, ours |-> our, whole |-> isWhole,
   payload |-> [nonce |-> <<g, pid>>, body |-> body]]

NoStrays == {}

(* A gateway's packet without our hash, and a good one under the same id;  *)
(* another channel's; a truncated frame; one whose body does not decode;   *)
(* one from a stranger to another.                                         *)
GatewayStrays ==
  {Stray(BROADCAST, i1, 1, TRUE, FALSE, TRUE, "nodeinfo"),
   Stray(b, i1, 7, FALSE, TRUE, TRUE, "text")}
NoiseStrays ==
  {Stray(BROADCAST, i1, 2, FALSE, FALSE, TRUE, "text"),
   Stray(BROADCAST, i1, 2, FALSE, TRUE, FALSE, "text")}
UndecodableStray == {Stray(BROADCAST, i1, 2, FALSE, TRUE, TRUE, "garbage")}
PassingStray == {Stray(h, i1, 2, FALSE, TRUE, TRUE, "text")}
AllStrays == GatewayStrays \cup NoiseStrays \cup UndecodableStray \cup PassingStray
=============================================================================
