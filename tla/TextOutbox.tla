----------------------------- MODULE TextOutbox -----------------------------
(***************************************************************************)
(* What the radio loop promises about typed texts, without the channel,    *)
(* the queue of the view model, modes and ticks: a text waits until it is  *)
(* transmitted or given up, the oldest first, and never comes back.        *)
(***************************************************************************)
EXTENDS Naturals, Sequences

VARIABLES
  typed,    \* how many texts have been typed; a text is named by its number
  waiting,  \* the texts nobody has decided about
  aired,    \* the texts handed to the PHY, in order
  dropped   \* the texts given up

vars == <<typed, waiting, aired, dropped>>

Init == typed = 0 /\ waiting = {} /\ aired = <<>> /\ dropped = {}

Type ==
  /\ typed' = typed + 1
  /\ waiting' = waiting \cup {typed + 1}
  /\ UNCHANGED <<aired, dropped>>

Oldest(t) == \A u \in waiting : t <= u

Transmit ==
  /\ \E t \in waiting :
       /\ Oldest(t)
       /\ aired' = Append(aired, t)
       /\ waiting' = waiting \ {t}
  /\ UNCHANGED <<typed, dropped>>

(* With a text go all that were typed before it. *)
GiveUp ==
  /\ \E t \in waiting :
       LET past == {u \in waiting : u <= t}
       IN dropped' = dropped \cup past /\ waiting' = waiting \ past
  /\ UNCHANGED <<typed, aired>>

Next == Type \/ Transmit \/ GiveUp

Spec == Init /\ [][Next]_vars
=============================================================================
