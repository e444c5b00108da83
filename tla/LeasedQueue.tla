------------------------------- MODULE LeasedQueue -------------------------------
(***************************************************************************)
(* What a queue of leased jobs promises, whatever its rows look like: work *)
(* waits, is taken under a fresh lease, and ends once; only the holder of  *)
(* the current lease can turn work into a result.  A supervisor may end    *)
(* any lease, so holders of dead leases exist: all they can do is let go.  *)
(***************************************************************************)
CONSTANTS Item, Token, NoToken

VARIABLES
  phase, \* "none", "waiting", "leased" or "settled"
  lease, \* the token the row of a leased item carries, NoToken otherwise
  held,  \* the tokens that workers believe they hold
  offer  \* whether the result is offered: "none", "withdrawn" or "offered"

lqvars == <<phase, lease, held, offer>>

Init ==
  /\ phase \in [Item -> {"none", "waiting", "settled"}]
  /\ lease = [i \in Item |-> NoToken]
  /\ held = [i \in Item |-> {}]
  /\ offer = [i \in Item |-> "none"]

-----------------------------------------------------------------------------
(* What one item may do in a step.  Several items may move in one step.      *)

Same(i) == phase'[i] = phase[i] /\ lease'[i] = lease[i]

Enqueue(i) ==
  /\ phase[i] \in {"none", "settled"} /\ phase'[i] = "waiting"
  /\ lease'[i] = lease[i] /\ held'[i] = held[i]

Take(i) ==
  /\ phase[i] = "waiting" /\ phase'[i] = "leased"
  /\ lease'[i] \in Token \ held[i]
  /\ held'[i] = held[i] \cup {lease'[i]}

\* The holder of the current lease ends its work.
End(i) ==
  /\ phase[i] = "leased" /\ lease[i] \in held[i]
  /\ phase'[i] \in {"waiting", "settled"} /\ lease'[i] = NoToken
  /\ held'[i] = held[i] \ {lease[i]}

\* A holder lets go of a lease, current or dead, and changes nothing else.
LetGo(i) == Same(i) /\ held'[i] \subseteq held[i]

\* The supervisor ends a wait or a lease; its holder is not told.
Cancel(i) ==
  /\ \/ phase[i] = "leased" /\ phase'[i] \in {"waiting", "settled"}
     \/ phase[i] = "waiting" /\ phase'[i] = "settled"
  /\ lease'[i] = NoToken
  /\ held'[i] \in {held[i], {}}

\* Everything about an item is cleared while nobody works on it.
Clear(i) == phase'[i] = "none" /\ lease'[i] = NoToken /\ held[i] = {} /\ held'[i] = {}

\* A new result is offered only by the holder that ends the work; an offer can
\* be withdrawn, offered again, or lost.
Offer(i) ==
  \/ offer'[i] = offer[i]
  \/ offer'[i] = "none"
  \/ offer[i] = "offered" /\ offer'[i] = "withdrawn"
  \/ offer[i] = "withdrawn" /\ offer'[i] = "offered"
  \/ offer'[i] = "offered" /\ End(i) /\ phase'[i] = "settled"

Move(i) == (Enqueue(i) \/ Take(i) \/ End(i) \/ LetGo(i) \/ Cancel(i) \/ Clear(i)) /\ Offer(i)

Next == \A i \in Item : Move(i)

Spec == Init /\ [][Next]_lqvars
=============================================================================
