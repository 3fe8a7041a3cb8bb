-------------------------------- MODULE Queues --------------------------------
(***************************************************************************)
(* What two queues have in common: what is left of one when entries are     *)
(* taken out of it, wherever they are, and who is ahead of whom in it.      *)
(***************************************************************************)
EXTENDS Naturals, Sequences, FiniteSets

\* The rest of a queue, in its order.
Dequeued(q, S) ==
  LET rest  == {i \in DOMAIN q : q[i] \notin S}
      place == [i \in rest |-> Cardinality({j \in rest : j <= i})]
  IN  [n \in 1 .. Cardinality(rest) |-> q[CHOOSE i \in rest : place[i] = n]]

Ahead(q, x, y) == \E i, j \in DOMAIN q : i < j /\ q[i] = x /\ q[j] = y

===============================================================================
