-------------------------------- MODULE Queues --------------------------------
(***************************************************************************)
(* Iterator::filter and VecDeque::retain: what is kept of a sequence, in   *)
(* its order.                                                              *)
(***************************************************************************)
EXTENDS Integers, Sequences, FiniteSets

(***************************************************************************)
(* The entries of a sequence at the places of a set.  The j-th place is    *)
(* the one with j places up to it.                                         *)
(***************************************************************************)
Rank(S, i) == Cardinality({k \in S : k <= i})

Picked(order, S) ==
  [j \in 1 .. Cardinality(S) |-> order[CHOOSE i \in S : Rank(S, i) = j]]

(***************************************************************************)
(* order.retain(|c| c != t): the queue without any copy of t.              *)
(***************************************************************************)
Kept(order, t) == {i \in DOMAIN order : order[i] # t}

Without(order, t) == Picked(order, Kept(order, t))
=============================================================================
