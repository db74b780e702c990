---------------------------- MODULE Subsequences ----------------------------
(***************************************************************************)
(* What a sequence has at some of its places, in order.  SelectSeq gives   *)
(* the same for a test of the elements; here it is defined by counting, so *)
(* that what it gives can be proved without an induction over sequences.   *)
(***************************************************************************)
EXTENDS Integers, Sequences, FiniteSets

(* How many of the places K are not above i; the place that is the kth.    *)
Rank(K, i) == Cardinality({j \in K : j <= i})
Place(K, k) == CHOOSE i \in K : Rank(K, i) = k

AtPlaces(s, K) == [k \in 1..Cardinality(K) |-> s[Place(K, k)]]
=============================================================================
