------------------------------ MODULE Subsequence ------------------------------
(***************************************************************************)
(* What the filtering loops of the code leave of a slice (internal/config/ *)
(* manager.go, internal/logging/ringbuffer.go).  This is SelectSeq, by     *)
(* places and without its recursion, which the proofs could not follow.    *)
(***************************************************************************)
EXTENDS Naturals, Sequences, FiniteSets

(* How many of the places come no later than i.                            *)
Rank(places, i) == Cardinality({j \in places : j <= i})

(* The elements of seq at these places, in their order.                    *)
ElementsAt(seq, places) ==
  [n \in 1..Cardinality(places) |->
     seq[CHOOSE i \in places : Rank(places, i) = n]]
===============================================================================
