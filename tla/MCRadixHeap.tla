----------------------------- MODULE MCRadixHeap -----------------------------
(* Instances of RadixHeap for TLC: ticks of a few bits. *)
EXTENDS RadixHeap

Pow2Table == [i \in 0..NUM_BITS |-> 2^i]
=============================================================================
