------------------------------ MODULE MCContext ------------------------------
(* Instances of Context for TLC: ticks of a few bits. *)
EXTENDS Context

Pow2Table == [i \in 0..NUM_BITS |-> 2^i]
=============================================================================
