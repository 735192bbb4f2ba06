----------------------------- MODULE MCCollector -----------------------------
EXTENDS Collector

(* A function that is a table: TLC looks it up rather than recomputing it. *)
Pow2Table == [i \in 0..NUM_BITS |-> 2^i]
=============================================================================
