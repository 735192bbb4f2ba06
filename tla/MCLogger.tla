------------------------------ MODULE MCLogger ------------------------------
(* Instances of Logger for TLC: loggers and paths are interchangeable. *)
EXTENDS Logger, TLC

Symmetry == Permutations(Loggers) \cup Permutations(Paths)
=============================================================================
