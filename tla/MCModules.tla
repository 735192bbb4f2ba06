------------------------------ MODULE MCModules ------------------------------
EXTENDS Modules

(* A function that is a table: TLC looks it up rather than recomputing it. *)
Pow2Table == [i \in 0..NUM_BITS |-> 2^i]

(* Units of 1, 3 and 9 in a word of 8: zero, two, three, and a period of   *)
(* nine, which wraps to one.  "TRACE" is no level.                         *)
PeriodTable == {<<0, 0>>, <<2, 0>>, <<1, 1>>, <<1, 2>>}
Levels == {INFO, WARNING, WARNING + 1}

(* Players meet players of the same level, INFO or one that is none, and   *)
(* no function of main(); what set() puts in the place of a period is one  *)
(* the validator would refuse; levels vary where a period is accepted.     *)
Cast ==
    /\ (\E m \in Modules : Plays(m)) => \A m \in Modules : Plays(m)
    /\ \A m, q \in Modules : Plays(m) => level[m] = level[q] /\ level[m] # WARNING
    /\ \A m \in Modules : type[m] \in {"FirstModule"} \cup Players =>
          /\ ~validated[m] => Picoseconds(m) <= 1
          /\ ~validated[m] \/ ~Check(m) => level[m] = INFO
Company == Plays(1) => \A i \in 1..Len(task) : task[i] # None
MCInit == ModulesInit /\ Cast
MCSpec == MCInit /\ [][ModulesNext]_allVars
=============================================================================
