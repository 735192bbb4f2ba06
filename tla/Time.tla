--------------------------------- MODULE Time ---------------------------------
(***************************************************************************)
(* Simo::Time (include/Simo/core/Time.h): a number of picoseconds in one   *)
(* machine word, given in a unit and converted by a multiplication that    *)
(* wraps.                                                                  *)
(***************************************************************************)
EXTENDS Integers

CONSTANTS
    Size,   \* 2^64, the number of values of the word
    Kilo    \* 1000

(* enum Unit: PS, NS, US, MS, S. *)
Unit == 0..4

(* What a number is multiplied by to be one of picoseconds. *)
Scale ==
    [unit \in Unit |->
        CASE unit = 0 -> 1
          [] unit = 1 -> Kilo
          [] unit = 2 -> Kilo * Kilo
          [] unit = 3 -> Kilo * Kilo * Kilo
          [] unit = 4 -> Kilo * Kilo * Kilo * Kilo]

(* Seeded fault: every unit is taken for one step coarser than it is. *)
BugOf(time, unit) == (time * Kilo * Scale[unit]) % Size

(* The constructor. *)
Of(time, unit) == (time * Scale[unit]) % Size

(* A {time, unit} of a configuration. *)
Parsed(value) == Of(value[1], value[2])

(* What was written there. *)
Meant(value) == value[1] * Scale[value[2]]
=============================================================================
