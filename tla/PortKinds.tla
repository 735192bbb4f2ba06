------------------------------ MODULE PortKinds ------------------------------
(***************************************************************************)
(* The port classes of include/Simo/port/Port.h and which of them connect, *)
(* shared by the ports themselves (Ports) and by the program that connects *)
(* those a configuration names (SimoSim).                                  *)
(***************************************************************************)

Kinds == {"out", "in", "callbackOut", "callbackIn", "contractOut", "contractIn"}

(* Seeded fault: a contract port casts to the callback base class. *)
BugPartnersOfBase(k) ==
    CASE k = "out"         -> {"in"}
      [] k = "in"          -> {"out"}
      [] k \in {"callbackOut", "contractOut"} -> {"callbackIn", "contractIn"}
      [] k \in {"callbackIn", "contractIn"}   -> {"callbackOut", "contractOut"}

(* The classes to which the runtime_cast of each connect() succeeds: a     *)
(* contract port is also a callback port, not the other way round.         *)
Partners(k) ==
    CASE k = "out"         -> {"in"}
      [] k = "in"          -> {"out"}
      [] k = "callbackOut" -> {"callbackIn", "contractIn"}
      [] k = "callbackIn"  -> {"callbackOut", "contractOut"}
      [] k = "contractOut" -> {"contractIn"}
      [] k = "contractIn"  -> {"contractOut"}

(* Seeded fault: the other side is not told. *)
BugLinkOneWay(f, p, q) == [f EXCEPT ![p] = q]

(* Both sides of a new connection name each other. *)
Link(f, p, q) == [f EXCEPT ![p] = q, ![q] = p]
=============================================================================
