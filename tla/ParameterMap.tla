----------------------------- MODULE ParameterMap -----------------------------
(***************************************************************************)
(* What a set of parameters is to its user: a map from paths to parameters *)
(* of which each call changes the one it names, and of which the part      *)
(* under a path can be copied.                                             *)
(***************************************************************************)
EXTENDS Sequences

CONSTANTS Objects,   \* the sets of parameters
          Paths,     \* sequences of names, the root <<>> among them
          Value,     \* what a parameter can be given
          Default,   \* the value of a parameter that was given none
          None

VARIABLES map,       \* for each object, the parameter at each path that has one
          call       \* the last call: <<method, object, path, argument>>

vars == <<map, call>>

Init == map = [o \in Objects |-> <<>>] /\ call = <<"none", None, <<>>, None>>

Put(f, x, y) == [z \in DOMAIN f \cup {x} |-> IF z = x THEN y ELSE f[z]]

(* The object has the parameter at the path now, and is else unchanged.    *)
Set(o, path, p) == map' = [map EXCEPT ![o] = Put(@, path, p)]

Add(o, path, v) ==
    /\ call' = <<"add", o, path, v>>
    /\ Set(o, path, [has |-> TRUE, value |-> v, validated |-> FALSE])

AddUnset(o, path) ==
    /\ call' = <<"add_unset", o, path, None>>
    /\ Set(o, path, [has |-> FALSE, value |-> Default, validated |-> FALSE])

(* The calls on a parameter that is there. *)
Validator(o, path) ==
    /\ call' = <<"validator", o, path, None>> /\ path \in DOMAIN map[o]
    /\ Set(o, path, [map[o][path] EXCEPT !.validated = TRUE])

SetValue(o, path, v, ok) ==
    /\ call' = <<"value", o, path, <<v, ok>>>> /\ path \in DOMAIN map[o]
    /\ Set(o, path, [map[o][path] EXCEPT !.value = v, !.has = @ \/ ok])

HasValue(o, path, new) ==
    /\ call' = <<"has_value", o, path, new>> /\ path \in DOMAIN map[o]
    /\ Set(o, path, [map[o][path] EXCEPT !.has = new])

(* A copy has the value and nothing else: it counts as set, and nobody     *)
(* validates it any more.                                                  *)
Copied(p) == [has |-> TRUE, value |-> p.value, validated |-> FALSE]

(* What is in the part of f at path replaces what is in g; the rest of g   *)
(* stays.                                                                  *)
Overlay(g, f, path) ==
    LET part == {x \in Paths : path \o x \in DOMAIN f}
    IN  [x \in DOMAIN g \cup part |-> IF x \in part THEN Copied(f[path \o x]) ELSE g[x]]

Fetch(from, path, to) ==
    /\ call' = <<"get_subtree", to, path, from>>
    /\ map' = [map EXCEPT ![to] = Overlay(<<>>, map[from], path)]

Assign(from, to) ==
    /\ call' = <<"operator=", to, <<>>, from>>
    /\ map' = [map EXCEPT ![to] = Overlay(map[to], map[from], <<>>)]

Next ==
    \/ \E o \in Objects, path \in Paths :
        \/ \E v \in Value : Add(o, path, v) \/ \E ok \in BOOLEAN : SetValue(o, path, v, ok)
        \/ AddUnset(o, path) \/ Validator(o, path)
        \/ \E new \in BOOLEAN : HasValue(o, path, new)
    \/ \E from, to \in Objects : Assign(from, to) \/ \E path \in Paths : Fetch(from, path, to)

Spec == Init /\ [][Next]_vars
=============================================================================
