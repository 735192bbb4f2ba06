------------------------------ MODULE Parameters ------------------------------
(***************************************************************************)
(* Simo::Parameters (include/Simo/module/Module.h, src/module/Module.cc)   *)
(* on its ParameterTrie and ParameterTyped (include/Simo/parameter/).      *)
(*                                                                         *)
(* A module type declares parameters, a program sets them by name, checks  *)
(* them, copies them and fetches parts of them, in any order.  A name is   *)
(* the sequence of what stands between its separators: the name "a/" is    *)
(* <<"a", Blank>> and the empty name <<Blank>>.  The type of a parameter   *)
(* is left out, and its value is one its validator accepts or refuses.     *)
(***************************************************************************)
EXTENDS Integers, SequencesExt

CONSTANTS
    Objects,    \* the sets of parameters that live at one time
    Parts,      \* what a name is made of
    Blank,      \* the part that has no characters
    MaxParts,   \* bound: how many parts a path has
    Names,      \* the names used
    Default,    \* the value of a parameter of which none was given
    None,
    MaxCalls    \* bound: calls in all

Value  == {"accepted", "refused"}
Params == [has : BOOLEAN, value : Value, validated : BOOLEAN]

EmptyName == <<Blank>>

(* A path, and the names that spell it: one separator at the end of a name *)
(* means nothing.                                                          *)
Path == UNION {[1..n -> Parts] : n \in 0..MaxParts}
Name == {Append(path, Blank) : path \in Path} \cup (Path \ {<<>>})

PathOf(name) == IF Last(name) = Blank THEN Front(name) ELSE name

(* A node owns its parameter, if any, and its children: Trees[d] has the   *)
(* tries of at most d levels.                                              *)
Trees[d \in Nat] ==
    IF d = 0 THEN {}
    ELSE [value : Params \cup {None}, children : [Parts -> Trees[d - 1] \cup {None}]]

Trie == Trees[MaxParts + 1]

ASSUME ParametersAssumption ==
    /\ Blank \in Parts /\ MaxParts \in Nat
    /\ Names \subseteq Name /\ EmptyName \in Names
    /\ Default \in Value /\ MaxCalls \in Nat
    /\ None \notin Params /\ None \notin Trie

VARIABLES trie,    \* the trie of each object
          calls,
          call     \* history: the last call, <<method, object, name, argument>>

vars == <<trie, calls, call>>

-----------------------------------------------------------------------------
(* ParameterTrie.                                                          *)

EmptyTrie == [value |-> None, children |-> [c \in Parts |-> None]]

(* split_string_view(): the first part of a name, and what follows it.     *)
Rest(name) == IF Len(name) = 1 THEN EmptyName ELSE Tail(name)

(* Seeded fault: children[] always makes a new node. *)
BugChildOf(t, part) == EmptyTrie

ChildOf(t, part) == IF t.children[part] = None THEN EmptyTrie ELSE t.children[part]

Sub[name \in Name] == [t \in Trie |->
    IF name = EmptyName THEN t
    ELSE IF t.children[Head(name)] = None THEN None
    ELSE Sub[Rest(name)][t.children[Head(name)]]]

GetSubtrie(t, name) == Sub[name][t]

Find(t, name) ==
    LET node == GetSubtrie(t, name) IN IF node = None THEN None ELSE node.value

Added[name \in Name] == [t \in Trie |-> [p \in Params |->
    IF name = EmptyName THEN [t EXCEPT !.value = p]
    ELSE [t EXCEPT !.children[Head(name)] = Added[Rest(name)][ChildOf(t, Head(name))][p]]]]

(* Seeded fault: that nothing follows the last separator is not looked at. *)
BugAdded[name \in Name] == [t \in Trie |-> [p \in Params |->
    LET child == ChildOf(t, Head(name))
    IN  [t EXCEPT !.children[Head(name)] =
            IF Len(name) = 1 THEN [child EXCEPT !.value = p] ELSE BugAdded[Tail(name)][child][p]]]]

BugAddGeneric(t, name, p) == BugAdded[name][t][p]

AddGeneric(t, name, p) == Added[name][t][p]

Named(name, c) == IF name = EmptyName THEN <<c>> ELSE Append(name, c)

(* all() and visit() walk the trie: each parameter, under the name that    *)
(* visit() makes up for it; an empty part at the beginning of it is lost.  *)
Visited[t \in Trie] == [name \in Seq(Parts) |->
    (IF t.value = None THEN {} ELSE {<<name, t.value>>})
    \cup UNION {IF t.children[c] = None THEN {} ELSE Visited[t.children[c]][Named(name, c)]
                : c \in Parts}]

(* What visit() shows of a parameter: nothing, if it is not set. *)
Shown(p) == IF p.has THEN p ELSE None

Visit(t) == {<<v[1], Shown(v[2])>> : v \in Visited[t][EmptyName]}

Valid(p) == p.has /\ (p.validated => p.value = "accepted")

(* Seeded fault: a parameter that is not set passes the check. *)
BugAllValid(t) == \A v \in Visited[t][EmptyName] : v[2].has => Valid(v[2])

AllValid(t) == \A v \in Visited[t][EmptyName] : Valid(v[2])

(* clone() hands on the value alone: the copy counts as set, and has no    *)
(* validator.                                                              *)
Clone(p) == [has |-> TRUE, value |-> p.value, validated |-> FALSE]

(* operator=: what other has not stays.                                    *)
Merged[other \in Trie] == [t \in Trie |->
    [value    |-> IF other.value = None THEN t.value ELSE Clone(other.value),
     children |-> [c \in Parts |->
         IF other.children[c] = None THEN t.children[c]
         ELSE Merged[other.children[c]][ChildOf(t, c)]]]]

Assigned(t, other) == Merged[other][t]

-----------------------------------------------------------------------------
Init ==
    /\ trie = [o \in Objects |-> EmptyTrie] /\ calls = 0
    /\ call = <<"none", None, EmptyName, None>>

Becomes(o, t) ==
    /\ calls < MaxCalls /\ calls' = calls + 1
    /\ trie' = [trie EXCEPT ![o] = t]

(* Parameters::set() is the same: whatever was at the name, its validator  *)
(* with it, is replaced.                                                   *)
Add(o, name, v) ==
    /\ call' = <<"add", o, name, v>>
    /\ Becomes(o, AddGeneric(trie[o], name, [has |-> TRUE, value |-> v, validated |-> FALSE]))

AddUnset(o, name) ==
    /\ call' = <<"add_unset", o, name, None>>
    /\ Becomes(o, AddGeneric(trie[o], name, [has |-> FALSE, value |-> Default, validated |-> FALSE]))

(* Through the pointer that find() returns. *)
Modify(o, name, p) == Becomes(o, AddGeneric(trie[o], name, p))

Validator(o, name) ==
    LET p == Find(trie[o], name)
    IN  /\ p # None /\ call' = <<"validator", o, name, None>>
        /\ Modify(o, name, [p EXCEPT !.validated = TRUE])

(* value(), and value_from_generic(), which may leave any value behind     *)
(* when it fails.                                                          *)
SetValue(o, name, v, ok) ==
    LET p == Find(trie[o], name)
    IN  /\ p # None /\ call' = <<"value", o, name, <<v, ok>>>>
        /\ Modify(o, name, [p EXCEPT !.value = v, !.has = @ \/ ok])

HasValue(o, name, new) ==
    LET p == Find(trie[o], name)
    IN  /\ p # None /\ call' = <<"has_value", o, name, new>>
        /\ Modify(o, name, [p EXCEPT !.has = new])

(* get_subtree() into a new object; for the empty name this is the copy    *)
(* constructor.                                                            *)
GetSubtree(from, name, to) ==
    LET part == GetSubtrie(trie[from], name)
    IN  /\ from # to /\ part # None /\ call' = <<"get_subtree", to, name, from>>
        /\ Becomes(to, Assigned(EmptyTrie, part))

Assign(from, to) ==
    /\ call' = <<"operator=", to, EmptyName, from>>
    /\ Becomes(to, Assigned(trie[to], trie[from]))

Next ==
    \/ \E o \in Objects, name \in Names :
        \/ \E v \in Value : Add(o, name, v) \/ \E ok \in BOOLEAN : SetValue(o, name, v, ok)
        \/ AddUnset(o, name) \/ Validator(o, name)
        \/ \E new \in BOOLEAN : HasValue(o, name, new)
    \/ \E from, to \in Objects : Assign(from, to) \/ \E name \in Names : GetSubtree(from, name, to)

Spec == Init /\ [][Next]_vars

-----------------------------------------------------------------------------
(* A trie as a map: what find() answers for each path, spelled with a      *)
(* separator after every part.                                             *)
At(t, path) == Find(t, Append(path, Blank))
MapOf(t)    == LET at == [path \in Path |-> At(t, path)]
               IN  [path \in {x \in Path : at[x] # None} |-> at[path]]

(* Every trie has the shape of its declaration, and no more levels than    *)
(* the names have parts.                                                   *)
TypeOK == trie \in [Objects -> Trie] /\ calls \in 0..MaxCalls

PM == INSTANCE ParameterMap WITH
        Paths <- Path, map <- [o \in Objects |-> MapOf(trie[o])],
        call <- <<call[1], call[2], PathOf(call[3]), call[4]>>

(* Nodes, separators and merges included, the trie implements a map: each  *)
(* call changes the one parameter it names to what it was given, whatever  *)
(* else is above, below or beside it, and a copy, or the part of an object *)
(* under a name, has what the original has there.                          *)
ImplementsParameterMap == PM!Spec

(* What the readers say of the trie is what the map holds: find() by any   *)
(* spelling of a path, check() of all of them, and visit(), which shows    *)
(* every parameter and, unless a part of its name is empty, by that name.  *)
ReadsAgree ==
    \A o \in Objects : LET map == MapOf(trie[o]) IN
        /\ \A n \in Name :
            Find(trie[o], n) = IF PathOf(n) \in DOMAIN map THEN map[PathOf(n)] ELSE None
        /\ AllValid(trie[o]) = \A x \in DOMAIN map : Valid(map[x])
        /\ {shown[2] : shown \in Visit(trie[o])} = {Shown(map[x]) : x \in DOMAIN map}
        /\ \A x \in DOMAIN map : Blank \notin ToSet(x) =>
            <<IF x = <<>> THEN EmptyName ELSE x, Shown(map[x])>> \in Visit(trie[o])
=============================================================================
