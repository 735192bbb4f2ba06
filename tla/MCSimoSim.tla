------------------------------ MODULE MCSimoSim ------------------------------
EXTENDS SimoSim, TLC

(* Two collections, a copy of the first, and three files that are none. *)
FileNames == {"libA", "libB", "copyOfA", "notes", "broken", "empty"}
ContentTable == [f \in FileNames |->
    CASE f = "notes"  -> "noSection"
      [] f = "broken" -> "unloadable"
      [] f = "empty"  -> "noFunction"
      [] OTHER        -> "collection"]

(* libA is found again through a link in the second folder. *)
FolderSets == {{"libA", "notes", "empty"}, {"libA", "libB", "broken"}, {"copyOfA"}}

CoreModules == "core"
ProvidesTable == [c \in FileNames \cup {CoreModules} |->
    CASE c = "core"                -> <<"collector">>
      [] c \in {"libA", "copyOfA"} -> <<"source">>
      [] c = "libB"                -> <<"sink", "quiet">>
      [] OTHER                     -> <<>>]

TypeNames == {"collector", "source", "sink", "quiet", "misspelt"}
ParametersTable == [t \in TypeNames |->
    CASE t = "collector" -> [start |-> "unset"]
      [] t = "source"    -> [period |-> "valid"]
      [] OTHER           -> <<>>]
PortsTable == [t \in TypeNames |->
    CASE t = "source" -> [a |-> "out"]
      [] t = "sink"   -> [a |-> "in", b |-> "in"]
      [] OTHER        -> <<>>]

Symmetry == Permutations(Names)
=============================================================================
