----------------------------- MODULE Collections -----------------------------
(***************************************************************************)
(* Simo::Collections (include/Simo/collection/Collection.h,                *)
(* src/collection/Collection.cc): shared libraries found in folders,       *)
(* opened, and kept open by the CollectionWithLib that owns the handle.    *)
(*                                                                         *)
(* A file is what dlopen takes it for: two names of one inode are one      *)
(* file.  Reading its section headers is abstracted to what they say.      *)
(***************************************************************************)
EXTENDS Integers, FiniteSets, Sequences

CONSTANTS
    Files,      \* the files that can be met
    content,    \* what each file is
    Folders     \* the search paths, each the set of files in it

(* Not a library or one without the section, one that does not load, one   *)
(* without the function, a collection.                                     *)
Contents == {"noSection", "unloadable", "noFunction", "collection"}

ASSUME FilesAssumption ==
    /\ IsFiniteSet(Files) /\ content \in [Files -> Contents]
    /\ Folders \subseteq SUBSET Files

VARIABLES
    opened,    \* how often each file is open (the count dlopen keeps)
    entries,   \* of the folder being read, the files not yet visited
    found,     \* the collections of that folder so far
    held       \* the collections the program keeps

libraries == <<opened, entries, found, held>>

LibrariesInit ==
    /\ opened = [f \in Files |-> 0]
    /\ entries = {} /\ found = {} /\ held = {}

(* dlclose(), by the destructor of each of these collections. *)
Closed(fs) == [f \in Files |-> IF f \in fs THEN opened[f] - 1 ELSE opened[f]]

ReadFolder(folder) ==
    /\ entries = {} /\ found = {}
    /\ entries' = folder
    /\ UNCHANGED <<opened, found, held>>

(* Seeded fault: a library that is loaded already is opened once more. *)
BugLoadable(f) == content[f] = "collection"

(* simo_get_collection(): a file without the section, one that is loaded   *)
(* already, one that does not load and one without the function (opened    *)
(* and closed again) are all passed over, and nothing stays open.          *)
Loadable(f) == content[f] = "collection" /\ opened[f] = 0

GetCollection(f) ==
    /\ f \in entries
    /\ entries' = entries \ {f}
    /\ IF Loadable(f)
       THEN opened' = [opened EXCEPT ![f] = @ + 1] /\ found' = found \cup {f}
       ELSE UNCHANGED <<opened, found>>
    /\ UNCHANGED held

(* Seeded fault: the move constructor copies the handle. *)
BugMovedFromKeeps(fs) == fs

(* What a moved-from CollectionWithLib still owns. *)
MovedFromKeeps(fs) == {}

(* The folder's collections are moved into the program's vector, and the   *)
(* vector they came from is destroyed.                                     *)
KeepFound ==
    /\ entries = {} /\ found # {}
    /\ held' = held \cup found
    /\ opened' = Closed(MovedFromKeeps(found))
    /\ found' = {}
    /\ UNCHANGED entries

(* The program's vector is destroyed. *)
CloseLibraries ==
    /\ opened' = Closed(held)
    /\ held' = {}
    /\ UNCHANGED <<entries, found>>
=============================================================================
