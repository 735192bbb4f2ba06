------------------------------- MODULE SimoSim -------------------------------
(***************************************************************************)
(* The program SimoSim (src/SimoSim/SimoSim.cc): it loads collections,     *)
(* reads a configuration, builds the modules it names, initializes and     *)
(* connects them, runs the simulation, and leaves through one of nine      *)
(* exits, from each of which main()'s locals are destroyed.                *)
(*                                                                         *)
(* The configuration is read entry by entry, any entry that is possible.   *)
(* A module type is the code of a library; what the simulation does when   *)
(* it runs is Context's business, not this module's.                       *)
(***************************************************************************)
EXTENDS Collections, PortKinds

CONSTANTS
    Core,         \* the built-in collection, which has no library
    provides,     \* the types in the factory list of each collection
    Types,        \* the types a configuration may name
    parameters,   \* the parameters of each type, with the value they start with
    ports,        \* the class of each port a type creates in initialize()
    Names,        \* the module names a configuration may use
    None,
    MaxFolders, MaxModules, MaxLinks   \* bounds: the lengths of the lists read

Value == {"unset", "valid", "invalid"}
PortNames == UNION {DOMAIN ports[t] : t \in Types}
Collections == Files \cup {Core}

ASSUME SimoSimAssumption ==
    /\ Core \notin Files
    /\ provides \in [Collections -> Seq(Types)]
    /\ \A t \in Types : parameters[t] \in [DOMAIN parameters[t] -> Value]
    /\ \A t \in Types : ports[t] \in [DOMAIN ports[t] -> Kinds]
    /\ None \notin Names \X PortNames
    /\ MaxFolders \in Nat /\ MaxModules \in Nat /\ MaxLinks \in Nat

VARIABLES
    pc,           \* where main() is
    folders,      \* how many search paths have been read
    specs,        \* the <<name, type>> of the module entries read
    moduleMap,    \* module_map: the modules that exist, by name: type, and collection the code is in
    values,       \* the parameters of those modules
    unrecognized, duplicate,  \* names in unrecognized_module_types, duplicate_module_names
    added,        \* the modules of the context, in order
    status,       \* what the initialization of each module returned, in order
    announced,    \* what print_system_ports() said: "ports", "no ports"
    links,        \* the connection entries read
    peer,         \* connecting_port of every port
    exitCode      \* what main() returns

building == <<specs, moduleMap, values, unrecognized, duplicate>>
context  == <<added, status>>
wiring   == <<links, peer>>
vars     == <<libraries, pc, folders, building, context, announced, wiring, exitCode>>

Endpoints == Names \X PortNames

Init ==
    /\ LibrariesInit
    /\ pc = "load" /\ folders = 0
    /\ specs = <<>> /\ moduleMap = <<>> /\ values = <<>>
    /\ unrecognized = {} /\ duplicate = {}
    /\ added = <<>> /\ status = <<>> /\ announced = None
    /\ links = <<>> /\ peer = [e \in Endpoints |-> None]
    /\ exitCode = None

Built == DOMAIN moduleMap

Leave(code) == pc' = "unwind" /\ exitCode' = code

-----------------------------------------------------------------------------
(* The collections.                                                        *)

SearchFolder(folder) ==
    /\ pc = "load" /\ folders < MaxFolders
    /\ ReadFolder(folder)
    /\ folders' = folders + 1
    /\ UNCHANGED <<pc, building, context, announced, wiring, exitCode>>

Load ==
    /\ pc = "load"
    /\ (\E f \in Files : GetCollection(f)) \/ KeepFound
    /\ UNCHANGED <<pc, folders, building, context, announced, wiring, exitCode>>

(* Every entry of every factory list; two of one type are too many. *)
Offer == UNION {{c} \X (1..Len(provides[c])) : c \in held \cup {Core}}
TypeOf(o) == provides[o[1]][o[2]]
KnownTypes == {TypeOf(o) : o \in Offer}
DuplicateTypes == \E o, q \in Offer : o # q /\ TypeOf(o) = TypeOf(q)

(* The type's factory, and the library whose code it is. *)
FactoryOf(t) == CHOOSE c \in held \cup {Core} : \E i \in 1..Len(provides[c]) : provides[c][i] = t

MapTypes ==
    /\ pc = "load" /\ entries = {} /\ found = {}
    /\ IF DuplicateTypes
       THEN Leave("DUPLICATE_TYPES")
       ELSE pc' = "config" /\ UNCHANGED exitCode
    /\ UNCHANGED <<libraries, folders, building, context, announced, wiring>>

ReadConfig(readable) ==
    /\ pc = "config"
    /\ IF readable
       THEN pc' = "build" /\ UNCHANGED exitCode
       ELSE Leave("INVALID_CONFIG_FILE")
    /\ UNCHANGED <<libraries, folders, building, context, announced, wiring>>

-----------------------------------------------------------------------------
(* The module entries of the configuration.                                *)

Module(t) == [type |-> t, code |-> FactoryOf(t)]

Put(f, x, y) == [z \in DOMAIN f \cup {x} |-> IF z = x THEN y ELSE f[z]]

(* Seeded fault: a second module of a name takes the place of the first. *)
BugBuildOver(n, t) ==
    IF t \notin KnownTypes
    THEN unrecognized' = unrecognized \cup {n} /\ UNCHANGED <<moduleMap, values, duplicate>>
    ELSE /\ moduleMap' = Put(moduleMap, n, Module(t)) /\ values' = Put(values, n, parameters[t])
         /\ UNCHANGED <<unrecognized, duplicate>>

Build(n, t) ==
    IF t \notin KnownTypes
    THEN unrecognized' = unrecognized \cup {n} /\ UNCHANGED <<moduleMap, values, duplicate>>
    ELSE IF n \in Built
    THEN duplicate' = duplicate \cup {n} /\ UNCHANGED <<moduleMap, values, unrecognized>>
    ELSE /\ moduleMap' = Put(moduleMap, n, Module(t)) /\ values' = Put(values, n, parameters[t])
         /\ UNCHANGED <<unrecognized, duplicate>>

ReadModule(n, t) ==
    /\ pc = "build" /\ Len(specs) < MaxModules
    /\ specs' = Append(specs, <<n, t>>)
    /\ Build(n, t)
    /\ UNCHANGED <<libraries, pc, folders, context, announced, wiring, exitCode>>

(* The entry just read built a module: it was not passed over. *)
JustBuilt(n) ==
    /\ specs # <<>> /\ specs[Len(specs)][1] = n /\ n \in Built
    /\ \A i \in 1..(Len(specs) - 1) : specs[i][1] = n => specs[i][2] \notin KnownTypes

(* A parameter entry of that module.  A name that is not a parameter is    *)
(* ignored; a value that does not parse leaves an unset parameter unset    *)
(* and a set one with whatever the parser left in it.                      *)
SetParameter(n, p, value) ==
    /\ pc = "build" /\ JustBuilt(n) /\ p \in DOMAIN values[n]
    /\ values' = [values EXCEPT ![n][p] = value]
    /\ UNCHANGED <<libraries, pc, folders, specs, moduleMap, unrecognized, duplicate,
                   context, announced, wiring, exitCode>>

ModulesRead ==
    /\ pc = "build"
    /\ IF unrecognized # {} THEN Leave("UNKNOWN_TYPES")
       ELSE IF duplicate # {} THEN Leave("DUPLICATE_MODULE_NAMES")
       ELSE pc' = "add" /\ UNCHANGED exitCode
    /\ UNCHANGED <<libraries, folders, building, context, announced, wiring>>

-----------------------------------------------------------------------------
(* The context.                                                            *)

InContext == {added[i] : i \in 1..Len(added)}

(* In the order of a hash table: any. *)
AddModule(n) ==
    /\ pc = "add" /\ n \in Built \ InContext
    /\ added' = Append(added, n)
    /\ UNCHANGED <<libraries, pc, folders, building, status, announced, wiring, exitCode>>

AllAdded ==
    /\ pc = "add" /\ InContext = Built
    /\ pc' = "initialize"
    /\ UNCHANGED <<libraries, folders, building, context, announced, wiring, exitCode>>

(* Seeded fault: a parameter that was never set passes. *)
BugCheck(n) == \A p \in DOMAIN values[n] : values[n][p] # "invalid"

(* Parameters::check(): every parameter has a value that its validator     *)
(* accepts.                                                                *)
Check(n) == \A p \in DOMAIN values[n] : values[n][p] = "valid"

(* Context::initialize() takes the modules in turn, failed ones or not.    *)
(* Module::initialize() checks the parameters, and the types are those     *)
(* that call it; a type may have reasons of its own to fail.               *)
InitializeModule(ok) ==
    /\ pc = "initialize" /\ Len(status) < Len(added)
    /\ ok => Check(added[Len(status) + 1])
    /\ status' = Append(status, ok)
    /\ UNCHANGED <<libraries, pc, folders, building, added, announced, wiring, exitCode>>

Initialized ==
    /\ pc = "initialize" /\ Len(status) = Len(added)
    /\ IF \A i \in 1..Len(status) : status[i]
       THEN pc' = "dump" /\ UNCHANGED exitCode
       ELSE Leave("INITIALIZATION_FAILED")
    /\ UNCHANGED <<libraries, folders, building, context, announced, wiring>>

-----------------------------------------------------------------------------
(* dump_parameters() and print_system_ports().                             *)

Unset == {n \in Built : \E p \in DOMAIN values[n] : values[n][p] = "unset"}

(* visit() hands the dump a null pointer for a parameter without a value,  *)
(* and the dump looks through it.                                          *)
DumpParameters(wanted) ==
    /\ pc = "dump"
    /\ pc' = IF wanted /\ Unset # {} THEN "undefined" ELSE "print"
    /\ UNCHANGED <<libraries, folders, building, context, announced, wiring, exitCode>>

(* get_unconnected_ports(): all of them, before the connections are made.  *)
Exposes(n) == DOMAIN ports[moduleMap[n].type] # {}

(* The modules in the same order as before; what the last one has decides. *)
PrintSystemPorts(wanted) ==
    /\ pc = "print"
    /\ announced' = IF ~wanted THEN None
                    ELSE IF added # <<>> /\ Exposes(added[Len(added)]) THEN "ports"
                    ELSE "no ports"
    /\ pc' = "connect"
    /\ UNCHANGED <<libraries, folders, building, context, wiring, exitCode>>

-----------------------------------------------------------------------------
(* The connection entries of the configuration.                            *)

(* The endpoint has the form module/port, and both exist. *)
Exists(e) == e # None /\ e[1] \in Built /\ e[2] \in DOMAIN ports[moduleMap[e[1]].type]
Kind(e) == ports[moduleMap[e[1]].type][e[2]]

(* Seeded fault: the answer of connect() is not looked at. *)
BugConnectUnasked(e, f) ==
    IF ~Exists(e) \/ ~Exists(f)
    THEN Leave("INVALID_CONNECTION") /\ UNCHANGED peer
    ELSE /\ peer' = IF Kind(f) \in Partners(Kind(e)) THEN Link(peer, e, f) ELSE peer
         /\ UNCHANGED <<pc, exitCode>>

(* connect() is asked of the left port.  All payloads are of one type.     *)
Connect(e, f) ==
    IF ~Exists(e) \/ ~Exists(f)
    THEN Leave("INVALID_CONNECTION") /\ UNCHANGED peer
    ELSE IF Kind(f) \notin Partners(Kind(e))
    THEN Leave("CONNECTION_FAILED") /\ UNCHANGED peer
    ELSE peer' = Link(peer, e, f) /\ UNCHANGED <<pc, exitCode>>

(* None is an endpoint that is not of the form. *)
ReadConnection(e, f) ==
    /\ pc = "connect" /\ Len(links) < MaxLinks
    /\ links' = Append(links, <<e, f>>)
    /\ Connect(e, f)
    /\ UNCHANGED <<libraries, folders, building, context, announced>>

(* What run_at() returns is not looked at.  A final time of zero fails its *)
(* assertion, in a build that has one.                                     *)
RunAt ==
    /\ pc = "connect"
    /\ Leave("SUCCESS") \/ (pc' = "aborted" /\ UNCHANGED exitCode)
    /\ UNCHANGED <<libraries, folders, building, context, announced, wiring>>

-----------------------------------------------------------------------------
(* main() is left: the context, then module_map, then the collections.     *)

DestroyContext ==
    /\ pc = "unwind"
    /\ added' = <<>>
    /\ pc' = "unwind modules"
    /\ UNCHANGED <<libraries, folders, building, status, announced, wiring, exitCode>>

(* Seeded fault: the collections are declared after module_map. *)
BugDestroyCollectionsFirst ==
    /\ pc = "unwind modules"
    /\ CloseLibraries
    /\ pc' = "unwind collections"
    /\ UNCHANGED <<folders, building, context, announced, wiring, exitCode>>

DestroyModules ==
    /\ pc = "unwind modules"
    /\ moduleMap' = <<>> /\ values' = <<>>
    /\ pc' = "unwind collections"
    /\ UNCHANGED <<libraries, folders, specs, unrecognized, duplicate, context, announced,
                   wiring, exitCode>>

DestroyCollections ==
    /\ pc = "unwind collections"
    /\ CloseLibraries
    /\ pc' = "exited"
    /\ UNCHANGED <<folders, building, context, announced, wiring, exitCode>>

Next ==
    \/ (\E folder \in Folders : SearchFolder(folder)) \/ Load \/ MapTypes
    \/ \E readable \in BOOLEAN : ReadConfig(readable)
    \/ \E n \in Names : \E t \in Types : ReadModule(n, t)
    \/ \E n \in Built : \E p \in DOMAIN values[n] : \E v \in {"valid", "invalid"} :
           SetParameter(n, p, v)
    \/ ModulesRead
    \/ (\E n \in Names : AddModule(n)) \/ AllAdded
    \/ (\E ok \in BOOLEAN : InitializeModule(ok)) \/ Initialized
    \/ \E wanted \in BOOLEAN : DumpParameters(wanted) \/ PrintSystemPorts(wanted)
    \/ \E e, f \in Endpoints \cup {None} : ReadConnection(e, f)
    \/ RunAt
    \/ DestroyContext \/ DestroyModules \/ DestroyCollections

Spec == Init /\ [][Next]_vars

-----------------------------------------------------------------------------
ExitCodes == {"DUPLICATE_TYPES", "INVALID_CONFIG_FILE", "UNKNOWN_TYPES",
              "DUPLICATE_MODULE_NAMES", "INITIALIZATION_FAILED", "INVALID_CONNECTION",
              "CONNECTION_FAILED", "SUCCESS"}

(* The locals of main() keep their types. *)
TypeOK ==
    /\ opened \in [Files -> Nat]
    /\ entries \subseteq Files /\ found \subseteq Files /\ held \subseteq Files
    /\ pc \in {"load", "config", "build", "add", "initialize", "dump", "print", "connect",
               "unwind", "unwind modules", "unwind collections", "exited", "aborted", "undefined"}
    /\ folders \in 0..MaxFolders
    /\ specs \in Seq(Names \X Types)
    /\ Built \subseteq Names /\ DOMAIN values = Built
    /\ \A n \in Built :
        /\ moduleMap[n] \in [type : Types, code : Collections]
        /\ values[n] \in [DOMAIN parameters[moduleMap[n].type] -> Value]
    /\ unrecognized \subseteq Names /\ duplicate \subseteq Names
    /\ added \in Seq(Names) /\ status \in Seq(BOOLEAN)
    /\ announced \in {None, "ports", "no ports"}
    /\ links \in Seq((Endpoints \cup {None}) \X (Endpoints \cup {None}))
    /\ peer \in [Endpoints -> Endpoints \cup {None}]
    /\ exitCode \in ExitCodes \cup {None}

(* Every library is open exactly as long as one collection object owns it: *)
(* whatever folders it is found in again, however the objects are moved,   *)
(* and by whichever exit main() is left.                                   *)
HandlesExact ==
    \A f \in Files : opened[f] = IF f \in held \cup found THEN 1 ELSE 0

(* The context knows no module that has been destroyed, and no module      *)
(* outlives the library its code is in.                                    *)
LifetimesNest ==
    /\ InContext \subseteq Built
    /\ \A n \in Built : moduleMap[n].code = Core \/ opened[moduleMap[n].code] > 0

(* Once connections are read, and so when the simulation starts, the       *)
(* context has each configured module once, of the type configured, with   *)
(* all its parameters set and accepted; before that the dump, which looks  *)
(* through a null pointer for a parameter without a value, meets none.     *)
ReadyToRun ==
    /\ pc # "undefined"
    /\ pc = "connect" =>
        /\ Len(added) = Len(specs) /\ InContext = Built
        /\ \A i \in 1..Len(specs) :
            /\ specs[i][1] \in Built /\ moduleMap[specs[i][1]].type = specs[i][2]
            /\ Check(specs[i][1])

Ends(k) == {links[k][1], links[k][2]}

(* When the simulation starts, every configured connection is in force,    *)
(* from both ends, unless a later one takes a port of it.                  *)
LinksInForce ==
    pc = "connect" =>
        \A k \in 1..Len(links) :
            (\A j \in (k+1)..Len(links) : Ends(j) \cap Ends(k) = {})
            => peer[links[k][1]] = links[k][2] /\ peer[links[k][2]] = links[k][1]

(* What the lists read so far have wrong with them, stage by stage. *)
TypesClash ==
    \E c, d \in held \cup {Core} : \E i \in 1..Len(provides[c]), j \in 1..Len(provides[d]) :
        <<c, i>> # <<d, j>> /\ provides[c][i] = provides[d][j]
TypeMissing ==
    \E k \in 1..Len(specs) : \A c \in held \cup {Core} :
        \A i \in 1..Len(provides[c]) : provides[c][i] # specs[k][2]
NameTwice == \E j, k \in 1..Len(specs) : j < k /\ specs[j][1] = specs[k][1]
SomeFailed == \E k \in 1..Len(status) : ~status[k]
Connectable ==
    {l \in Endpoints \X Endpoints :
        Exists(l[1]) /\ Exists(l[2]) /\ Kind(l[2]) \in Partners(Kind(l[1]))}
EndpointMissing == \E k \in 1..Len(links) : ~Exists(links[k][1]) \/ ~Exists(links[k][2])
SomeLinkFails   == \E k \in 1..Len(links) : links[k] \notin Connectable

(* The exit code names the first thing that is wrong, and SUCCESS means    *)
(* nothing is: no stage passes over what a later exit would blame on       *)
(* something else.                                                         *)
ExitCodeExact ==
    pc = "unwind" /\ exitCode # "INVALID_CONFIG_FILE" =>
        exitCode =
            IF TypesClash THEN "DUPLICATE_TYPES"
            ELSE IF TypeMissing THEN "UNKNOWN_TYPES"
            ELSE IF NameTwice THEN "DUPLICATE_MODULE_NAMES"
            ELSE IF SomeFailed THEN "INITIALIZATION_FAILED"
            ELSE IF EndpointMissing THEN "INVALID_CONNECTION"
            ELSE IF SomeLinkFails THEN "CONNECTION_FAILED"
            ELSE "SUCCESS"

(* SimoSim.cc: --print-ports prints the available ports; "No ports" is     *)
(* said of a system that has none.                                         *)
NoPortsMeansNone ==
    announced = "no ports" /\ pc = "connect" => \A n \in Built : ~Exposes(n)
=============================================================================
