----------------------------- MODULE SimoSimProofs -----------------------------
(***************************************************************************)
(* SimoSim is correct for any collections, any configuration of any length *)
(* and any number of search paths.  Each named part below says what a      *)
(* stage of main() leaves behind for the stages after it.                  *)
(***************************************************************************)
EXTENDS SimoSim, FiniteSetTheorems, SequenceTheorems, TLAPS

Loading      == {"load", "config"}
Assembling   == {"build", "add"}
Operating    == {"initialize", "dump", "print", "connect"}
Standing     == Loading \cup Assembling \cup Operating \cup {"unwind"}

(* What a connection entry may say. *)
Entry == (Endpoints \cup {None}) \X (Endpoints \cup {None})

(* The libraries. *)
Handles == HandlesExact /\ (pc # "load" => entries = {} /\ found = {})

(* Before its stage, a list is empty. *)
Fresh ==
    /\ pc \in Loading => specs = <<>> /\ Built = {} /\ unrecognized = {} /\ duplicate = {}
    /\ pc \in Loading \cup {"build"} => added = <<>>
    /\ pc \in Loading \cup Assembling => status = <<>>
    /\ pc \in Loading \cup Assembling \cup {"initialize", "dump", "print"} => links = <<>>
    /\ pc \in {"unwind modules", "unwind collections", "exited"} => added = <<>>
    /\ pc \in {"unwind collections", "exited"} => Built = {}

(* The code of a module is in a library that is kept. *)
CodeKept == \A n \in Built : moduleMap[n].code \in held \cup {Core}

(* What the entries read have come to. *)
EntriesRead ==
    pc \in Standing =>
        /\ unrecognized = {specs[k][1] : k \in {i \in 1..Len(specs) : specs[i][2] \notin KnownTypes}}
        /\ Built \subseteq {specs[k][1] : k \in 1..Len(specs)}
        /\ duplicate # {} => NameTwice
        /\ unrecognized = {} /\ duplicate = {} =>
            /\ ~NameTwice
            /\ \A k \in 1..Len(specs) :
                specs[k][1] \in Built /\ moduleMap[specs[k][1]].type = specs[k][2]
            /\ IsFiniteSet(Built) /\ Cardinality(Built) = Len(specs)

(* Past a stage, what would have made it leave is not there. *)
Passed ==
    /\ pc \in {"config"} \cup Assembling \cup Operating => ~DuplicateTypes
    /\ pc \in {"add"} \cup Operating => unrecognized = {} /\ duplicate = {}

(* The context's list of modules, and what they returned. *)
Listed ==
    /\ InContext \subseteq Built
    /\ IsFiniteSet(InContext) /\ Cardinality(InContext) = Len(added)
    /\ pc \in Operating => InContext = Built
    /\ pc \in Operating => Len(status) <= Len(added)
    /\ pc \in Operating => \A k \in 1..Len(status) : status[k] => Check(added[k])
    /\ pc \in Operating \ {"initialize"} =>
        Len(status) = Len(added) /\ \A k \in 1..Len(status) : status[k]
    /\ pc # "undefined"

(* The connections. *)
Linked == pc = "connect" => links \in Seq(Connectable) /\ LinksInForce

IInv ==
    /\ TypeOK /\ Handles /\ Fresh /\ CodeKept /\ EntriesRead
    /\ Passed /\ Listed /\ Linked /\ ExitCodeExact

-----------------------------------------------------------------------------
(* An empty map of modules has none.                                       *)
LEMMA NothingBuilt == DOMAIN <<>> = {}
<1>1. <<>> \in Seq({}) /\ Len(<<>>) = 0
  BY EmptySeq
<1>2. DOMAIN <<>> = 1..0
  BY <1>1, LenProperties
<1>3. QED BY <1>2

(* Who changes what: apart from these, an action leaves the libraries, the *)
(* modules read, the context, the connections alone.                       *)
LEMMA LibrariesFrame ==
    Next => \/ \E folder \in Folders : SearchFolder(folder)
            \/ Load
            \/ DestroyCollections
            \/ UNCHANGED libraries
  BY DEF Next, MapTypes, ReadConfig, ReadModule, SetParameter, ModulesRead, AddModule, AllAdded,
         InitializeModule, Initialized, DumpParameters, PrintSystemPorts, ReadConnection, RunAt,
         DestroyContext, DestroyModules

LEMMA BuildingFrame ==
    Next => \/ \E n \in Names : \E t \in Types : ReadModule(n, t)
            \/ \E n \in Built : \E p \in DOMAIN values[n] : \E v \in {"valid", "invalid"} :
                   SetParameter(n, p, v)
            \/ DestroyModules
            \/ UNCHANGED building
  BY DEF Next, SearchFolder, Load, MapTypes, ReadConfig, ModulesRead, AddModule, AllAdded,
         InitializeModule, Initialized, DumpParameters, PrintSystemPorts, ReadConnection, RunAt,
         DestroyContext, DestroyCollections

LEMMA ContextFrame ==
    Next => \/ \E n \in Names : AddModule(n)
            \/ \E ok \in BOOLEAN : InitializeModule(ok)
            \/ DestroyContext
            \/ UNCHANGED context
  BY DEF Next, SearchFolder, Load, MapTypes, ReadConfig, ReadModule, SetParameter, ModulesRead,
         AllAdded, Initialized, DumpParameters, PrintSystemPorts, ReadConnection, RunAt,
         DestroyModules, DestroyCollections, context

LEMMA WiringFrame ==
    Next => \/ \E e, f \in Endpoints \cup {None} : ReadConnection(e, f)
            \/ UNCHANGED wiring
  BY DEF Next, SearchFolder, Load, MapTypes, ReadConfig, ReadModule, SetParameter, ModulesRead,
         AddModule, AllAdded, InitializeModule, Initialized, DumpParameters, PrintSystemPorts,
         RunAt, DestroyContext, DestroyModules, DestroyCollections

(* main() goes from stage to stage, each at its end. *)
Stage(from, to) == pc = from /\ pc' = to

LEMMA Stages ==
    Next =>
        \/ pc' = pc
        \/ Stage("load", "unwind") /\ MapTypes
        \/ Stage("load", "config") /\ MapTypes
        \/ Stage("config", "unwind") /\ exitCode' = "INVALID_CONFIG_FILE"
        \/ Stage("config", "build")
        \/ Stage("build", "unwind") /\ ModulesRead
        \/ Stage("build", "add") /\ ModulesRead
        \/ Stage("add", "initialize") /\ AllAdded
        \/ Stage("initialize", "dump") /\ Initialized
        \/ Stage("initialize", "unwind") /\ Initialized
        \/ Stage("dump", "print") /\ (\E wanted \in BOOLEAN : DumpParameters(wanted))
        \/ Stage("dump", "undefined") /\ (\E wanted \in BOOLEAN : DumpParameters(wanted))
        \/ Stage("print", "connect")
        \/ Stage("connect", "unwind")
                /\ (RunAt \/ \E e, f \in Endpoints \cup {None} : ReadConnection(e, f))
        \/ Stage("connect", "aborted") /\ RunAt
        \/ Stage("unwind", "unwind modules") /\ DestroyContext
        \/ Stage("unwind modules", "unwind collections") /\ DestroyModules
        \/ Stage("unwind collections", "exited") /\ DestroyCollections
<1> SUFFICES ASSUME Next, pc' # pc
             PROVE  \/ Stage("load", "unwind") /\ MapTypes
                    \/ Stage("load", "config") /\ MapTypes
                    \/ Stage("config", "unwind") /\ exitCode' = "INVALID_CONFIG_FILE"
                    \/ Stage("config", "build")
                    \/ Stage("build", "unwind") /\ ModulesRead
                    \/ Stage("build", "add") /\ ModulesRead
                    \/ Stage("add", "initialize") /\ AllAdded
                    \/ Stage("initialize", "dump") /\ Initialized
                    \/ Stage("initialize", "unwind") /\ Initialized
                    \/ Stage("dump", "print") /\ (\E wanted \in BOOLEAN : DumpParameters(wanted))
                    \/ Stage("dump", "undefined") /\ (\E wanted \in BOOLEAN : DumpParameters(wanted))
                    \/ Stage("print", "connect")
                    \/ Stage("connect", "unwind")
                        /\ (RunAt \/ \E e, f \in Endpoints \cup {None} : ReadConnection(e, f))
                    \/ Stage("connect", "aborted") /\ RunAt
                    \/ Stage("unwind", "unwind modules") /\ DestroyContext
                    \/ Stage("unwind modules", "unwind collections") /\ DestroyModules
                    \/ Stage("unwind collections", "exited") /\ DestroyCollections
  OBVIOUS
<1>1. CASE MapTypes
  BY <1>1 DEF MapTypes, Leave, Stage
<1>2. CASE \E readable \in BOOLEAN : ReadConfig(readable)
  BY <1>2 DEF ReadConfig, Leave, Stage
<1>3. CASE ModulesRead
  BY <1>3 DEF ModulesRead, Leave, Stage
<1>4. CASE AllAdded \/ Initialized
  BY <1>4 DEF AllAdded, Initialized, Leave, Stage
<1>5. CASE \E wanted \in BOOLEAN : DumpParameters(wanted) \/ PrintSystemPorts(wanted)
  BY <1>5 DEF DumpParameters, PrintSystemPorts, Stage
<1>6. CASE RunAt \/ \E e, f \in Endpoints \cup {None} : ReadConnection(e, f)
  BY <1>6 DEF RunAt, ReadConnection, Connect, Leave, Stage
<1>7. CASE DestroyContext \/ DestroyModules \/ DestroyCollections
  BY <1>7 DEF DestroyContext, DestroyModules, DestroyCollections, Stage
<1>8. QED
  BY <1>1, <1>2, <1>3, <1>4, <1>5, <1>6, <1>7
     DEF Next, SearchFolder, Load, ReadModule, SetParameter, AddModule, InitializeModule

-----------------------------------------------------------------------------
(* The libraries.                                                          *)

LEMMA HandlesStep == TypeOK /\ Handles /\ Next => Handles'
<1> SUFFICES ASSUME TypeOK, Handles, Next PROVE Handles'
  OBVIOUS
<1> USE DEF Handles, HandlesExact
<1>1. ASSUME NEW folder \in Folders, SearchFolder(folder) PROVE Handles'
  BY <1>1 DEF SearchFolder, ReadFolder
<1>2. CASE Load
  <2>1. ASSUME NEW f \in Files, GetCollection(f) PROVE Handles'
    <3>1. pc = "load" /\ pc' = "load" /\ held' = held
      BY <1>2, <2>1 DEF Load, GetCollection
    <3>2. CASE Loadable(f)
      <4>1. /\ opened' = [opened EXCEPT ![f] = @ + 1] /\ found' = found \cup {f}
            /\ opened[f] = 0 /\ opened \in [Files -> Nat]
        BY <2>1, <3>2 DEF GetCollection, Loadable, TypeOK
      <4>2. opened'[f] = 1 /\ \A g \in Files \ {f} : opened'[g] = opened[g]
        BY <4>1
      <4>3. QED BY <3>1, <4>1, <4>2
    <3>3. CASE ~Loadable(f)
      BY <2>1, <3>1, <3>3 DEF GetCollection
    <3>4. QED BY <3>2, <3>3
  <2>2. CASE KeepFound
    BY <1>2, <2>2 DEF Load, KeepFound, Closed, MovedFromKeeps
  <2>3. QED BY <1>2, <2>1, <2>2 DEF Load
<1>3. CASE DestroyCollections
  <2>1. /\ pc = "unwind collections" /\ pc' = "exited" /\ held' = {}
        /\ opened' = [f \in Files |-> IF f \in held THEN opened[f] - 1 ELSE opened[f]]
        /\ entries' = entries /\ found' = found
    BY <1>3 DEF DestroyCollections, CloseLibraries, Closed
  <2>2. found = {} /\ entries = {}
    BY <2>1
  <2>3. ASSUME NEW f \in Files PROVE opened'[f] = 0
    <3>1. CASE f \in held
      <4>1. opened[f] = 1
        BY <3>1
      <4>2. opened'[f] = opened[f] - 1
        BY <2>1, <3>1
      <4>3. opened'[f] = 1 - 1
        BY <4>1, <4>2
      <4>4. QED BY <4>3
    <3>2. CASE f \notin held
      BY <2>1, <2>2, <3>2
    <3>3. QED BY <3>1, <3>2
  <2>4. QED BY <2>1, <2>2, <2>3
<1>4. CASE UNCHANGED libraries
  <2>1. pc' # "load" => entries = {} /\ found = {}
    BY Stages DEF Stage, MapTypes
  <2>2. QED BY <1>4, <2>1 DEF libraries
<1>5. QED BY <1>1, <1>2, <1>3, <1>4, LibrariesFrame

(* The members that one stage after the other fills.                       *)
LEMMA FreshStep == TypeOK /\ Fresh /\ Next => Fresh'
<1> SUFFICES ASSUME TypeOK, Fresh, Next PROVE Fresh'
  OBVIOUS
<1>1. /\ pc' \in Loading => pc \in Loading
      /\ pc' \in Loading \cup {"build"} => pc \in Loading \cup {"build"}
      /\ pc' \in Loading \cup Assembling => pc \in Loading \cup Assembling
      /\ pc' \in Loading \cup Assembling \cup {"initialize", "dump", "print"}
            => pc \in Loading \cup Assembling \cup {"initialize", "dump", "print"}
  BY Stages DEF Stage, Loading, Assembling
<1>2. pc' \in Loading => specs' = <<>> /\ Built' = {} /\ unrecognized' = {} /\ duplicate' = {}
  <2> SUFFICES ASSUME pc' \in Loading PROVE UNCHANGED building
    BY <1>1 DEF Fresh, building, Built
  <2>1. QED
    BY BuildingFrame DEF Loading, ReadModule, SetParameter, DestroyModules
<1>3. pc' \in Loading \cup {"build"} => added' = <<>>
  <2> SUFFICES ASSUME pc' \in Loading \cup {"build"} PROVE added' = added
    BY <1>1 DEF Fresh
  <2>1. QED
    BY ContextFrame DEF Loading, AddModule, InitializeModule, DestroyContext, context
<1>4. pc' \in Loading \cup Assembling => status' = <<>>
  <2> SUFFICES ASSUME pc' \in Loading \cup Assembling PROVE status' = status
    BY <1>1 DEF Fresh
  <2>1. QED
    BY ContextFrame DEF Loading, Assembling, AddModule, InitializeModule, DestroyContext, context
<1>5. pc' \in Loading \cup Assembling \cup {"initialize", "dump", "print"} => links' = <<>>
  <2> SUFFICES ASSUME pc \in Loading \cup Assembling \cup {"initialize", "dump", "print"}
               PROVE  links' = links
    BY <1>1 DEF Fresh
  <2>1. QED BY WiringFrame DEF Loading, Assembling, ReadConnection, wiring
<1>6. pc' \in {"unwind modules", "unwind collections", "exited"} => added' = <<>>
  <2>1. CASE DestroyContext
    BY <2>1 DEF DestroyContext
  <2>2. CASE ~DestroyContext /\ pc' \in {"unwind modules", "unwind collections", "exited"}
    <3>1. pc \in {"unwind modules", "unwind collections", "exited"}
      BY <2>2, Stages DEF Stage
    <3>2. added' = added
      BY <2>2, <3>1, ContextFrame DEF AddModule, InitializeModule, context
    <3>3. QED BY <3>1, <3>2 DEF Fresh
  <2>3. QED BY <2>1, <2>2
<1>7. pc' \in {"unwind collections", "exited"} => Built' = {}
  <2>1. CASE DestroyModules
    <3>1. moduleMap' = <<>>
      BY <2>1 DEF DestroyModules
    <3>2. QED BY <3>1, NothingBuilt DEF Built
  <2>2. CASE ~DestroyModules /\ pc' \in {"unwind collections", "exited"}
    <3>1. pc \in {"unwind collections", "exited"}
      BY <2>2, Stages DEF Stage
    <3>2. UNCHANGED building
      BY <2>2, <3>1, BuildingFrame DEF ReadModule, SetParameter
    <3>3. QED BY <3>1, <3>2 DEF Fresh, building, Built
  <2>3. QED BY <2>1, <2>2
<1>8. QED BY <1>2, <1>3, <1>4, <1>5, <1>6, <1>7 DEF Fresh

-----------------------------------------------------------------------------
(* The types the collections offer.                                        *)

LEMMA KnownMeans ==
    \A t : t \in KnownTypes <=>
        \E c \in held \cup {Core} : \E i \in 1..Len(provides[c]) : provides[c][i] = t
<1>1. ASSUME NEW t, t \in KnownTypes
      PROVE  \E c \in held \cup {Core} : \E i \in 1..Len(provides[c]) : provides[c][i] = t
  <2>1. PICK o \in Offer : t = TypeOf(o)
    BY <1>1 DEF KnownTypes
  <2>2. PICK c \in held \cup {Core} : o \in {c} \X (1..Len(provides[c]))
    BY <2>1 DEF Offer
  <2>3. o[1] = c /\ o[2] \in 1..Len(provides[c])
    BY <2>2
  <2>4. QED BY <2>1, <2>2, <2>3 DEF TypeOf
<1>2. ASSUME NEW t, NEW c \in held \cup {Core}, NEW i \in 1..Len(provides[c]), provides[c][i] = t
      PROVE  t \in KnownTypes
  <2>1. <<c, i>> \in Offer
    BY DEF Offer
  <2>2. t = TypeOf(<<c, i>>)
    BY <1>2 DEF TypeOf
  <2>3. QED BY <2>1, <2>2 DEF KnownTypes
<1>3. QED BY <1>1, <1>2

LEMMA ClashMeans == DuplicateTypes <=> TypesClash
<1>1. ASSUME DuplicateTypes PROVE TypesClash
  <2>1. PICK o, q \in Offer : o # q /\ TypeOf(o) = TypeOf(q)
    BY <1>1 DEF DuplicateTypes
  <2>2. PICK c \in held \cup {Core} : o \in {c} \X (1..Len(provides[c]))
    BY <2>1 DEF Offer
  <2>3. PICK d \in held \cup {Core} : q \in {d} \X (1..Len(provides[d]))
    BY <2>1 DEF Offer
  <2>4. /\ o = <<c, o[2]>> /\ o[2] \in 1..Len(provides[c])
        /\ q = <<d, q[2]>> /\ q[2] \in 1..Len(provides[d])
    BY <2>2, <2>3
  <2>5. provides[c][o[2]] = provides[d][q[2]]
    BY <2>1, <2>4 DEF TypeOf
  <2>6. QED BY <2>1, <2>4, <2>5 DEF TypesClash
<1>2. ASSUME TypesClash PROVE DuplicateTypes
  <2>1. PICK c \in held \cup {Core}, d \in held \cup {Core} :
            \E i \in 1..Len(provides[c]), j \in 1..Len(provides[d]) :
                <<c, i>> # <<d, j>> /\ provides[c][i] = provides[d][j]
    BY <1>2 DEF TypesClash
  <2>2. PICK i \in 1..Len(provides[c]), j \in 1..Len(provides[d]) :
            <<c, i>> # <<d, j>> /\ provides[c][i] = provides[d][j]
    BY <2>1
  <2>3. <<c, i>> \in Offer /\ <<d, j>> \in Offer
    BY DEF Offer
  <2>4. TypeOf(<<c, i>>) = TypeOf(<<d, j>>)
    BY <2>2 DEF TypeOf
  <2>5. QED BY <2>2, <2>3, <2>4 DEF DuplicateTypes
<1>3. QED BY <1>1, <1>2

(* The code of a type that is known is in a collection that is kept.       *)
LEMMA FactoryKept == \A t \in KnownTypes : FactoryOf(t) \in held \cup {Core}
<1> SUFFICES ASSUME NEW t \in KnownTypes PROVE FactoryOf(t) \in held \cup {Core}
  OBVIOUS
<1>1. \E c \in held \cup {Core} : \E i \in 1..Len(provides[c]) : provides[c][i] = t
  BY KnownMeans
<1>2. QED BY <1>1 DEF FactoryOf

(* What is kept changes while the collections are loaded, and when main()  *)
(* has been left.                                                          *)
LEMMA HeldStays == Next /\ pc # "load" /\ pc' # "exited" => held' = held
  BY LibrariesFrame DEF SearchFolder, Load, DestroyCollections, libraries

LEMMA KnownStays == held' = held => KnownTypes' = KnownTypes /\ DuplicateTypes' = DuplicateTypes
  BY DEF KnownTypes, DuplicateTypes, Offer, TypeOf

-----------------------------------------------------------------------------
(* The modules.                                                            *)

(* What a module entry does.                                               *)
LEMMA BuildMeans ==
    ASSUME NEW n \in Names, NEW t \in Types, ReadModule(n, t)
    PROVE  /\ pc = "build" /\ pc' = "build" /\ held' = held /\ UNCHANGED <<context, wiring>>
           /\ specs' = Append(specs, <<n, t>>)
           /\ \/ /\ t \notin KnownTypes /\ unrecognized' = unrecognized \cup {n}
                 /\ UNCHANGED <<moduleMap, values, duplicate>>
              \/ /\ t \in KnownTypes /\ n \in Built /\ duplicate' = duplicate \cup {n}
                 /\ UNCHANGED <<moduleMap, values, unrecognized>>
              \/ /\ t \in KnownTypes /\ n \notin Built
                 /\ moduleMap' = Put(moduleMap, n, Module(t))
                 /\ values' = Put(values, n, parameters[t])
                 /\ UNCHANGED <<unrecognized, duplicate>>
  BY DEF ReadModule, Build, libraries

LEMMA CodeKeptStep == Fresh /\ CodeKept /\ Next => CodeKept'
<1> SUFFICES ASSUME Fresh, CodeKept, Next PROVE CodeKept'
  OBVIOUS
<1>1. ASSUME NEW n \in Names, NEW t \in Types, ReadModule(n, t) PROVE CodeKept'
  <2>1. CASE UNCHANGED moduleMap
    BY <1>1, <2>1, BuildMeans DEF CodeKept, Built
  <2>2. CASE t \in KnownTypes /\ moduleMap' = Put(moduleMap, n, Module(t))
    <3>1. held' = held /\ FactoryOf(t) \in held \cup {Core}
      BY <1>1, <2>2, BuildMeans, FactoryKept
    <3>2. /\ Built' = Built \cup {n}
          /\ \A m \in Built' : moduleMap'[m] = IF m = n THEN Module(t) ELSE moduleMap[m]
      BY <2>2 DEF Built, Put
    <3>3. Module(t).code = FactoryOf(t)
      BY DEF Module
    <3>4. QED BY <3>1, <3>2, <3>3 DEF CodeKept
  <2>3. QED BY <1>1, <2>1, <2>2, BuildMeans
<1>2. ASSUME NEW n \in Built, NEW p \in DOMAIN values[n], NEW v, SetParameter(n, p, v)
      PROVE  CodeKept'
  BY <1>2 DEF SetParameter, CodeKept, Built, libraries
<1>3. CASE DestroyModules
  <2>1. Built' = {}
    BY <1>3, NothingBuilt DEF DestroyModules, Built
  <2>2. QED BY <2>1 DEF CodeKept
<1>4. CASE UNCHANGED building
  <2>1. Built' = Built /\ moduleMap' = moduleMap
    BY <1>4 DEF building, Built
  <2>2. held \subseteq held' \/ Built = {}
    <3>1. CASE DestroyCollections
      BY <3>1 DEF DestroyCollections, Fresh
    <3>2. CASE Load
      BY <3>2 DEF Load, GetCollection, KeepFound
    <3>3. CASE UNCHANGED libraries \/ \E folder \in Folders : SearchFolder(folder)
      BY <3>3 DEF libraries, SearchFolder, ReadFolder
    <3>4. QED BY <3>1, <3>2, <3>3, LibrariesFrame
  <2>3. QED BY <2>1, <2>2 DEF CodeKept
<1>5. QED BY <1>1, <1>2, <1>3, <1>4, BuildingFrame

(* The entries read so far, after one more.                                *)
LEMMA EntriesRead1 ==
    ASSUME TypeOK, EntriesRead, NEW n \in Names, NEW t \in Types, ReadModule(n, t)
    PROVE  EntriesRead'
<1> DEFINE L == Len(specs)
<1>1. /\ specs \in Seq(Names \X Types) /\ L \in Nat
      /\ \A k \in 1..L : specs[k] \in Names \X Types
  BY ElementOfSeq, LenProperties DEF TypeOK
<1>2. /\ Len(specs') = L + 1 /\ specs'[L + 1] = <<n, t>>
      /\ \A k \in 1..L : specs'[k] = specs[k]
  BY <1>1, BuildMeans, AppendProperties
<1>3. pc \in Standing /\ KnownTypes' = KnownTypes
  BY BuildMeans, KnownStays DEF Standing, Assembling
<1> HIDE DEF L
<1> USE DEF EntriesRead
<1>4. NameTwice => NameTwice'
  BY <1>1, <1>2 DEF NameTwice, L
<1>5. Built \subseteq {specs'[k][1] : k \in 1..L+1}
  <2> SUFFICES ASSUME NEW m \in Built PROVE \E k \in 1..L+1 : m = specs'[k][1]
    OBVIOUS
  <2>1. PICK k \in 1..L : m = specs[k][1]
    BY <1>3 DEF L
  <2>2. k \in 1..L+1 /\ m = specs'[k][1]
    BY <1>1, <1>2, <2>1
  <2>3. QED BY <2>2
<1>6. {specs'[k][1] : k \in {i \in 1..L+1 : specs'[i][2] \notin KnownTypes}}
        = unrecognized \cup (IF t \in KnownTypes THEN {} ELSE {n})
  <2>1. unrecognized = {specs[k][1] : k \in {i \in 1..L : specs[i][2] \notin KnownTypes}}
    BY <1>3 DEF L
  <2>2. ASSUME NEW k \in 1..L+1 PROVE k \in 1..L \/ k = L + 1
    BY <1>1
  <2>3. 1..L \subseteq 1..L+1 /\ L + 1 \in 1..L+1
    BY <1>1
  <2>4. QED BY <1>2, <2>1, <2>2, <2>3
<1>7. CASE t \notin KnownTypes /\ unrecognized' = unrecognized \cup {n}
           /\ UNCHANGED <<moduleMap, values, duplicate>>
  <2>1. unrecognized' # {} /\ Built' = Built
    BY <1>7 DEF Built
  <2>2. QED BY <1>2, <1>3, <1>4, <1>5, <1>6, <1>7, <2>1
<1>8. CASE t \in KnownTypes /\ n \in Built /\ duplicate' = duplicate \cup {n}
           /\ UNCHANGED <<moduleMap, values, unrecognized>>
  <2>1. duplicate' # {} /\ Built' = Built
    BY <1>8 DEF Built
  <2>2. PICK k \in 1..L : n = specs[k][1]
    BY <1>3, <1>8 DEF L
  <2>3. NameTwice'
    BY <1>1, <1>2, <2>2 DEF NameTwice
  <2>4. QED BY <1>2, <1>3, <1>5, <1>6, <1>8, <2>1, <2>3
<1>9. CASE t \in KnownTypes /\ n \notin Built /\ moduleMap' = Put(moduleMap, n, Module(t))
           /\ UNCHANGED <<unrecognized, duplicate>>
  <2>1. /\ Built' = Built \cup {n}
        /\ \A m \in Built' : moduleMap'[m] = IF m = n THEN Module(t) ELSE moduleMap[m]
    BY <1>9 DEF Built, Put
  <2>2. Built' \subseteq {specs'[k][1] : k \in 1..L+1}
    <3>1. n = specs'[L+1][1] /\ L + 1 \in 1..L+1
      BY <1>1, <1>2
    <3>2. QED BY <1>5, <2>1, <3>1
  <2>3. ASSUME unrecognized = {}, duplicate = {}
        PROVE  /\ ~NameTwice'
               /\ \A k \in 1..L+1 :
                    specs'[k][1] \in Built' /\ moduleMap'[specs'[k][1]].type = specs'[k][2]
               /\ IsFiniteSet(Built') /\ Cardinality(Built') = L + 1
    <3>1. /\ ~NameTwice
          /\ \A k \in 1..L : specs[k][1] \in Built /\ moduleMap[specs[k][1]].type = specs[k][2]
          /\ IsFiniteSet(Built) /\ Cardinality(Built) = L
      BY <1>3, <2>3 DEF L
    <3>2. ~NameTwice'
      <4> SUFFICES ASSUME NEW j \in 1..L+1, NEW k \in 1..L+1, j < k, specs'[j][1] = specs'[k][1]
                   PROVE  FALSE
        BY <1>2 DEF NameTwice
      <4>1. j \in 1..L
        BY <1>1
      <4>2. CASE k \in 1..L
        BY <1>2, <3>1, <4>1, <4>2 DEF NameTwice, L
      <4>3. CASE k = L + 1
        BY <1>2, <1>9, <3>1, <4>1, <4>3
      <4>4. QED BY <1>1, <4>2, <4>3
    <3>3. ASSUME NEW k \in 1..L+1
          PROVE  specs'[k][1] \in Built' /\ moduleMap'[specs'[k][1]].type = specs'[k][2]
      <4>1. CASE k \in 1..L
        <5>1. specs'[k] = specs[k] /\ specs[k][1] \in Built /\ specs[k][1] # n
          BY <1>2, <1>9, <3>1, <4>1
        <5>2. QED BY <2>1, <3>1, <4>1, <5>1
      <4>2. CASE k = L + 1
        BY <1>2, <2>1, <4>2 DEF Module
      <4>3. QED BY <1>1, <4>1, <4>2
    <3>4. IsFiniteSet(Built') /\ Cardinality(Built') = L + 1
      BY <1>9, <2>1, <3>1, FS_AddElement
    <3>5. QED BY <3>2, <3>3, <3>4
  <2>4. QED BY <1>2, <1>3, <1>4, <1>6, <1>9, <2>2, <2>3
<1>10. QED BY <1>7, <1>8, <1>9, BuildMeans

LEMMA EntriesReadStep == TypeOK /\ Fresh /\ EntriesRead /\ Next => EntriesRead'
<1> SUFFICES ASSUME TypeOK, Fresh, EntriesRead, Next, pc' \in Standing PROVE EntriesRead'
  BY DEF EntriesRead
<1>1. pc \in Standing /\ pc' \notin {"unwind modules", "unwind collections", "exited"}
  BY Stages DEF Stage, Standing, Loading, Assembling, Operating
<1>2. CASE UNCHANGED building
  <2>1. specs' = specs /\ unrecognized' = unrecognized /\ duplicate' = duplicate
        /\ moduleMap' = moduleMap /\ Built' = Built
    BY <1>2 DEF building, Built
  <2>2. CASE held' = held
    <3>1. KnownTypes' = KnownTypes
      BY <2>2, KnownStays
    <3>2. QED BY <1>1, <2>1, <3>1 DEF EntriesRead, NameTwice
  <2>3. CASE held' # held
    <3>1. pc = "load"
      BY <1>1, <2>3, HeldStays
    <3>2. specs = <<>> /\ Built = {} /\ unrecognized = {} /\ duplicate = {} /\ Len(specs) = 0
      BY <3>1, EmptySeq DEF Fresh, Loading
    <3>3. ~NameTwice' /\ {i \in 1..Len(specs') : specs'[i][2] \notin KnownTypes'} = {}
      BY <2>1, <3>2 DEF NameTwice
    <3>4. QED BY <2>1, <3>2, <3>3, FS_EmptySet DEF EntriesRead
  <2>4. QED BY <2>2, <2>3
<1>3. ASSUME NEW n \in Built, NEW p \in DOMAIN values[n], NEW v, SetParameter(n, p, v)
      PROVE  EntriesRead'
  <2>1. UNCHANGED <<libraries, specs, moduleMap, unrecognized, duplicate>>
    BY <1>3 DEF SetParameter
  <2>2. KnownTypes' = KnownTypes
    BY <2>1, KnownStays DEF libraries
  <2>3. QED BY <1>1, <2>1, <2>2 DEF EntriesRead, NameTwice, Built
<1>4. ASSUME DestroyModules PROVE FALSE
  BY <1>1, <1>4 DEF DestroyModules
<1>5. ASSUME NEW n \in Names, NEW t \in Types, ReadModule(n, t) PROVE EntriesRead'
  BY <1>5, EntriesRead1
<1>6. QED BY <1>2, <1>3, <1>4, <1>5, BuildingFrame

LEMMA PassedStep == Passed /\ Next => Passed'
<1> SUFFICES ASSUME Passed, Next PROVE Passed'
  OBVIOUS
<1>1. ASSUME pc' \in {"config"} \cup Assembling \cup Operating PROVE ~DuplicateTypes'
  <2>1. CASE Stage("load", "config") /\ MapTypes
    <3>1. ~DuplicateTypes /\ held' = held
      BY <2>1 DEF MapTypes, Leave, Stage, libraries
    <3>2. QED BY <3>1, KnownStays
  <2>2. CASE ~Stage("load", "config")
    <3>1. pc \in {"config"} \cup Assembling \cup Operating /\ pc # "load" /\ pc' # "exited"
      BY <1>1, <2>2, Stages DEF Stage, Assembling, Operating
    <3>2. QED BY <3>1, HeldStays, KnownStays DEF Passed
  <2>3. QED BY <2>1, <2>2, Stages DEF Stage
<1>2. ASSUME pc' \in {"add"} \cup Operating PROVE unrecognized' = {} /\ duplicate' = {}
  <2>1. CASE Stage("build", "add") /\ ModulesRead
    BY <2>1 DEF ModulesRead, Leave, Stage, building
  <2>2. CASE ~Stage("build", "add")
    <3>1. pc \in {"add"} \cup Operating
      BY <1>2, <2>2, Stages DEF Stage, Operating
    <3>2. UNCHANGED building
      BY <3>1, BuildingFrame DEF ReadModule, SetParameter, DestroyModules, Operating
    <3>3. QED BY <3>1, <3>2 DEF Passed, building
  <2>3. QED BY <2>1, <2>2, Stages DEF Stage
<1>3. QED BY <1>1, <1>2 DEF Passed

-----------------------------------------------------------------------------
(* The context.                                                            *)

(* A module is appended to the list.                                       *)
LEMMA ListedAdd ==
    ASSUME TypeOK, Listed, NEW n \in Names, AddModule(n)
    PROVE  Listed'
<1>1. /\ pc = "add" /\ pc' = "add" /\ n \in Built \ InContext /\ added' = Append(added, n)
      /\ moduleMap' = moduleMap
  BY DEF AddModule, building
<1>2. added \in Seq(Names) /\ Len(added) \in Nat
  BY LenProperties DEF TypeOK
<1>3. /\ Len(added') = Len(added) + 1 /\ added'[Len(added) + 1] = n
      /\ \A i \in 1..Len(added) : added'[i] = added[i]
  BY <1>1, <1>2, AppendProperties
<1>4. InContext' = InContext \cup {n}
  <2>1. ASSUME NEW i \in 1..Len(added) + 1 PROVE added'[i] \in InContext \cup {n}
    <3>1. CASE i = Len(added) + 1
      BY <1>3, <3>1
    <3>2. CASE i \in 1..Len(added)
      BY <1>3, <3>2 DEF InContext
    <3>3. QED BY <1>2, <3>1, <3>2
  <2>2. 1..Len(added) \subseteq 1..Len(added) + 1 /\ Len(added) + 1 \in 1..Len(added) + 1
    BY <1>2
  <2>3. QED BY <1>3, <2>1, <2>2 DEF InContext
<1>5. IsFiniteSet(InContext') /\ Cardinality(InContext') = Len(added')
  BY <1>1, <1>3, <1>4, FS_AddElement DEF Listed
<1>6. InContext' \subseteq Built'
  BY <1>1, <1>4 DEF Listed, Built
<1>7. QED BY <1>1, <1>5, <1>6 DEF Listed, Operating

(* A module is initialized.                                                *)
LEMMA ListedInitialize ==
    ASSUME TypeOK, Listed, NEW ok \in BOOLEAN, InitializeModule(ok)
    PROVE  Listed'
<1>1. /\ pc = "initialize" /\ pc' = "initialize" /\ Len(status) < Len(added)
      /\ ok => Check(added[Len(status) + 1])
      /\ status' = Append(status, ok)
      /\ added' = added /\ moduleMap' = moduleMap /\ values' = values
  BY DEF InitializeModule, building
<1>2. status \in Seq(BOOLEAN) /\ Len(status) \in Nat /\ Len(added) \in Nat
  BY LenProperties DEF TypeOK
<1>3. /\ Len(status') = Len(status) + 1 /\ status'[Len(status) + 1] = ok
      /\ \A i \in 1..Len(status) : status'[i] = status[i]
  BY <1>1, <1>2, AppendProperties
<1>4. InContext' = InContext /\ Built' = Built
  BY <1>1 DEF InContext, Built
<1>5. \A k \in 1..Len(status) : status[k] => Check(added[k])
  BY <1>1 DEF Listed, Operating
<1>6. ASSUME NEW k \in 1..Len(status'), status'[k] PROVE Check(added[k])'
  <2>1. Check(added[k])
    <3>1. CASE k = Len(status) + 1
      BY <1>1, <1>3, <1>6, <3>1
    <3>2. CASE k \in 1..Len(status)
      BY <1>3, <1>5, <1>6, <3>2
    <3>3. QED BY <1>2, <1>3, <3>1, <3>2
  <2>2. QED BY <1>1, <2>1 DEF Check
<1>7. Len(status') <= Len(added')
  BY <1>1, <1>2, <1>3
<1>8. QED BY <1>1, <1>4, <1>6, <1>7 DEF Listed, Operating

(* What a run of dump_parameters() would meet: nothing unset.              *)
LEMMA NothingUnset ==
    ASSUME TypeOK, Listed, pc = "dump"
    PROVE  Unset = {}
<1> SUFFICES ASSUME NEW n \in Built, NEW p \in DOMAIN values[n], values[n][p] = "unset"
             PROVE  FALSE
  BY DEF Unset
<1>1. PICK i \in 1..Len(added) : added[i] = n
  BY DEF Listed, Operating, InContext
<1>2. i \in 1..Len(status) /\ status[i]
  BY DEF Listed, Operating
<1>3. Check(n)
  BY <1>1, <1>2 DEF Listed, Operating
<1>4. QED BY <1>3 DEF Check

LEMMA ListedStep ==
    TypeOK /\ Fresh /\ Listed /\ Next => Listed'
<1> SUFFICES ASSUME TypeOK, Fresh, Listed, Next PROVE Listed'
  OBVIOUS
<1>0. added = <<>> => InContext = {}
  BY EmptySeq DEF InContext
<1>1. CASE \E n \in Names : AddModule(n)
  BY <1>1, ListedAdd
<1>2. CASE \E ok \in BOOLEAN : InitializeModule(ok)
  BY <1>2, ListedInitialize
<1>3. CASE DestroyContext
  <2>1. added' = <<>> /\ pc' = "unwind modules"
    BY <1>3 DEF DestroyContext
  <2>2. Len(added') = 0
    BY <2>1, EmptySeq
  <2>3. InContext' = {}
    BY <2>2 DEF InContext
  <2>4. QED BY <2>1, <2>2, <2>3, FS_EmptySet DEF Listed, Operating
<1>4. CASE UNCHANGED context
  <2>1. added' = added /\ status' = status /\ InContext' = InContext
    BY <1>4 DEF context, InContext
  <2>2. pc' # "undefined"
    <3>1. ~Stage("dump", "undefined")
      BY Stages, NothingUnset DEF Stage, DumpParameters
    <3>2. QED BY <3>1, Stages DEF Stage, Listed
  <2>3. InContext \subseteq Built'
    <3>1. CASE UNCHANGED moduleMap
      BY <3>1 DEF Listed, Built
    <3>2. CASE ~UNCHANGED moduleMap
      <4>1. added = <<>>
        BY <3>2, BuildingFrame
           DEF ReadModule, SetParameter, DestroyModules, building, Fresh, Loading
      <4>2. QED BY <1>0, <4>1
    <3>3. QED BY <3>1, <3>2
  <2>4. ASSUME pc' \in Operating
        PROVE  /\ InContext' = Built' /\ Len(status') <= Len(added')
               /\ \A k \in 1..Len(status') : status'[k] => Check(added[k])'
    <3>1. CASE Stage("add", "initialize") /\ AllAdded
      <4>1. InContext = Built /\ status = <<>> /\ moduleMap' = moduleMap
        BY <3>1 DEF AllAdded, Stage, building, Fresh, Assembling
      <4>2. Len(status') = 0 /\ Len(added') \in Nat
        BY <2>1, <4>1, EmptySeq, LenProperties DEF TypeOK
      <4>3. QED BY <2>1, <4>1, <4>2 DEF Built
    <3>2. CASE ~Stage("add", "initialize")
      <4>1. pc \in Operating
        BY <2>4, <3>2, Stages DEF Stage, Operating
      <4>2. UNCHANGED building
        BY <4>1, BuildingFrame DEF ReadModule, SetParameter, DestroyModules, Operating
      <4>3. Built' = Built /\ values' = values
        BY <4>2 DEF building, Built
      <4>4. \A k \in 1..Len(status') : status'[k] => Check(added[k])'
        BY <2>1, <4>1, <4>3 DEF Listed, Check
      <4>5. QED BY <2>1, <4>1, <4>3, <4>4 DEF Listed
    <3>3. QED BY <3>1, <3>2, Stages DEF Stage
  <2>5. ASSUME pc' \in Operating \ {"initialize"}
        PROVE  Len(status') = Len(added') /\ \A k \in 1..Len(status') : status'[k]
    <3>1. CASE Stage("initialize", "dump") /\ Initialized
      BY <2>1, <3>1 DEF Initialized, Leave, Stage
    <3>2. CASE ~Stage("initialize", "dump")
      <4>1. pc \in Operating \ {"initialize"}
        BY <2>5, <3>2, Stages DEF Stage, Operating
      <4>2. QED BY <2>1, <4>1 DEF Listed
    <3>3. QED BY <3>1, <3>2, Stages DEF Stage
  <2>6. QED BY <2>1, <2>2, <2>3, <2>4, <2>5 DEF Listed
<1>5. QED BY <1>1, <1>2, <1>3, <1>4, ContextFrame

-----------------------------------------------------------------------------
(* The connections.                                                        *)

(* A connection entry that is accepted.                                    *)
LEMMA LinkedAdd ==
    ASSUME TypeOK, Linked, NEW e \in Endpoints \cup {None}, NEW f \in Endpoints \cup {None},
           ReadConnection(e, f), pc' = "connect"
    PROVE  Linked'
<1> DEFINE L == Len(links)
<1>1. /\ pc = "connect" /\ moduleMap' = moduleMap /\ links' = Append(links, <<e, f>>)
      /\ Connect(e, f)
  BY DEF ReadConnection, building
<1>2. /\ Exists(e) /\ Exists(f) /\ Kind(f) \in Partners(Kind(e)) /\ peer' = Link(peer, e, f)
  BY <1>1 DEF Connect, Leave
<1>3. e \in Endpoints /\ f \in Endpoints
  BY <1>2 DEF Exists
<1>4. Connectable' = Connectable /\ <<e, f>> \in Connectable
  BY <1>1, <1>2, <1>3 DEF Connectable, Exists, Kind, Built
<1>5. links \in Seq(Connectable) /\ L \in Nat
  BY <1>1, LenProperties DEF Linked
<1>6. /\ links' \in Seq(Connectable) /\ Len(links') = L + 1 /\ links'[L + 1] = <<e, f>>
      /\ \A k \in 1..L : links'[k] = links[k]
  BY <1>1, <1>4, <1>5, AppendProperties
<1>7. \A k \in 1..L : links[k] \in Endpoints \X Endpoints
  BY <1>5, ElementOfSeq DEF Connectable
<1>8. /\ peer'[e] = f /\ peer'[f] = e
      /\ \A x \in Endpoints \ {e, f} : peer'[x] = peer[x]
  BY <1>2, <1>3 DEF Link, TypeOK
<1> HIDE DEF L
<1>9. ASSUME NEW k \in 1..L + 1,
             \A j \in (k + 1)..L + 1 :
                {links'[j][1], links'[j][2]} \cap {links'[k][1], links'[k][2]} = {}
      PROVE  peer'[links'[k][1]] = links'[k][2] /\ peer'[links'[k][2]] = links'[k][1]
  <2>1. CASE k = L + 1
    BY <1>6, <1>8, <2>1
  <2>2. CASE k \in 1..L
    <3>1. \A j \in (k + 1)..L : Ends(j) \cap Ends(k) = {}
      <4> SUFFICES ASSUME NEW j \in (k + 1)..L PROVE Ends(j) \cap Ends(k) = {}
        OBVIOUS
      <4>1. j \in (k + 1)..L + 1 /\ j \in 1..L
        BY <1>5, <2>2
      <4>2. QED BY <1>6, <1>9, <2>2, <4>1 DEF Ends
    <3>2. peer[links[k][1]] = links[k][2] /\ peer[links[k][2]] = links[k][1]
      BY <1>1, <2>2, <3>1 DEF Linked, LinksInForce, L
    <3>3. {e, f} \cap {links[k][1], links[k][2]} = {}
      <4>1. L + 1 \in (k + 1)..L + 1
        BY <1>5, <2>2
      <4>2. {links'[L + 1][1], links'[L + 1][2]} \cap {links'[k][1], links'[k][2]} = {}
        BY <1>9, <4>1
      <4>3. QED BY <1>6, <2>2, <4>2
    <3>4. links[k][1] \in Endpoints \ {e, f} /\ links[k][2] \in Endpoints \ {e, f}
      BY <1>7, <2>2, <3>3
    <3>5. QED BY <1>6, <1>8, <2>2, <3>2, <3>4
  <2>3. QED BY <1>5, <2>1, <2>2
<1>10. LinksInForce'
  BY <1>6, <1>9 DEF LinksInForce, Ends
<1>11. QED BY <1>4, <1>6, <1>10 DEF Linked

LEMMA LinkedStep == TypeOK /\ Fresh /\ Linked /\ Next => Linked'
<1> SUFFICES ASSUME TypeOK, Fresh, Linked, Next, pc' = "connect" PROVE Linked'
  BY DEF Linked
<1>1. CASE \E e, f \in Endpoints \cup {None} : ReadConnection(e, f)
  BY <1>1, LinkedAdd
<1>2. CASE UNCHANGED wiring /\ pc = "connect"
  <2>1. UNCHANGED building
    BY <1>2, BuildingFrame DEF ReadModule, SetParameter, DestroyModules
  <2>2. links' = links /\ peer' = peer /\ Connectable' = Connectable
    BY <1>2, <2>1 DEF wiring, building, Connectable, Exists, Kind, Built
  <2>3. QED BY <1>2, <2>2 DEF Linked, LinksInForce, Ends
<1>3. CASE UNCHANGED wiring /\ pc # "connect"
  <2>1. pc = "print"
    BY <1>3, Stages DEF Stage
  <2>2. links' = <<>>
    BY <1>3, <2>1 DEF Fresh, wiring
  <2>3. links' \in Seq(Connectable') /\ Len(links') = 0
    BY <2>2, EmptySeq
  <2>4. LinksInForce'
    BY <2>3 DEF LinksInForce
  <2>5. QED BY <2>3, <2>4 DEF Linked
<1>4. QED BY <1>1, <1>2, <1>3, WiringFrame

-----------------------------------------------------------------------------
(* The exits.                                                              *)

(* No action leaves main() at the first step of its unwinding.             *)
LEMMA UnwindMoves == Next /\ pc = "unwind" => pc' # "unwind"
  BY DEF Next, SearchFolder, Load, MapTypes, ReadConfig, ReadModule, SetParameter, ModulesRead,
         AddModule, AllAdded, InitializeModule, Initialized, DumpParameters, PrintSystemPorts,
         ReadConnection, RunAt, DestroyContext, DestroyModules, DestroyCollections

LEMMA MissingMeans == EntriesRead /\ pc \in Standing => (TypeMissing <=> unrecognized # {})
<1> SUFFICES ASSUME EntriesRead, pc \in Standing PROVE TypeMissing <=> unrecognized # {}
  OBVIOUS
<1>1. unrecognized = {specs[k][1] : k \in {i \in 1..Len(specs) : specs[i][2] \notin KnownTypes}}
  BY DEF EntriesRead
<1>2. TypeMissing <=> \E k \in 1..Len(specs) : specs[k][2] \notin KnownTypes
  BY KnownMeans DEF TypeMissing
<1>3. QED BY <1>1, <1>2

(* What is wrong with the lists that are kept does not change.             *)
LEMMA FaultsStay ==
    held' = held /\ specs' = specs =>
        TypesClash' = TypesClash /\ TypeMissing' = TypeMissing /\ NameTwice' = NameTwice
  BY DEF TypesClash, TypeMissing, NameTwice

(* When main() reads connections, nothing read before is wrong.            *)
LEMMA NoFaultBefore ==
    ASSUME EntriesRead, Passed, pc \in Operating
    PROVE  ~TypesClash /\ ~TypeMissing /\ ~NameTwice
<1>1. pc \in Standing /\ ~DuplicateTypes /\ unrecognized = {} /\ duplicate = {}
  BY DEF Passed, Standing
<1>2. QED BY <1>1, ClashMeans, MissingMeans DEF EntriesRead

LEMMA ExitMapTypes ==
    ASSUME MapTypes, Stage("load", "unwind")
    PROVE  ExitCodeExact'
<1>1. /\ DuplicateTypes /\ exitCode' = "DUPLICATE_TYPES" /\ held' = held /\ specs' = specs
  BY DEF MapTypes, Leave, Stage, libraries, building
<1>2. TypesClash'
  BY <1>1, ClashMeans, FaultsStay
<1>3. QED BY <1>1, <1>2 DEF ExitCodeExact

LEMMA ExitModulesRead ==
    ASSUME EntriesRead, Passed, ModulesRead, Stage("build", "unwind")
    PROVE  ExitCodeExact'
<1>1. pc \in Standing /\ pc \in Assembling /\ held' = held /\ specs' = specs
  BY DEF ModulesRead, Stage, Standing, Assembling, libraries, building
<1>2. ~TypesClash'
  BY <1>1, ClashMeans, FaultsStay DEF Passed
<1>3. CASE unrecognized # {}
  <2>1. TypeMissing' /\ exitCode' = "UNKNOWN_TYPES"
    BY <1>1, <1>3, MissingMeans, FaultsStay DEF ModulesRead, Leave
  <2>2. QED BY <1>2, <2>1 DEF ExitCodeExact
<1>4. CASE unrecognized = {}
  <2>1. duplicate # {} /\ exitCode' = "DUPLICATE_MODULE_NAMES"
    BY <1>4 DEF ModulesRead, Leave, Stage
  <2>2. ~TypeMissing'
    BY <1>1, <1>4, MissingMeans, FaultsStay
  <2>3. NameTwice
    BY <1>1, <2>1 DEF EntriesRead
  <2>4. NameTwice'
    BY <1>1, <2>3, FaultsStay
  <2>5. QED BY <1>2, <2>1, <2>2, <2>4 DEF ExitCodeExact
<1>5. QED BY <1>3, <1>4

LEMMA ExitInitialized ==
    ASSUME EntriesRead, Passed, Initialized, Stage("initialize", "unwind")
    PROVE  ExitCodeExact'
<1>1. /\ pc \in Operating /\ held' = held /\ specs' = specs /\ status' = status
      /\ exitCode' = "INITIALIZATION_FAILED" /\ \E i \in 1..Len(status) : ~status[i]
  BY DEF Initialized, Leave, Stage, Operating, libraries, building, context
<1>2. ~TypesClash' /\ ~TypeMissing' /\ ~NameTwice' /\ SomeFailed'
  BY <1>1, NoFaultBefore, FaultsStay DEF SomeFailed
<1>3. QED BY <1>1, <1>2 DEF ExitCodeExact

LEMMA ExitConnect ==
    ASSUME TypeOK, EntriesRead, Passed, Listed, Linked, Stage("connect", "unwind"),
           RunAt \/ \E e, f \in Endpoints \cup {None} : ReadConnection(e, f)
    PROVE  ExitCodeExact'
<1>1. /\ pc = "connect" /\ pc \in Operating /\ held' = held /\ specs' = specs
      /\ status' = status /\ moduleMap' = moduleMap
  BY DEF RunAt, ReadConnection, Stage, Operating, libraries, building, context
<1>2. ~TypesClash' /\ ~TypeMissing' /\ ~NameTwice'
  BY <1>1, NoFaultBefore, FaultsStay
<1>3. ~SomeFailed'
  BY <1>1 DEF SomeFailed, Listed, Operating
<1>4. Connectable' = Connectable
  BY <1>1 DEF Connectable, Exists, Kind, Built
<1>5. /\ \A x : Exists(x)' <=> Exists(x)
      /\ \A k \in 1..Len(links) : Exists(links[k][1]) /\ Exists(links[k][2])
  <2>1. \A x : Exists(x)' <=> Exists(x)
    BY <1>1 DEF Exists, Built
  <2>2. \A k \in 1..Len(links) : links[k] \in Connectable
    BY <1>1, ElementOfSeq DEF Linked
  <2>3. QED BY <2>1, <2>2 DEF Connectable
<1>6. CASE RunAt
  <2>1. links' = links /\ exitCode' = "SUCCESS"
    BY <1>6 DEF RunAt, Stage, Leave, wiring
  <2>2. ~SomeLinkFails'
    BY <1>1, <1>4, <2>1, ElementOfSeq DEF SomeLinkFails, Linked
  <2>3. ~EndpointMissing'
    BY <1>5, <2>1 DEF EndpointMissing
  <2>4. QED BY <1>2, <1>3, <2>1, <2>2, <2>3 DEF ExitCodeExact
<1>7. ASSUME NEW e \in Endpoints \cup {None}, NEW f \in Endpoints \cup {None}, ReadConnection(e, f)
      PROVE  ExitCodeExact'
  <2>1. /\ links' = Append(links, <<e, f>>)
        /\ \/ (~Exists(e) \/ ~Exists(f)) /\ exitCode' = "INVALID_CONNECTION"
           \/ /\ Exists(e) /\ Exists(f) /\ Kind(f) \notin Partners(Kind(e))
              /\ exitCode' = "CONNECTION_FAILED"
    BY <1>7 DEF ReadConnection, Connect, Leave, Stage
  <2>2. /\ Len(links') = Len(links) + 1 /\ Len(links) \in Nat /\ links'[Len(links) + 1] = <<e, f>>
        /\ \A k \in 1..Len(links) : links'[k] = links[k]
    <3>1. links \in Seq(Entry) /\ <<e, f>> \in Entry
      BY DEF TypeOK, Entry
    <3>2. QED BY <2>1, <3>1, AppendProperties, LenProperties
  <2>3. <<e, f>> \notin Connectable
    BY <2>1 DEF Connectable
  <2>4. SomeLinkFails'
    BY <1>4, <2>2, <2>3 DEF SomeLinkFails
  <2>5. EndpointMissing' <=> ~Exists(e) \/ ~Exists(f)
    BY <1>5, <2>2 DEF EndpointMissing
  <2>6. QED BY <1>2, <1>3, <2>1, <2>4, <2>5 DEF ExitCodeExact
<1>8. QED BY <1>6, <1>7

LEMMA ExitStep ==
    TypeOK /\ EntriesRead /\ Passed /\ Listed /\ Linked /\ Next => ExitCodeExact'
<1> SUFFICES ASSUME TypeOK, EntriesRead, Passed, Listed, Linked, Next, pc' = "unwind",
                    exitCode' # "INVALID_CONFIG_FILE"
             PROVE  ExitCodeExact'
  BY DEF ExitCodeExact
<1>1. \/ Stage("load", "unwind") /\ MapTypes
      \/ Stage("build", "unwind") /\ ModulesRead
      \/ Stage("initialize", "unwind") /\ Initialized
      \/ Stage("connect", "unwind")
            /\ (RunAt \/ \E e, f \in Endpoints \cup {None} : ReadConnection(e, f))
  BY Stages, UnwindMoves DEF Stage
<1>2. QED BY <1>1, ExitMapTypes, ExitModulesRead, ExitInitialized, ExitConnect

-----------------------------------------------------------------------------
(* The types.                                                              *)

LEMMA LibrariesTyped ==
    TypeOK /\ Handles /\ Next =>
        /\ opened' \in [Files -> Nat]
        /\ entries' \subseteq Files /\ found' \subseteq Files /\ held' \subseteq Files
<1> SUFFICES ASSUME TypeOK, Handles, Next
             PROVE  /\ opened' \in [Files -> Nat]
                    /\ entries' \subseteq Files /\ found' \subseteq Files /\ held' \subseteq Files
  OBVIOUS
<1>0. /\ opened \in [Files -> Nat]
      /\ entries \subseteq Files /\ found \subseteq Files /\ held \subseteq Files
  BY DEF TypeOK
<1>1. ASSUME NEW folder \in Folders, SearchFolder(folder)
      PROVE  UNCHANGED <<opened, found, held>> /\ entries' \subseteq Files
  BY <1>0, <1>1, FilesAssumption DEF SearchFolder, ReadFolder
<1>2. ASSUME NEW f \in Files, GetCollection(f)
      PROVE  /\ opened' \in [Files -> Nat]
             /\ entries' \subseteq Files /\ found' \subseteq Files /\ held' \subseteq Files
  <2>1. \/ opened' = opened
        \/ opened' = [opened EXCEPT ![f] = opened[f] + 1]
    BY <1>2 DEF GetCollection
  <2>2. opened[f] + 1 \in Nat
    BY <1>0
  <2>3. opened' \in [Files -> Nat]
    BY <1>0, <2>1, <2>2
  <2>4. QED BY <1>0, <1>2, <2>3 DEF GetCollection
<1>3. CASE KeepFound
  BY <1>0, <1>3 DEF KeepFound, Closed, MovedFromKeeps
<1>4. CASE DestroyCollections
  <2>1. /\ opened' = Closed(held) /\ held' = {} /\ entries' = entries /\ found' = found
    BY <1>4 DEF DestroyCollections, CloseLibraries
  <2>2. ASSUME NEW f \in Files
        PROVE  (IF f \in held THEN opened[f] - 1 ELSE opened[f]) \in Nat
    <3>1. CASE f \in held
      <4>1. opened[f] = 1
        BY <3>1 DEF Handles, HandlesExact
      <4>2. opened[f] - 1 = 1 - 1
        BY <4>1
      <4>3. QED BY <3>1, <4>2
    <3>2. QED BY <1>0, <3>1
  <2>3. opened' \in [Files -> Nat]
    BY <2>1, <2>2 DEF Closed
  <2>4. QED BY <1>0, <2>1, <2>3
<1>5. QED BY <1>0, <1>1, <1>2, <1>3, <1>4, LibrariesFrame DEF Load, libraries

ModulesTyped ==
    /\ specs \in Seq(Names \X Types)
    /\ Built \subseteq Names /\ DOMAIN values = Built
    /\ \A n \in Built :
        /\ moduleMap[n] \in [type : Types, code : Collections]
        /\ values[n] \in [DOMAIN parameters[moduleMap[n].type] -> Value]
    /\ unrecognized \subseteq Names /\ duplicate \subseteq Names

LEMMA BuildingTyped == TypeOK /\ Next => ModulesTyped'
<1> SUFFICES ASSUME TypeOK, Next PROVE ModulesTyped'
  OBVIOUS
<1>0. ModulesTyped
  BY DEF TypeOK, ModulesTyped
<1>1. ASSUME NEW n \in Names, NEW t \in Types, ReadModule(n, t) PROVE ModulesTyped'
  <2>1. specs' \in Seq(Names \X Types)
    <3>1. specs' = Append(specs, <<n, t>>) /\ <<n, t>> \in Names \X Types
      BY <1>1, BuildMeans
    <3>2. specs \in Seq(Names \X Types)
      BY <1>0 DEF ModulesTyped
    <3>3. QED BY <3>1, <3>2, AppendProperties
  <2>2. unrecognized' \subseteq Names /\ duplicate' \subseteq Names
    BY <1>0, <1>1, BuildMeans DEF ModulesTyped
  <2>3. CASE UNCHANGED <<moduleMap, values>>
    BY <1>0, <2>1, <2>2, <2>3 DEF ModulesTyped, Built
  <2>4. CASE /\ t \in KnownTypes
             /\ moduleMap' = Put(moduleMap, n, Module(t))
             /\ values' = Put(values, n, parameters[t])
    <3>1. FactoryOf(t) \in Collections
      BY <2>4, FactoryKept DEF TypeOK, Collections
    <3>2. Module(t) \in [type : Types, code : Collections] /\ Module(t).type = t
      BY <3>1 DEF Module
    <3>3. parameters[t] \in [DOMAIN parameters[t] -> Value]
      BY SimoSimAssumption
    <3>4. /\ Built' = Built \cup {n} /\ DOMAIN values' = Built'
          /\ \A m \in Built' : /\ moduleMap'[m] = IF m = n THEN Module(t) ELSE moduleMap[m]
                               /\ values'[m] = IF m = n THEN parameters[t] ELSE values[m]
      BY <1>0, <2>4 DEF Built, Put, ModulesTyped
    <3>5. ASSUME NEW m \in Built'
          PROVE  /\ moduleMap'[m] \in [type : Types, code : Collections]
                 /\ values'[m] \in [DOMAIN parameters[moduleMap'[m].type] -> Value]
      BY <1>0, <3>2, <3>3, <3>4 DEF ModulesTyped
    <3>6. QED BY <1>0, <2>1, <2>2, <3>4, <3>5 DEF ModulesTyped
  <2>5. QED BY <1>1, <2>3, <2>4, BuildMeans
<1>2. ASSUME NEW n \in Built, NEW p \in DOMAIN values[n], NEW v \in {"valid", "invalid"},
             SetParameter(n, p, v)
      PROVE  ModulesTyped'
  <2>1. /\ values' = [values EXCEPT ![n][p] = v]
        /\ UNCHANGED <<specs, moduleMap, unrecognized, duplicate>>
    BY <1>2 DEF SetParameter
  <2>2. Built' = Built /\ DOMAIN values' = DOMAIN values
    BY <2>1 DEF Built
  <2>3. ASSUME NEW m \in Built
        PROVE  values'[m] \in [DOMAIN parameters[moduleMap[m].type] -> Value]
    <3>1. values[m] \in [DOMAIN parameters[moduleMap[m].type] -> Value] /\ m \in DOMAIN values
      BY <1>0 DEF ModulesTyped
    <3>2. CASE m = n
      <4>1. values'[m] = [values[n] EXCEPT ![p] = v]
        BY <2>1, <3>1, <3>2
      <4>2. v \in Value
        BY DEF Value
      <4>3. QED BY <3>1, <3>2, <4>1, <4>2
    <3>3. CASE m # n
      BY <2>1, <3>1, <3>3
    <3>4. QED BY <3>2, <3>3
  <2>4. QED BY <1>0, <2>1, <2>2, <2>3 DEF ModulesTyped
<1>3. CASE DestroyModules
  <2>1. /\ moduleMap' = <<>> /\ values' = <<>>
        /\ UNCHANGED <<specs, unrecognized, duplicate>>
    BY <1>3 DEF DestroyModules
  <2>2. Built' = {} /\ DOMAIN values' = {}
    BY <2>1, NothingBuilt DEF Built
  <2>3. QED BY <1>0, <2>1, <2>2 DEF ModulesTyped
<1>4. CASE UNCHANGED building
  BY <1>0, <1>4 DEF ModulesTyped, building, Built
<1>5. QED BY <1>1, <1>2, <1>3, <1>4, BuildingFrame

LEMMA ContextTyped == TypeOK /\ Next => added' \in Seq(Names) /\ status' \in Seq(BOOLEAN)
<1> SUFFICES ASSUME TypeOK, Next PROVE added' \in Seq(Names) /\ status' \in Seq(BOOLEAN)
  OBVIOUS
<1>0. added \in Seq(Names) /\ status \in Seq(BOOLEAN)
  BY DEF TypeOK
<1>1. ASSUME NEW n \in Names, AddModule(n)
      PROVE  added' \in Seq(Names) /\ status' \in Seq(BOOLEAN)
  BY <1>0, <1>1, AppendProperties DEF AddModule
<1>2. ASSUME NEW ok \in BOOLEAN, InitializeModule(ok)
      PROVE  added' \in Seq(Names) /\ status' \in Seq(BOOLEAN)
  BY <1>0, <1>2, AppendProperties DEF InitializeModule
<1>3. CASE DestroyContext
  BY <1>0, <1>3, EmptySeq DEF DestroyContext
<1>4. QED BY <1>0, <1>1, <1>2, <1>3, ContextFrame DEF context

LEMMA WiringTyped ==
    TypeOK /\ Next => links' \in Seq(Entry) /\ peer' \in [Endpoints -> Endpoints \cup {None}]
<1> SUFFICES ASSUME TypeOK, Next
             PROVE  links' \in Seq(Entry) /\ peer' \in [Endpoints -> Endpoints \cup {None}]
  OBVIOUS
<1>0. links \in Seq(Entry) /\ peer \in [Endpoints -> Endpoints \cup {None}]
  BY DEF TypeOK, Entry
<1>1. ASSUME NEW e \in Endpoints \cup {None}, NEW f \in Endpoints \cup {None},
             ReadConnection(e, f)
      PROVE  links' \in Seq(Entry) /\ peer' \in [Endpoints -> Endpoints \cup {None}]
  <2>1. links' = Append(links, <<e, f>>) /\ <<e, f>> \in Entry
    BY <1>1 DEF ReadConnection, Entry
  <2>2. links' \in Seq(Entry)
    BY <1>0, <2>1, AppendProperties
  <2>3. \/ peer' = peer
        \/ Exists(e) /\ Exists(f) /\ peer' = [peer EXCEPT ![e] = f, ![f] = e]
    BY <1>1 DEF ReadConnection, Connect, Link
  <2>4. peer' \in [Endpoints -> Endpoints \cup {None}]
    BY <1>0, <2>3 DEF Exists
  <2>5. QED BY <2>2, <2>4
<1>2. QED BY <1>0, <1>1, WiringFrame DEF wiring

LEMMA RestTyped ==
    TypeOK /\ Next =>
        /\ folders' \in 0..MaxFolders
        /\ announced' \in {None, "ports", "no ports"}
        /\ exitCode' \in ExitCodes \cup {None}
<1> SUFFICES ASSUME TypeOK, Next
             PROVE  /\ folders' \in 0..MaxFolders
                    /\ announced' \in {None, "ports", "no ports"}
                    /\ exitCode' \in ExitCodes \cup {None}
  OBVIOUS
<1>1. \/ folders' = folders
      \/ folders < MaxFolders /\ folders' = folders + 1
  BY DEF Next, SearchFolder, Load, MapTypes, ReadConfig, ReadModule, SetParameter, ModulesRead,
         AddModule, AllAdded, InitializeModule, Initialized, DumpParameters, PrintSystemPorts,
         ReadConnection, RunAt, DestroyContext, DestroyModules, DestroyCollections
<1>2. folders \in 0..MaxFolders /\ MaxFolders \in Nat
  BY SimoSimAssumption DEF TypeOK
<1>3. folders' \in 0..MaxFolders
  BY <1>1, <1>2
<1>4. announced' \in {announced, None, "ports", "no ports"}
  BY DEF Next, SearchFolder, Load, MapTypes, ReadConfig, ReadModule, SetParameter, ModulesRead,
         AddModule, AllAdded, InitializeModule, Initialized, DumpParameters, PrintSystemPorts,
         ReadConnection, RunAt, DestroyContext, DestroyModules, DestroyCollections
<1>5. exitCode' \in ExitCodes \cup {exitCode}
  BY DEF Next, SearchFolder, Load, MapTypes, ReadConfig, ReadModule, SetParameter, ModulesRead,
         AddModule, AllAdded, InitializeModule, Initialized, DumpParameters, PrintSystemPorts,
         ReadConnection, Connect, RunAt, DestroyContext, DestroyModules, DestroyCollections,
         Leave, ExitCodes
<1>6. QED BY <1>3, <1>4, <1>5 DEF TypeOK

LEMMA TypeStep == TypeOK /\ Handles /\ Next => TypeOK'
<1> SUFFICES ASSUME TypeOK, Handles, Next PROVE TypeOK'
  OBVIOUS
<1>1. pc' \in {"load", "config", "build", "add", "initialize", "dump", "print", "connect",
               "unwind", "unwind modules", "unwind collections", "exited", "aborted", "undefined"}
  BY Stages DEF Stage, TypeOK
<1>2. QED
  BY <1>1, LibrariesTyped, BuildingTyped, ContextTyped, WiringTyped, RestTyped
     DEF TypeOK, ModulesTyped, Entry

-----------------------------------------------------------------------------
(* The invariant.                                                          *)

LEMMA InitOK == Init => IInv
<1> SUFFICES ASSUME Init PROVE IInv
  OBVIOUS
<1> USE DEF Init, LibrariesInit
<1>1. Built = {} /\ DOMAIN values = {}
  BY NothingBuilt DEF Built
<1>2. /\ Len(specs) = 0 /\ Len(added) = 0 /\ Len(status) = 0
      /\ specs \in Seq(Names \X Types) /\ added \in Seq(Names) /\ status \in Seq(BOOLEAN)
      /\ links \in Seq(Entry)
  BY EmptySeq
<1>3. TypeOK
  BY <1>1, <1>2, SimoSimAssumption DEF TypeOK, Entry
<1>4. Handles /\ Fresh /\ CodeKept /\ Passed /\ Linked /\ ExitCodeExact
  BY <1>1 DEF Handles, HandlesExact, Fresh, CodeKept, Passed, Linked, ExitCodeExact,
              Assembling, Operating
<1>5. InContext = {} /\ IsFiniteSet(InContext) /\ Cardinality(InContext) = 0
  BY <1>2, FS_EmptySet DEF InContext
<1>6. Listed
  BY <1>1, <1>2, <1>5 DEF Listed, Operating
<1>7. /\ {i \in 1..Len(specs) : specs[i][2] \notin KnownTypes} = {} /\ ~NameTwice
      /\ IsFiniteSet(Built) /\ Cardinality(Built) = 0
  BY <1>1, <1>2, FS_EmptySet DEF NameTwice
<1>8. EntriesRead
  BY <1>1, <1>2, <1>7 DEF EntriesRead
<1>9. QED BY <1>3, <1>4, <1>6, <1>8 DEF IInv

(* A step that changes nothing keeps every part.                           *)
LEMMA StutterOK == IInv /\ UNCHANGED vars => IInv'
<1> SUFFICES ASSUME IInv, UNCHANGED vars PROVE IInv'
  OBVIOUS
<1>1. /\ UNCHANGED <<opened, entries, found, held, pc, folders, specs, moduleMap, values>>
      /\ UNCHANGED <<unrecognized, duplicate, added, status, announced, links, peer, exitCode>>
  BY DEF vars, libraries, building, context, wiring
<1>2. KnownTypes' = KnownTypes /\ DuplicateTypes' = DuplicateTypes
  BY <1>1, KnownStays
<1>3. TypeOK' /\ Handles' /\ Fresh' /\ CodeKept'
  BY <1>1 DEF IInv, TypeOK, Handles, HandlesExact, Fresh, CodeKept, Built
<1>4. EntriesRead'
  BY <1>1, <1>2 DEF IInv, EntriesRead, NameTwice, Built
<1>5. Passed'
  BY <1>1, <1>2 DEF IInv, Passed
<1>6. Listed'
  BY <1>1 DEF IInv, Listed, InContext, Built, Check
<1>7. Linked' /\ Connectable' = Connectable
  BY <1>1 DEF IInv, Linked, LinksInForce, Ends, Connectable, Exists, Kind, Built
<1>8. ExitCodeExact'
  <2>1. TypesClash' = TypesClash /\ TypeMissing' = TypeMissing /\ NameTwice' = NameTwice
    BY <1>1, FaultsStay
  <2>2. SomeFailed' = SomeFailed
    BY <1>1 DEF SomeFailed
  <2>3. SomeLinkFails' = SomeLinkFails /\ EndpointMissing' = EndpointMissing
    BY <1>1, <1>7 DEF SomeLinkFails, EndpointMissing, Exists, Built
  <2>4. pc' = pc /\ exitCode' = exitCode
    BY <1>1
  <2>5. ExitCodeExact
    BY DEF IInv
  <2>6. QED BY <2>1, <2>2, <2>3, <2>4, <2>5 DEF ExitCodeExact
<1>9. QED BY <1>3, <1>4, <1>5, <1>6, <1>7, <1>8 DEF IInv

(* The stages of main() keep the invariant.                                *)
THEOREM IInvAlways == Spec => []IInv
<1>1. IInv /\ Next => IInv'
  BY TypeStep, HandlesStep, FreshStep, CodeKeptStep, EntriesReadStep, PassedStep, ListedStep,
     LinkedStep, ExitStep
     DEF IInv
<1>2. IInv /\ [Next]_vars => IInv'
  BY <1>1, StutterOK
<1>3. QED BY InitOK, <1>2, PTL DEF Spec

-----------------------------------------------------------------------------
(* What the program promises.                                              *)

(* The locals of main() keep their types, for any libraries.               *)
THEOREM SimoSimTypeCorrect == Spec => []TypeOK
<1>1. IInv => TypeOK
  BY DEF IInv
<1>2. QED BY <1>1, IInvAlways, PTL

(* Every library is open exactly as long as one collection object owns it, *)
(* however many folders are searched and by whichever exit main() leaves.  *)
THEOREM HandlesExactAlways == Spec => []HandlesExact
<1>1. IInv => HandlesExact
  BY DEF IInv, Handles
<1>2. QED BY <1>1, IInvAlways, PTL

(* The context never lists a destroyed module, and the code of a module    *)
(* that exists is in a library that is still open.                         *)
THEOREM LifetimesNestAlways == Spec => []LifetimesNest
<1>1. IInv => LifetimesNest
  <2> SUFFICES ASSUME IInv PROVE LifetimesNest
    OBVIOUS
  <2>1. InContext \subseteq Built
    BY DEF IInv, Listed
  <2>2. ASSUME NEW n \in Built, moduleMap[n].code # Core PROVE opened[moduleMap[n].code] > 0
    <3>1. moduleMap[n].code \in held /\ held \subseteq Files
      BY <2>2 DEF IInv, CodeKept, TypeOK
    <3>2. opened[moduleMap[n].code] = 1
      BY <3>1 DEF IInv, Handles, HandlesExact
    <3>3. QED BY <3>2
  <2>3. QED BY <2>1, <2>2 DEF LifetimesNest
<1>2. QED BY <1>1, IInvAlways, PTL

(* A simulation that starts has each configured module exactly once, of    *)
(* its type, with accepted parameters; no dump meets a null pointer.       *)
THEOREM ReadyToRunAlways == Spec => []ReadyToRun
<1>1. IInv => ReadyToRun
  <2> SUFFICES ASSUME IInv PROVE ReadyToRun
    OBVIOUS
  <2>1. pc # "undefined"
    BY DEF IInv, Listed
  <2>2. ASSUME pc = "connect"
        PROVE  /\ Len(added) = Len(specs) /\ InContext = Built
               /\ \A i \in 1..Len(specs) :
                    /\ specs[i][1] \in Built /\ moduleMap[specs[i][1]].type = specs[i][2]
                    /\ Check(specs[i][1])
    <3>1. pc \in Operating /\ pc \in Standing /\ pc \in Operating \ {"initialize"}
      BY <2>2 DEF Operating, Standing
    <3>2. unrecognized = {} /\ duplicate = {}
      BY <3>1 DEF IInv, Passed
    <3>3. /\ \A i \in 1..Len(specs) :
                specs[i][1] \in Built /\ moduleMap[specs[i][1]].type = specs[i][2]
          /\ Cardinality(Built) = Len(specs)
      BY <3>1, <3>2 DEF IInv, EntriesRead
    <3>4. InContext = Built /\ Cardinality(InContext) = Len(added)
      BY <3>1 DEF IInv, Listed
    <3>5. ASSUME NEW n \in InContext PROVE Check(n)
      <4>1. PICK k \in 1..Len(added) : added[k] = n
        BY DEF InContext
      <4>2. k \in 1..Len(status) /\ status[k]
        BY <3>1 DEF IInv, Listed
      <4>3. QED BY <3>1, <4>1, <4>2 DEF IInv, Listed
    <3>6. QED BY <3>3, <3>4, <3>5
  <2>3. QED BY <2>1, <2>2 DEF ReadyToRun
<1>2. QED BY <1>1, IInvAlways, PTL

(* A simulation that starts has every configured connection in force from  *)
(* both ends, but for ports that a later connection takes.                 *)
THEOREM LinksInForceAlways == Spec => []LinksInForce
<1>1. IInv => LinksInForce
  BY DEF IInv, Linked, LinksInForce
<1>2. QED BY <1>1, IInvAlways, PTL

(* The exit code names the first thing that is wrong with the program's    *)
(* input, and SUCCESS means that nothing is.                               *)
THEOREM ExitCodeExactAlways == Spec => []ExitCodeExact
<1>1. IInv => ExitCodeExact
  BY DEF IInv
<1>2. QED BY <1>1, IInvAlways, PTL
=============================================================================
