------------------------------- MODULE Logger -------------------------------
(***************************************************************************)
(* Simo::Log::Logger (include/Simo/core/Log.h, src/core/Log.cc) as modules *)
(* use it (Module::log_setup): loggers that share one stream per path      *)
(* through the static table sink_tracker, which counts its users.          *)
(*                                                                         *)
(* A logger holds a bare pointer into the table.  Loggers are set up,      *)
(* enabled, written to and destroyed in any order; opening a file may      *)
(* fail, and succeed another time.  Levels and their names are left out:   *)
(* a log call that they filter is no step.                                 *)
(***************************************************************************)
EXTENDS Integers, FiniteSets

CONSTANTS
    Loggers,   \* the Logger objects that can live at one time
    Paths,     \* the log files
    None,      \* the empty path, the null pointer
    Dangling,  \* a pointer into an entry that was erased
    MaxRefs    \* bound: the count of an entry (only a repeated setup needs it)

ASSUME LoggerAssumption ==
    /\ IsFiniteSet(Loggers) /\ None \notin Paths /\ Dangling \notin Paths /\ None # Dangling
    /\ MaxRefs \in Nat \ {0}

VARIABLES
    alive,      \* the loggers that live
    sinkPath,   \* sink_path
    sink,       \* sink: the entry it points into
    isEnabled,  \* is_enabled
    refCount,   \* ref_count of each path, 0 when sink_tracker has no entry
    unflushed,  \* the paths whose stream holds lines not yet on disk
    status,     \* "running", or "undefined" after a write through no stream
    written,    \* history: <<l, p>> when the file p holds a line of the living logger l
    leaked,     \* history: paths of which a setup replaced a reference
    recovered   \* history: was a path opened on which a living logger had failed?

loggers == <<alive, sinkPath, sink, isEnabled>>
tracker == <<refCount, unflushed>>
vars    == <<loggers, tracker, status, written, leaked, recovered>>

Init ==
    /\ alive = {}
    /\ sinkPath = [l \in Loggers |-> None] /\ sink = [l \in Loggers |-> None]
    /\ isEnabled = [l \in Loggers |-> FALSE]
    /\ refCount = [p \in Paths |-> 0] /\ unflushed = {}
    /\ status = "running"
    /\ written = {} /\ leaked = {} /\ recovered = FALSE

Create(l) ==
    /\ status = "running" /\ l \notin alive
    /\ alive' = alive \cup {l}
    /\ UNCHANGED <<sinkPath, sink, isEnabled, tracker, status, written, leaked, recovered>>

-----------------------------------------------------------------------------
(* initialize() and Module::log_setup(), which first assigns {} to the     *)
(* logger: the reference it held is given up without being counted down.   *)

Opened(p) == refCount[p] > 0

(* The latest setup of this logger was on p and failed. *)
Failed(l, p) == sinkPath[l] = p /\ sink[l] \notin {p, Dangling}

(* Seeded fault: a second user of an open file is not counted. *)
BugShareUncounted(l, p) ==
    /\ Opened(p)
    /\ sinkPath' = [sinkPath EXCEPT ![l] = p] /\ sink' = [sink EXCEPT ![l] = p]
    /\ isEnabled' = [isEnabled EXCEPT ![l] = TRUE]
    /\ UNCHANGED <<tracker, written, recovered>>

Share(l, p) ==
    /\ Opened(p) /\ refCount[p] < MaxRefs
    /\ sinkPath' = [sinkPath EXCEPT ![l] = p] /\ sink' = [sink EXCEPT ![l] = p]
    /\ isEnabled' = [isEnabled EXCEPT ![l] = TRUE]
    /\ refCount' = [refCount EXCEPT ![p] = @ + 1]
    /\ UNCHANGED <<unflushed, written, recovered>>

(* The file is truncated. *)
Open(l, p) ==
    /\ ~Opened(p)
    /\ sinkPath' = [sinkPath EXCEPT ![l] = p] /\ sink' = [sink EXCEPT ![l] = p]
    /\ isEnabled' = [isEnabled EXCEPT ![l] = TRUE]
    /\ refCount' = [refCount EXCEPT ![p] = 1]
    /\ written' = {w \in written : w[2] # p}
    /\ recovered' = (recovered \/ \E m \in alive \ {l} : Failed(m, p))
    /\ UNCHANGED unflushed

(* The path is kept although there is no entry for it; after a plain       *)
(* initialize() so are the old stream and is_enabled.                      *)
FailToOpen(l, p, reset) ==
    /\ ~Opened(p)
    /\ sinkPath' = [sinkPath EXCEPT ![l] = p]
    /\ sink' = IF reset THEN [sink EXCEPT ![l] = None] ELSE sink
    /\ isEnabled' = IF reset THEN [isEnabled EXCEPT ![l] = FALSE] ELSE isEnabled
    /\ UNCHANGED <<tracker, written, recovered>>

Setup(l, p, reset) ==
    /\ status = "running" /\ l \in alive
    /\ Share(l, p) \/ Open(l, p) \/ FailToOpen(l, p, reset)
    /\ leaked' = leaked \cup ({sink[l]} \cap Paths)
    /\ UNCHANGED <<alive, status>>

Initialize(l, p) == Setup(l, p, FALSE)
LogSetup(l, p)   == Setup(l, p, TRUE)

Enable(l, new) ==
    /\ status = "running" /\ l \in alive
    /\ isEnabled' = [isEnabled EXCEPT ![l] = new]
    /\ UNCHANGED <<alive, sinkPath, sink, tracker, status, written, leaked, recovered>>

(* log_callable() of an enabled logger writes through the pointer, whatever *)
(* it points to.                                                           *)
LogCallable(l) ==
    /\ status = "running" /\ l \in alive /\ isEnabled[l]
    /\ IF sink[l] \in Paths
       THEN /\ unflushed' = unflushed \cup {sink[l]}
            /\ written' = written \cup {<<l, sink[l]>>}
            /\ UNCHANGED status
       ELSE status' = "undefined" /\ UNCHANGED <<unflushed, written>>
    /\ UNCHANGED <<loggers, refCount, leaked, recovered>>

-----------------------------------------------------------------------------
(* Seeded fault: the table is not asked whether it has the path. *)
BugReleaseUnasked(l) ==
    IF sinkPath[l] \in Paths
    THEN /\ refCount' = [refCount EXCEPT ![sinkPath[l]] = @ - 1]
         /\ sink' = [sink EXCEPT ![l] = None] /\ UNCHANGED unflushed
    ELSE sink' = [sink EXCEPT ![l] = None] /\ UNCHANGED tracker

(* The destructor goes by sink_path, whether or not this logger was        *)
(* counted; the last user closes the stream and erases the entry.  The     *)
(* name l is free for a new logger.                                        *)
Release(l) ==
    LET p == sinkPath[l]
    IN  IF p \in Paths /\ Opened(p)
        THEN /\ refCount' = [refCount EXCEPT ![p] = @ - 1]
             /\ unflushed' = IF refCount[p] = 1 THEN unflushed \ {p} ELSE unflushed
             /\ sink' = [m \in Loggers |->
                    IF m = l THEN None
                    ELSE IF sink[m] = p /\ refCount[p] = 1 THEN Dangling ELSE sink[m]]
        ELSE sink' = [sink EXCEPT ![l] = None] /\ UNCHANGED tracker

Destroy(l) ==
    /\ status = "running" /\ l \in alive
    /\ Release(l)
    /\ alive' = alive \ {l}
    /\ sinkPath' = [sinkPath EXCEPT ![l] = None]
    /\ isEnabled' = [isEnabled EXCEPT ![l] = FALSE]
    /\ written' = {w \in written : w[1] # l}
    /\ UNCHANGED <<status, leaked, recovered>>

FlushSink(p) ==
    /\ status = "running" /\ Opened(p)
    /\ unflushed' = unflushed \ {p}
    /\ UNCHANGED <<loggers, refCount, status, written, leaked, recovered>>

FlushAllSinks ==
    /\ status = "running"
    /\ unflushed' = {p \in unflushed : ~Opened(p)}
    /\ UNCHANGED <<loggers, refCount, status, written, leaked, recovered>>

Next ==
    \/ \E l \in Loggers :
           \/ Create(l) \/ Destroy(l) \/ LogCallable(l)
           \/ \E p \in Paths : Initialize(l, p) \/ LogSetup(l, p)
           \/ \E new \in BOOLEAN : Enable(l, new)
    \/ \E p \in Paths : FlushSink(p)
    \/ FlushAllSinks

Spec == Init /\ [][Next]_vars

-----------------------------------------------------------------------------
(* The members of the loggers and of sink_tracker keep their types. *)
TypeOK ==
    /\ alive \subseteq Loggers
    /\ sinkPath \in [Loggers -> Paths \cup {None}]
    /\ sink \in [Loggers -> Paths \cup {None, Dangling}]
    /\ isEnabled \in [Loggers -> BOOLEAN]
    /\ refCount \in [Paths -> 0..MaxRefs] /\ unflushed \subseteq Paths
    /\ status \in {"running", "undefined"}
    /\ written \subseteq Loggers \X Paths /\ leaked \subseteq Paths /\ recovered \in BOOLEAN

Users(p) == {l \in alive : sinkPath[l] = p}

(* The stream a living logger writes to is open, whatever other loggers of *)
(* the same path did: were set up once or again, on this path or another,  *)
(* failed, or were destroyed.  Except after a path on which a living       *)
(* logger failed was opened by another: that logger's destructor counts    *)
(* down a reference it never had.                                          *)
NoDanglingSink ==
    ~recovered => \A l \in alive : sink[l] = None \/ (sink[l] \in Paths /\ Opened(sink[l]))

(* An open path that no setup leaked a reference of counts exactly its     *)
(* living users, so that the last one closes it, and flushes it: lines     *)
(* wait in no stream that has no user.                                     *)
RefCountExact ==
    ~recovered =>
        \A p \in Paths \ leaked :
            /\ Opened(p) => refCount[p] = Cardinality(Users(p))
            /\ p \in unflushed => Users(p) # {}

(* A file is truncated only when no living logger has written to it.       *)
LinesOfLivingKept ==
    [][\A w \in written : w[1] \in alive' /\ ~recovered' => w \in written']_vars
=============================================================================
