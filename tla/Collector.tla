------------------------------ MODULE Collector ------------------------------
(***************************************************************************)
(* Modules::Core::Collector (include/Simo/module/core/Collector.h) with    *)
(* the statistics it reads, in a Context among modules that count their    *)
(* own events, under a caller that adds, initializes and runs once, as     *)
(* SimoSim does.                                                           *)
(*                                                                         *)
(* A module is its place in the module list.  Each step is a step of       *)
(* Context and what the module called back does in it.  A module has one   *)
(* Count, created by its initialize(), incremented by its events.          *)
(***************************************************************************)
EXTENDS Context

CONSTANT None   \* no clones yet, no report yet

ASSUME NoneAssumption == \A S \in SUBSET (1..MaxModules) : None \notin [S -> Int]

VARIABLES
    collectorAt,   \* where the collector is in the module list
    window,        \* its parameters start_time and end_time
    matching,      \* the modules whose name its regular expression matches
    matchesEmpty,  \* does it match the empty name?
    monitored,     \* modules: those it will look at
    owed,          \* the schedule_at calls its initialize() has yet to make
    task,          \* what each event does: [kind, of]
    count,         \* the Count of each module
    clones,        \* mapper: the values kept for comparison
    report         \* what the file at dump_path holds

collecting == <<collectorAt, window, matching, matchesEmpty, monitored, owed, task, clones, report>>
allVars    == <<vars, collecting, count>>

Modules == 1..MaxModules

CollectorInit ==
    /\ Init
    /\ collectorAt \in Modules
    /\ window \in {w \in Times \X Times : w[1] < w[2]}    \* the validator of end_time
    /\ matching \in SUBSET (Modules \ {collectorAt}) /\ matchesEmpty \in BOOLEAN
    /\ monitored = {} /\ owed = <<>> /\ task = <<>>
    /\ count = [m \in Modules |-> 0]
    /\ clones = None /\ report = None

-----------------------------------------------------------------------------
(* The caller.                                                             *)

AddNext == state = "INITIALIZATION" /\ AddModule /\ UNCHANGED <<collecting, count>>

InitializeAll == modules = MaxModules /\ Initialize /\ UNCHANGED <<collecting, count>>

Simulate(t) ==
    /\ state = "RUNNING" /\ returned = "none"
    /\ RunAt(t)
    /\ UNCHANGED <<collecting, count>>

-----------------------------------------------------------------------------
(* initialize() of the collector and of the others.                        *)

(* A module that has not been initialized yet has an empty name.           *)
Named == 1..collectorAt
Matched == (matching \cap Named) \cup (IF matchesEmpty THEN Modules \ Named ELSE {})

CollectorInitializes ==
    /\ owed = <<>> /\ pos + 1 = collectorAt
    /\ InitializeModule(TRUE)
    /\ monitored' = Matched
    /\ owed' = <<[kind |-> "open", at |-> window[1]], [kind |-> "close", at |-> window[2]]>>
    /\ UNCHANGED <<collectorAt, window, matching, matchesEmpty, task, clones, report, count>>

CollectorSchedules ==
    /\ owed # <<>>
    /\ ScheduleAt(Head(owed).at)
    /\ task' = Append(task, [kind |-> Head(owed).kind, of |-> collectorAt])
    /\ owed' = Tail(owed)
    /\ UNCHANGED <<collectorAt, window, matching, matchesEmpty, monitored, clones, report, count>>

OtherInitializes(ok) ==
    /\ owed = <<>> /\ pos + 1 # collectorAt
    /\ InitializeModule(ok)
    /\ UNCHANGED <<collecting, count>>

(* The module whose code is running: called by initialize() or by the loop. *)
Running ==
    IF pc = "module" THEN pos ELSE task[scheduledTasks[currentTime][pos]].of

OtherSchedules(t) ==
    /\ pc \in {"module", "tick"} /\ pos > 0
    /\ Running # collectorAt
    /\ pos < collectorAt /\ pc = "module" => Len(target) + 2 < MaxTasks   \* bound: the collector's two fit
    /\ Future(t)
    /\ ScheduleAt(t)
    /\ task' = Append(task, [kind |-> "work", of |-> Running])
    /\ UNCHANGED <<collectorAt, window, matching, matchesEmpty, monitored, owed, clones, report, count>>

-----------------------------------------------------------------------------
(* The events.                                                             *)

(* Seeded fault: the statistics are searched, and cloned, each time. *)
BugCollect == [m \in monitored |-> count[m]]

(* collect() searches the statistics once, and clones them.                *)
Collect == IF clones = None THEN [m \in monitored |-> count[m]] ELSE clones

(* Seeded fault: the difference the wrong way round. *)
BugDiff(old, m) == old[m] - count[m]

(* compute_delta() of the live statistic against its clone.                *)
Diff(old, m) == count[m] - old[m]

OpenWindow ==
    /\ clones' = [m \in DOMAIN Collect |-> count[m]]
    /\ UNCHANGED <<report, count>>

CloseWindow ==
    /\ clones' = Collect
    /\ report' = [m \in DOMAIN Collect |-> Diff(Collect, m)]
    /\ UNCHANGED count

CountWork(m) ==
    /\ count' = [count EXCEPT ![m] = @ + 1]
    /\ UNCHANGED <<clones, report>>

CallEvent ==
    /\ CallTask
    /\ LET called == task[scheduledTasks[currentTime][pos + 1]]
       IN  CASE called.kind = "open"  -> OpenWindow
             [] called.kind = "close" -> CloseWindow
             [] called.kind = "work"  -> CountWork(called.of)
    /\ UNCHANGED <<collectorAt, window, matching, matchesEmpty, monitored, owed, task>>

(* Steps of the scheduler that call nobody back.                           *)
Schedule ==
    /\ owed = <<>>
    /\ \/ ModulesDone \/ PushTick \/ LeaveInitialize
       \/ Start \/ QueueDrained \/ FinalTimeReached \/ NextTick \/ EndTick
    /\ UNCHANGED <<collecting, count>>

CollectorNext ==
    \/ AddNext \/ InitializeAll \/ (\E t \in Times : Simulate(t))
    \/ CollectorInitializes \/ CollectorSchedules
    \/ (\E ok \in BOOLEAN : OtherInitializes(ok)) \/ (\E t \in Times : OtherSchedules(t))
    \/ CallEvent \/ Schedule

CollectorSpec == CollectorInit /\ [][CollectorNext]_allVars

-----------------------------------------------------------------------------
(* The order in which the loop calls two events. *)
Before(d, e) == target[d] < target[e] \/ (target[d] = target[e] /\ d < e)

InWindow(e) ==
    \A d \in Issued :
        /\ task[d].kind = "open"  => Before(d, e)
        /\ task[d].kind = "close" => Before(e, d)

(* The configuration of the guided example: statistics are collected       *)
(* between start_time and end_time.  The report counts exactly the work    *)
(* of those ticks, that of the two boundary ticks by the order in which it *)
(* was scheduled, whatever was scheduled when, by whom, before the window, *)
(* in it or after it.                                                      *)
(* A simulation that lasts until end_time leaves a report.                 *)
ReportExact ==
    /\ report # None =>
        \A m \in monitored : report[m] = Cardinality({e \in Issued :
            task[e].kind = "work" /\ task[e].of = m /\ InWindow(e)})
    /\ pc = "idle" /\ (returned = "STOPPED" \/ (returned # "none" /\ window[2] <= currentTime))
        => report # None
=============================================================================
