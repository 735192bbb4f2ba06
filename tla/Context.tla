------------------------------- MODULE Context -------------------------------
(***************************************************************************)
(* Simo::Context (include/Simo/core/Context.h, src/core/Context.cc): the   *)
(* registry of modules, the scheduler of events and the simulation loop,   *)
(* with the radix heap it owns.                                            *)
(*                                                                         *)
(* One thread runs everything.  What interleaves is the caller of the      *)
(* public methods (pc = "idle"), Module::initialize called back from       *)
(* initialize() (pc = "module") and the events called back from run_at()   *)
(* (pc = "tick"); all three may schedule.  An event is the number of the   *)
(* schedule call that made it.                                             *)
(***************************************************************************)
EXTENDS RadixHeapData, Sequences

CONSTANTS
    Client,      \* what the callers respect, see below
    NDEBUG,      \* SIMO_ASSERT compiled out?
    MaxTasks,    \* bound: schedule calls in all
    MaxModules,  \* bound: entries of the module list
    MaxQueued    \* bound: ticks in the heap (only a repeated initialize() comes near it)

(* "any": any public method at any time with any argument.                 *)
(* "documented": events in the future only, or else the assertion stops    *)
(*   them; runs that end in the future, initialize() at most once and      *)
(*   before the first run.                                                 *)
(* "ordered": documented, and between two runs no event is scheduled       *)
(*   before the top of the heap.                                           *)
ASSUME ClientAssumption == Client \in {"any", "documented", "ordered"}
ASSUME NDEBUGAssumption == NDEBUG \in BOOLEAN
ASSUME BoundsAssumption == MaxTasks \in Nat /\ MaxModules \in Nat /\ MaxQueued \in Nat

VARIABLES
    state, currentTime, nextTickHeap,  \* the members of the class
    ticks,                             \* keys of scheduledTasks: never erased
    scheduledTasks,                    \* the events of each tick, in call order
    modules,     \* how many entries the module list has; whose they are, the scheduler never asks
    pc,          \* where the thread is
    pos,         \* how far the range-for at pc has come
    unpushed,    \* ticks initialize() has yet to push
    success,     \* InitializationStatus of the latest initialize()
    inRun,       \* initialize() called from run_at()?
    finalTime,   \* argument of the run_at() in progress
    returned,    \* what the latest run_at() returned
    target,      \* history: the tick each event was scheduled for
    executed     \* history: the events called, in order

members == <<state, currentTime, nextTickHeap, ticks, scheduledTasks, modules>>
control == <<pc, pos, unpushed, success, inRun, finalTime, returned>>
vars    == <<members, control, target, executed>>

Times  == Values
Events == 1..MaxTasks
Plus(a, b) == (a + b) % Pow2[NUM_BITS]      \* Time::operator+ on uint64_t

Init ==
    /\ state = "INITIALIZATION" /\ currentTime = 0
    /\ nextTickHeap = NewHeap
    /\ ticks = {} /\ scheduledTasks = [t \in Times |-> <<>>]
    /\ modules = 0
    /\ pc = "idle" /\ pos = 0 /\ unpushed = {} /\ success = TRUE
    /\ inRun = FALSE /\ finalTime = 0 /\ returned = "none"
    /\ target = <<>> /\ executed = <<>>

-----------------------------------------------------------------------------
(* schedule_at and schedule_in.                                            *)

(* The condition of the assertion. *)
Future(t) == state = "INITIALIZATION" \/ currentTime < t

(* The vector of this tick is the one the loop of run_at() walks. *)
Iterating(t) == pc = "tick" /\ t = currentTime

File(t, events, wakes) ==
    /\ scheduledTasks' = [scheduledTasks EXCEPT ![t] = events]
    /\ ticks' = ticks \cup {t}
    /\ nextTickHeap' = IF wakes THEN Push(nextTickHeap, t) ELSE nextTickHeap
    /\ target' = Append(target, t)
    /\ UNCHANGED <<state, currentTime, modules, control, executed>>

WithNewest(t) == Append(scheduledTasks[t], Len(target) + 1)

(* Seeded faults: the newest event of a tick first; a push for every event, *)
(* for the second event of a tick instead of the first, and only RUNNING.  *)
BugEnqueueNewestFirst(t) ==
    File(t, <<Len(target) + 1>> \o scheduledTasks[t],
         state # "INITIALIZATION" /\ scheduledTasks[t] = <<>>)
BugEnqueuePushesAlways(t) == File(t, WithNewest(t), state # "INITIALIZATION")
BugEnqueuePushesSecond(t) ==
    File(t, WithNewest(t), state # "INITIALIZATION" /\ Len(scheduledTasks[t]) = 1)
BugEnqueueOnlyRunning(t) ==
    File(t, WithNewest(t), state = "RUNNING" /\ scheduledTasks[t] = <<>>)

(* Before initialize() the event only goes into the map; later the first   *)
(* event of a tick puts the tick into the heap.                            *)
Enqueue(t) ==
    File(t, WithNewest(t), state # "INITIALIZATION" /\ scheduledTasks[t] = <<>>)

AssertionFails ==
    /\ ~NDEBUG
    /\ pc' = "aborted"
    /\ UNCHANGED <<members, pos, unpushed, success, inRun, finalTime, returned, target, executed>>

(* Without assertions an event for the tick being walked grows the vector  *)
(* under the loop.  Either the storage stays and the event lies beyond the *)
(* loop's end, to be dropped by clear(); or it moves and the loop goes on  *)
(* in freed memory.                                                        *)
GrowUnderLoop(t) ==
    \/ /\ target' = Append(target, t)
       /\ UNCHANGED <<members, control, executed>>
    \/ /\ pc' = "undefined"
       /\ UNCHANGED <<members, pos, unpushed, success, inRun, finalTime, returned, target, executed>>

CallerMaySchedule(t) ==
    /\ pc = "idle" \/ (pc \in {"module", "tick"} /\ pos > 0)
    /\ Len(target) < MaxTasks
    /\ nextTickHeap.size < MaxQueued
    /\ Client # "any" => Future(t) \/ ~NDEBUG
    /\ Client = "ordered" /\ pc = "idle" /\ ~Empty(nextTickHeap) => Peek(nextTickHeap) <= t

ScheduleAt(t) ==
    /\ CallerMaySchedule(t)
    /\ \/ ~Future(t) /\ AssertionFails
       \/ (Future(t) \/ NDEBUG) /\ ~Iterating(t) /\ Enqueue(t)
       \/ ~Future(t) /\ NDEBUG /\ Iterating(t) /\ GrowUnderLoop(t)

ScheduleIn(d) == ScheduleAt(Plus(currentTime, d))

-----------------------------------------------------------------------------
(* The module list.                                                        *)

AddModule ==
    /\ pc = "idle" /\ modules < MaxModules
    /\ modules' = modules + 1
    /\ UNCHANGED <<state, currentTime, nextTickHeap, ticks, scheduledTasks, control, target, executed>>

(* Every entry of the module goes: none, one or several. *)
RemoveModule(entries) ==
    /\ pc = "idle"
    /\ modules' = modules - entries
    /\ UNCHANGED <<state, currentTime, nextTickHeap, ticks, scheduledTasks, control, target, executed>>

-----------------------------------------------------------------------------
(* initialize(): every module in turn, whatever the others returned, then  *)
(* every key of scheduledTasks, sorted, into the heap.                     *)

EnterInitialize ==
    /\ pc' = "module" /\ pos' = 0 /\ success' = TRUE

Initialize ==
    /\ pc = "idle"
    /\ Client # "any" => state = "INITIALIZATION"
    /\ nextTickHeap.size + Cardinality(ticks) + MaxTasks <= MaxQueued
    /\ EnterInitialize /\ inRun' = FALSE
    /\ UNCHANGED <<members, unpushed, finalTime, returned, target, executed>>

InitializeModule(ok) ==
    /\ pc = "module" /\ pos < modules
    /\ pos' = pos + 1 /\ success' = (success /\ ok)
    /\ UNCHANGED <<members, pc, unpushed, inRun, finalTime, returned, target, executed>>

ModulesDone ==
    /\ pc = "module" /\ pos = modules
    /\ pc' = "push" /\ pos' = 0 /\ unpushed' = ticks
    /\ UNCHANGED <<members, success, inRun, finalTime, returned, target, executed>>

(* Seeded fault: the keys pushed without sorting them. *)
BugPushUnsorted ==
    /\ pc = "push" /\ \E t \in unpushed : /\ nextTickHeap' = Push(nextTickHeap, t)
                                         /\ unpushed' = unpushed \ {t}
    /\ UNCHANGED <<state, currentTime, ticks, scheduledTasks, modules, pc, pos, success, inRun,
                   finalTime, returned, target, executed>>

PushTick ==
    /\ pc = "push" /\ unpushed # {}
    /\ nextTickHeap' = Push(nextTickHeap, Min(unpushed))
    /\ unpushed' = unpushed \ {Min(unpushed)}
    /\ UNCHANGED <<state, currentTime, ticks, scheduledTasks, modules, pc, pos, success, inRun,
                   finalTime, returned, target, executed>>

LeaveInitialize ==
    /\ pc = "push" /\ unpushed = {}
    /\ state' = IF success THEN "RUNNING" ELSE "ERROR"
    /\ IF inRun /\ success
       THEN pc' = "start" /\ UNCHANGED <<finalTime, returned>>
       ELSE /\ pc' = "idle" /\ finalTime' = 0
            /\ returned' = IF inRun THEN "unexpected" ELSE returned
    /\ inRun' = FALSE
    /\ UNCHANGED <<currentTime, nextTickHeap, ticks, scheduledTasks, modules, pos, unpushed,
                   success, target, executed>>

-----------------------------------------------------------------------------
(* run_at() and run().                                                     *)

RunAt(t) ==
    /\ pc = "idle"
    /\ Client # "any" => currentTime < t
    /\ finalTime' = t
    /\ IF state = "INITIALIZATION"
       THEN EnterInitialize /\ inRun' = TRUE
       ELSE pc' = "start" /\ UNCHANGED <<pos, success, inRun>>
    /\ UNCHANGED <<members, unpushed, returned, target, executed>>

Run(d) == RunAt(Plus(currentTime, d))

Start ==
    /\ pc = "start"
    /\ state' = "RUNNING"
    /\ pc' = IF currentTime < finalTime \/ NDEBUG THEN "loop" ELSE "aborted"
    /\ UNCHANGED <<currentTime, nextTickHeap, ticks, scheduledTasks, modules, pos, unpushed,
                   success, inRun, finalTime, returned, target, executed>>

Return(status) ==
    /\ pc' = "idle" /\ finalTime' = 0 /\ returned' = status
    /\ UNCHANGED <<nextTickHeap, ticks, scheduledTasks, modules, pos, unpushed, success, inRun,
                   target, executed>>

QueueDrained ==
    /\ pc = "loop" /\ Empty(nextTickHeap)
    /\ state' = "STOPPED" /\ UNCHANGED currentTime
    /\ Return("STOPPED")

(* Seeded fault: >= for > when the next tick is compared. *)
BugFinalTimeExcluded ==
    /\ pc = "loop" /\ ~Empty(nextTickHeap) /\ Peek(nextTickHeap) >= finalTime
    /\ currentTime' = finalTime /\ UNCHANGED state
    /\ Return("EVENTS_IN_QUEUE")

FinalTimeReached ==
    /\ pc = "loop" /\ ~Empty(nextTickHeap) /\ Peek(nextTickHeap) > finalTime
    /\ currentTime' = finalTime /\ UNCHANGED state
    /\ Return("EVENTS_IN_QUEUE")

NextTick ==
    /\ pc = "loop" /\ ~Empty(nextTickHeap) /\ Peek(nextTickHeap) <= finalTime
    /\ currentTime' = Peek(nextTickHeap)
    /\ pc' = "tick" /\ pos' = 0
    /\ UNCHANGED <<state, nextTickHeap, ticks, scheduledTasks, modules, unpushed, success, inRun,
                   finalTime, returned, target, executed>>

CallTask ==
    /\ pc = "tick" /\ pos < Len(scheduledTasks[currentTime])
    /\ pos' = pos + 1
    /\ executed' = Append(executed, scheduledTasks[currentTime][pos + 1])
    /\ UNCHANGED <<members, pc, unpushed, success, inRun, finalTime, returned, target>>

(* Seeded fault: the tick is cleared and not popped. *)
BugEndTickWithoutPop ==
    /\ pc = "tick" /\ pos = Len(scheduledTasks[currentTime])
    /\ scheduledTasks' = [scheduledTasks EXCEPT ![currentTime] = <<>>]
    /\ pc' = "loop" /\ pos' = 0
    /\ UNCHANGED <<state, currentTime, nextTickHeap, ticks, modules, unpushed, success, inRun,
                   finalTime, returned, target, executed>>

EndTick ==
    /\ pc = "tick" /\ pos = Len(scheduledTasks[currentTime])
    /\ scheduledTasks' = [scheduledTasks EXCEPT ![currentTime] = <<>>]
    /\ nextTickHeap' = Pop(nextTickHeap)
    /\ pc' = "loop" /\ pos' = 0
    /\ UNCHANGED <<state, currentTime, ticks, modules, unpushed, success, inRun, finalTime,
                   returned, target, executed>>

-----------------------------------------------------------------------------
(* Steps of the library itself, once it has been called. *)
Library ==
    \/ \E ok \in BOOLEAN : InitializeModule(ok)
    \/ ModulesDone \/ PushTick \/ LeaveInitialize
    \/ Start \/ QueueDrained \/ FinalTimeReached \/ NextTick \/ CallTask \/ EndTick

(* Calls of its users. *)
Callers ==
    \/ \E t \in Times : ScheduleAt(t) \/ ScheduleIn(t) \/ RunAt(t) \/ Run(t)
    \/ AddModule \/ (\E n \in 0..modules : RemoveModule(n))
    \/ Initialize

Next == Library \/ Callers

Spec == Init /\ [][Next]_vars

(* A call of the library goes on until it returns: callbacks return. *)
FairSpec == Spec /\ WF_vars(Library)

-----------------------------------------------------------------------------
(* The members of Context and the state of its loops keep their types.     *)
TypeOK ==
    /\ state \in {"INITIALIZATION", "RUNNING", "STOPPED", "ERROR"}
    /\ currentTime \in Times /\ finalTime \in Times
    /\ nextTickHeap \in Heaps
    /\ ticks \subseteq Times /\ unpushed \subseteq Times
    /\ scheduledTasks \in [Times -> Seq(Events)]
    /\ modules \in Nat
    /\ pc \in {"idle", "module", "push", "start", "loop", "tick", "aborted", "undefined"}
    /\ pos \in Nat /\ success \in BOOLEAN /\ inRun \in BOOLEAN
    /\ returned \in {"none", "unexpected", "EVENTS_IN_QUEUE", "STOPPED"}
    /\ target \in Seq(Times) /\ Len(target) <= MaxTasks
    /\ executed \in Seq(Events)

Called == {executed[i] : i \in 1..Len(executed)}
Issued == 1..Len(target)
Pending(t) == scheduledTasks[t] # <<>>

(* The heap never loses its shape or a tick in the hands of the scheduler, *)
(* whatever the callers do.                                                *)
HeapSound == HeapOK(nextTickHeap)

(* No lost wakeup: once initialize() has run, run_at() will find every     *)
(* tick that has events, whatever order schedule_at, initialize and the    *)
(* clear/pop at the end of a tick come in.                                 *)
TickQueued ==
    state # "INITIALIZATION" => \A t \in Times : Pending(t) => Contents(nextTickHeap)[t] > 0

(* schedule_at pushes a tick when the first event makes it non-empty, and  *)
(* the loop clears and pops together: a tick is in the heap once or never. *)
QueuedOnce ==
    state # "INITIALIZATION" =>
        \A t \in Times : Contents(nextTickHeap)[t] = IF Pending(t) THEN 1 ELSE 0

(* When run_at() has returned, nothing that was due is left uncalled.      *)
NoneOverdue ==
    pc = "idle" /\ returned \in {"EVENTS_IN_QUEUE", "STOPPED"} =>
        \A e \in Issued : target[e] <= currentTime => e \in Called

(* run_at() answers STOPPED only when every event ever scheduled has been  *)
(* called.                                                                 *)
StoppedMeansDone == [][pc = "loop" /\ state' = "STOPPED" => Called = Issued]_vars

(* current_time() never decreases.                                         *)
TimeNeverGoesBack == [][currentTime <= currentTime']_vars

(* Context.h: run_at() initializes a context that is not initialized before *)
(* the execution, so no event is called after a failed initialization.     *)
ExecutesInitialized == [][executed' # executed => success]_vars

(* The scheduler implements the abstract schedule.                         *)
ES == INSTANCE EventSchedule WITH
        Ticks <- Times, now <- currentTime, due <- target, fired <- executed
ImplementsEventSchedule == ES!Spec

(* Events are called in the order of their ticks, those of one tick in the *)
(* order they were scheduled, and none of them twice.                      *)
InOrder == ES!InOrder

(* What a run has left, each part counting before the next: the ticks the  *)
(* clock may still stop at, the phase of the loop, and the events of the   *)
(* tick being walked.                                                      *)
Looping   == pc \in {"start", "loop", "tick"}
StopsLeft == {t \in Times : currentTime < t \/ (t = currentTime /\ Pending(t))}
Phase     == IF pc = "start" THEN 3 ELSE IF pc = "loop" THEN 2 ELSE 1
TasksLeft == IF pc = "tick" THEN Len(scheduledTasks[currentTime]) - pos ELSE 0

Closer ==
    /\ StopsLeft' \subseteq StopsLeft
    /\ \/ StopsLeft' # StopsLeft
       \/ Phase' < Phase
       \/ Phase' = Phase /\ 0 <= TasksLeft' /\ TasksLeft' < TasksLeft

(* The loop of run_at() does not go round in vain: an event called from it *)
(* can only schedule for ticks still to come, which adds nothing to what   *)
(* is left, and every other step comes closer to the end; no tick is       *)
(* walked twice.                                                           *)
RunProgresses ==
    [][Looping /\ Looping' =>
         IF target' = target THEN Closer ELSE UNCHANGED <<StopsLeft, Phase, TasksLeft>>]_vars

(* Every call returns: initialize() and the loop of run_at() end.          *)
CallsReturn == pc \notin {"idle", "aborted"} ~> pc \in {"idle", "aborted"}
=============================================================================
