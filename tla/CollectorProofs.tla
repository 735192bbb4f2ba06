--------------------------- MODULE CollectorProofs ---------------------------
(***************************************************************************)
(* The report of the collector is exact, for any width of tick, any number *)
(* of modules and events, any window, and whatever the other modules       *)
(* schedule: with assertions and without.                                  *)
(***************************************************************************)
EXTENDS Collector, ContextProofs

Opens(e)  == e \in Issued /\ task[e].kind = "open"
Closes(e) == e \in Issued /\ task[e].kind = "close"

(* The work of a module: what has been called, and what comes before an    *)
(* event.                                                                  *)
Work(m)       == {e \in Issued : task[e].kind = "work" /\ task[e].of = m}
Worked(m)     == Work(m) \cap Called
Earlier(m, d) == {e \in Work(m) : Before(e, d)}

CollectorTypes ==
    /\ collectorAt \in Modules /\ window \in Times \X Times /\ window[1] < window[2]
    /\ monitored \subseteq Modules
    /\ count \in [Modules -> Nat]
    /\ task \in Seq([kind : {"open", "close", "work"}, of : Modules]) /\ Len(task) = Len(target)

(* One initialize(), then one run, of a program that nothing stops. *)
OneRun ==
    /\ modules <= MaxModules /\ (pc = "module" => pos <= modules)
    /\ pc # "idle" \/ state # "INITIALIZATION" => modules = MaxModules
    /\ pc \in {"idle", "module", "push", "start", "loop", "tick"}
    /\ inRun = FALSE
    /\ pc = "start" => currentTime < finalTime
    /\ returned # "none" =>
          pc = "idle" /\ state # "INITIALIZATION" /\ returned \in {"EVENTS_IN_QUEUE", "STOPPED"}
    /\ returned = "STOPPED" => Called = Issued

(* initialize() of the collector has been called. *)
Collects ==
    \/ pc = "module" /\ collectorAt <= pos
    \/ pc = "push" \/ state # "INITIALIZATION"

Opening == [kind |-> "open", at |-> window[1]]
Closing == [kind |-> "close", at |-> window[2]]

(* The two events of the window: each filed once, at its end of the window. *)
Window ==
    /\ owed \in {<<>>, <<Closing>>, <<Opening, Closing>>}
    /\ owed # <<>> => pc = "module" /\ pos = collectorAt
    /\ (\E o \in Issued : Opens(o)) <=> Collects /\ owed # <<Opening, Closing>>
    /\ (\E c \in Issued : Closes(c)) <=> Collects /\ owed = <<>>
    /\ \A d, e \in Issued : (Opens(d) /\ Opens(e)) \/ (Closes(d) /\ Closes(e)) => d = e
    /\ \A e \in Issued : /\ Opens(e) => target[e] = window[1]
                         /\ Closes(e) => target[e] = window[2]

(* A Count is how often the work of its module has been called; the clones *)
(* are what it was when the window opened, the report is the difference.   *)
Counts == \A m \in Modules : count[m] = Cardinality(Worked(m))

Clones ==
    /\ clones # None => \E o \in Called : Opens(o)
    /\ \A o \in Called : Opens(o) => clones = [m \in monitored |-> Cardinality(Earlier(m, o))]

Report ==
    /\ report # None => \E c \in Called : Closes(c)
    /\ \A o, c \in Called : Opens(o) /\ Closes(c) =>
          report = [m \in monitored |-> Cardinality(Earlier(m, c)) - Cardinality(Earlier(m, o))]

CollectorInv == CollectorTypes /\ OneRun /\ Window /\ Counts /\ Clones /\ Report

-----------------------------------------------------------------------------
(* The steps of the program are steps of the scheduler. *)

(* The two calls of initialize(), and what they file. *)
LEMMA OwedFacts ==
    ASSUME CollectorTypes, Window, owed # <<>>
    PROVE  /\ Head(owed).at \in Times /\ Head(owed).kind \in {"open", "close"}
           /\ \/ owed = <<Opening, Closing>> /\ Head(owed) = Opening /\ Tail(owed) = <<Closing>>
              \/ owed = <<Closing>> /\ Head(owed) = Closing /\ Tail(owed) = <<>>
<1>1. window[1] \in Times /\ window[2] \in Times
  BY DEF CollectorTypes
<1>2. CASE owed = <<Opening, Closing>>
  <2>1. Head(owed) = Opening /\ Tail(owed) = <<Closing>>
    BY <1>2
  <2>2. QED BY <1>1, <1>2, <2>1 DEF Opening
<1>3. CASE owed = <<Closing>>
  <2>1. Head(owed) = Closing /\ Tail(owed) = <<>>
    BY <1>3
  <2>2. QED BY <1>1, <1>3, <2>1 DEF Closing
<1>4. QED BY <1>2, <1>3 DEF Window

LEMMA CollectorCalls ==
    CollectorInv /\ [CollectorNext]_allVars => [Next]_vars
<1> SUFFICES ASSUME CollectorInv, CollectorNext PROVE Next
  BY DEF allVars
<1>1. CASE AddNext \/ InitializeAll \/ \E t \in Times : Simulate(t)
  BY <1>1 DEF AddNext, InitializeAll, Simulate, Next, Callers
<1>2. CASE CollectorInitializes \/ \E ok \in BOOLEAN : OtherInitializes(ok)
  BY <1>2 DEF CollectorInitializes, OtherInitializes, Next, Library
<1>3. CASE CollectorSchedules
  BY <1>3, OwedFacts DEF CollectorSchedules, CollectorInv, Next, Callers
<1>4. CASE \E t \in Times : OtherSchedules(t)
  BY <1>4 DEF OtherSchedules, Next, Callers
<1>5. CASE CallEvent \/ Schedule
  BY <1>5 DEF CallEvent, Schedule, Next, Library
<1>6. QED BY <1>1, <1>2, <1>3, <1>4, <1>5 DEF CollectorNext

-----------------------------------------------------------------------------
(* Sets of events. *)

LEMMA EventsFinite ==
    ASSUME TypeOK
    PROVE  /\ Issued \subseteq Nat /\ \A S \in SUBSET Issued : IsFiniteSet(S) /\ Cardinality(S) \in Nat
           /\ \A e \in Issued : target[e] \in Nat
<1>1. Len(target) \in Nat /\ \A e \in Issued : target[e] \in Nat
  BY EventTypes, TimesFacts
<1>2. IsFiniteSet(Issued)
  BY <1>1, FS_Interval DEF Issued
<1>3. \A S \in SUBSET Issued : IsFiniteSet(S) /\ Cardinality(S) \in Nat
  BY <1>2, FS_Subset, FS_CardinalityType
<1>4. QED BY <1>1, <1>3 DEF Issued

(* What comes before an event that has been called has been called.        *)
LEMMA EarlierCalled ==
    ASSUME TypeOK, OrderInv, NEW d \in Called, NEW e \in Issued, Before(e, d)
    PROVE  e \in Called
<1>1. SUFFICES ASSUME e \notin Called PROVE FALSE
  OBVIOUS
<1>2. d \in Issued /\ (target[d] < target[e] \/ (target[d] = target[e] /\ d < e))
  BY <1>1, CalledFirst
<1>3. d \in Nat /\ e \in Nat /\ target[d] \in Nat /\ target[e] \in Nat
  BY <1>2, EventsFinite
<1>4. QED BY <1>2, <1>3 DEF Before

(* A step that leaves the events and what is kept of them alone.           *)
Data == CollectorTypes /\ Counts /\ Clones /\ Report

LEMMA DataFrame ==
    ASSUME Data, UNCHANGED <<target, executed, task, collectorAt, window, monitored, clones, report, count>>
    PROVE  Data'
<1>1. Issued' = Issued /\ Called' = Called
  BY DEF Issued, Called
<1>2. \A m : Work(m)' = Work(m)
  BY <1>1 DEF Work
<1>3. \A m, d : Earlier(m, d)' = Earlier(m, d) /\ Worked(m)' = Worked(m)
  BY <1>1, <1>2 DEF Earlier, Worked, Before
<1>4. \A e : (Opens(e)' <=> Opens(e)) /\ (Closes(e)' <=> Closes(e))
  BY <1>1 DEF Opens, Closes
<1>5. Counts'
  BY <1>3 DEF Data, Counts
<1>6. Clones'
  BY <1>1, <1>3, <1>4 DEF Data, Clones
<1>7. Report'
  BY <1>1, <1>3, <1>4 DEF Data, Report
<1>8. QED BY <1>5, <1>6, <1>7 DEF Data, CollectorTypes

(* A new event changes nothing about those that have been called: it comes *)
(* after all of them.                                                      *)
LEMMA Issuing ==
    ASSUME CollectorInv, SchedulerInv, SchedulerInv', NEW t \in Times, ScheduleAt(t), Future(t),
           NEW x \in [kind : {"open", "close", "work"}, of : Modules], task' = Append(task, x),
           UNCHANGED <<collectorAt, window, monitored, clones, report, count>>,
           NEW n, n = Len(target) + 1
    PROVE  /\ Data'
           /\ Issued' = Issued \cup {n} /\ n \notin Issued /\ Called' = Called
           /\ target'[n] = t /\ task'[n] = x
           /\ \A e \in Issued : target'[e] = target[e] /\ task'[e] = task[e]
           /\ UNCHANGED <<state, currentTime, modules, pc, pos, inRun, finalTime, returned>>
<1>1. /\ target' = Append(target, t) /\ executed' = executed
      /\ UNCHANGED <<state, currentTime, modules, pc, pos, inRun, finalTime, returned>>
  BY FutureEnqueues DEF control
<1>2. TypeOK /\ TypeOK' /\ OrderInv /\ OrderInv'
  BY DEF SchedulerInv, ClockInv, OnceInv, TickInv
<1>3. /\ Issued' = Issued \cup {n} /\ n \notin Issued /\ Called' = Called /\ Len(target') = n
      /\ target'[n] = t /\ \A e \in Issued : target'[e] = target[e]
  <2>1. Called' = Called
    BY <1>1 DEF Called
  <2>2. QED BY <1>1, <1>2, <2>1, IssuedAfter
<1>4. /\ task' \in Seq([kind : {"open", "close", "work"}, of : Modules]) /\ Len(task') = n
      /\ task'[n] = x /\ \A e \in Issued : task'[e] = task[e]
  BY AppendProperties DEF CollectorInv, CollectorTypes, Issued
<1>5. CollectorTypes'
  BY <1>3, <1>4 DEF CollectorInv, CollectorTypes
<1>6. Called \subseteq Issued
  BY <1>2, CalledFirst
<1>7. \A m : Worked(m)' = Worked(m)
  BY <1>3, <1>4, <1>6 DEF Worked, Work
<1>8. \A m : \A d \in Called : Earlier(m, d)' = Earlier(m, d)
  <2>1. \A d \in Called : ~Before(n, d)'
    <3>1. SUFFICES ASSUME NEW d \in Called, Before(n, d)' PROVE FALSE
      OBVIOUS
    <3>2. PICK i \in 1..Len(executed) : d = executed[i]
      BY DEF Called
    <3>3. n \in ES!Waiting'
      BY <1>1, <1>3, <1>6 DEF ES!Waiting, Issued, Called
    <3>4. target'[d] < t \/ (target'[d] = t /\ d < n)
      <4>1. i \in 1..Len(executed') /\ executed'[i] = d
        BY <1>1, <3>2
      <4>2. FiredFirst'
        BY <1>2 DEF OrderInv
      <4>3. QED BY <1>3, <3>3, <4>1, <4>2 DEF FiredFirst
    <3>5. target'[d] \in Nat /\ t \in Nat /\ d \in Nat /\ n \in Nat
      <4>1. target'[d] = target[d] /\ target[d] \in Nat /\ d \in Nat
        BY <1>2, <1>3, <1>6, EventsFinite
      <4>2. QED BY <1>1, <1>2, <4>1, TimesFacts, EventTypes
    <3>6. QED BY <1>3, <3>1, <3>4, <3>5 DEF Before
  <2>2. \A d \in Called, e \in Issued : Before(e, d)' <=> Before(e, d)
    BY <1>3, <1>6 DEF Before
  <2>3. QED BY <1>3, <1>4, <2>1, <2>2 DEF Earlier, Work
<1>9. Counts'
  BY <1>7 DEF CollectorInv, Counts
<1>10. \A d \in Called : (Opens(d)' <=> Opens(d)) /\ (Closes(d)' <=> Closes(d))
  BY <1>3, <1>4, <1>6 DEF Opens, Closes
<1>11. Clones' /\ Report'
  BY <1>3, <1>8, <1>10 DEF CollectorInv, Clones, Report
<1>12. QED BY <1>1, <1>3, <1>4, <1>5, <1>9, <1>11 DEF Data

(* What a call finds: all before its event has been called, and no more.   *)
LEMMA Calling ==
    ASSUME CollectorInv, SchedulerInv, CallTask, UNCHANGED task,
           NEW e, e = scheduledTasks[currentTime][pos + 1]
    PROVE  /\ e \in Issued /\ e \notin Called /\ Called' = Called \cup {e}
           /\ UNCHANGED <<target, state, currentTime, modules, pc, inRun, finalTime, returned, Issued>>
           /\ \A d \in Called : Before(d, e)
           /\ \A d \in Issued : Before(d, e) => d \in Called
           /\ \A m : Earlier(m, e) = Worked(m)
           /\ pc = "tick"
<1>1. TypeOK /\ OrderInv /\ ClockInv /\ EventsInv /\ pc = "tick"
  BY DEF SchedulerInv, EventsHeld, ClockInv, OnceInv, TickInv, CallTask
<1>2. e \in Issued /\ ES!Fire(e) /\ target[e] = currentTime /\ executed' = Append(executed, e)
  BY <1>1, CallFires DEF Issued
<1>3. e \notin Called
  BY <1>2, WaitingIs DEF ES!Fire
<1>4. Called' = Called \cup {e}
  BY <1>1, <1>2, CalledAfter
<1>5. \A d \in Called : Before(d, e)
  BY <1>1, <1>2, <1>3, CalledFirst DEF Before
<1>6. ASSUME NEW d \in Issued, Before(d, e) PROVE d \in Called
  <2>1. SUFFICES ASSUME d \notin Called PROVE FALSE
    OBVIOUS
  <2>2. (currentTime < target[d] \/ e <= d) /\ currentTime <= target[d]
    BY <1>1, <1>2, <2>1, WaitingIs, CalledFirst DEF ES!Fire
  <2>3. target[d] \in Nat /\ target[e] \in Nat /\ d \in Nat /\ e \in Nat
    BY <1>1, <1>2, EventsFinite
  <2>4. QED BY <1>2, <1>6, <2>2, <2>3 DEF Before
<1>7. \A m : Earlier(m, e) = Worked(m)
  BY <1>5, <1>6 DEF Earlier, Worked, Work
<1>8. UNCHANGED <<target, state, currentTime, modules, pc, inRun, finalTime, returned, Issued>>
  BY DEF CallTask, members, Issued
<1>9. QED BY <1>1, <1>2, <1>3, <1>4, <1>5, <1>6, <1>7, <1>8

(* The three kinds of events keep the statistics, the clones and the       *)
(* report what they are to be.                                             *)
LEMMA CallKeeps ==
    ASSUME CollectorInv, SchedulerInv, CallEvent
    PROVE  Data'
<1> DEFINE e == scheduledTasks[currentTime][pos + 1]
<1>1. /\ CallTask
      /\ UNCHANGED <<collectorAt, window, matching, matchesEmpty, monitored, owed, task>>
      /\ CASE task[e].kind = "open"  -> OpenWindow
           [] task[e].kind = "close" -> CloseWindow
           [] task[e].kind = "work"  -> CountWork(task[e].of)
  BY DEF CallEvent
<1>2. /\ e \in Issued /\ e \notin Called /\ Called' = Called \cup {e}
      /\ UNCHANGED <<target, pc, state, Issued>>
      /\ \A d \in Called : Before(d, e)
      /\ \A d \in Issued : Before(d, e) => d \in Called
      /\ \A m : Earlier(m, e) = Worked(m)
      /\ pc = "tick"
  BY <1>1, Calling
<1> HIDE DEF e
<1>3. TypeOK /\ OrderInv /\ Called \subseteq Issued /\ state # "INITIALIZATION"
  BY <1>2, CalledFirst DEF SchedulerInv, ClockInv, OnceInv, TickInv, Initialized
<1>4. task[e] \in [kind : {"open", "close", "work"}, of : Modules]
  BY <1>2, ElementOfSeq DEF CollectorInv, CollectorTypes, Issued
<1>5. /\ \A d : (Opens(d)' <=> Opens(d)) /\ (Closes(d)' <=> Closes(d))
      /\ \A m : Work(m)' = Work(m) /\ \A d : Earlier(m, d)' = Earlier(m, d)
      /\ \A m : Worked(m)' = IF e \in Work(m) THEN Worked(m) \cup {e} ELSE Worked(m)
  <2>1. \A d : (Opens(d)' <=> Opens(d)) /\ (Closes(d)' <=> Closes(d))
    BY <1>1, <1>2 DEF Opens, Closes
  <2>2. \A m : Work(m)' = Work(m)
    BY <1>1, <1>2 DEF Work
  <2>3. \A m, d : Earlier(m, d)' = Earlier(m, d)
    BY <1>1, <1>2, <2>2 DEF Earlier, Before
  <2>4. \A m : Worked(m)' = IF e \in Work(m) THEN Worked(m) \cup {e} ELSE Worked(m)
    BY <1>2, <2>2 DEF Worked
  <2>5. QED BY <2>1, <2>2, <2>3, <2>4
<1>6. /\ \A d \in Issued : (Opens(d) /\ Opens(e)) \/ (Closes(d) /\ Closes(e)) => d = e
      /\ \A d \in Issued : (Opens(d) => target[d] = window[1]) /\ (Closes(d) => target[d] = window[2])
      /\ \E o \in Issued : Opens(o)
  BY <1>2, <1>3 DEF CollectorInv, Window, Collects
<1>7. window[1] \in Nat /\ window[2] \in Nat /\ window[1] < window[2]
  BY TimesFacts DEF CollectorInv, CollectorTypes
<1>8. \A m \in Modules : count[m] = Cardinality(Worked(m))
  BY DEF CollectorInv, Counts
<1>9. monitored \subseteq Modules /\ count \in [Modules -> Nat]
  BY DEF CollectorInv, CollectorTypes
<1>10. CASE task[e].kind = "work"
  <2>1. /\ task[e].of \in Modules
        /\ count' = [count EXCEPT ![task[e].of] = @ + 1] /\ UNCHANGED <<clones, report>>
    BY <1>1, <1>4, <1>10 DEF CountWork
  <2>2. ~Opens(e) /\ ~Closes(e) /\ \A m : e \in Work(m) <=> task[e].of = m
    BY <1>2, <1>10 DEF Opens, Closes, Work
  <2>3. Counts'
    <3>1. SUFFICES ASSUME NEW m \in Modules PROVE count'[m] = Cardinality(Worked(m)')
      BY DEF Counts
    <3>2. IsFiniteSet(Worked(m)) /\ e \notin Worked(m)
      BY <1>2, <1>3, EventsFinite DEF Worked, Work
    <3>3. Cardinality(Worked(m) \cup {e}) = Cardinality(Worked(m)) + 1
      BY <3>2, FS_AddElement
    <3>4. QED BY <1>5, <1>8, <1>9, <2>1, <2>2, <3>3
  <2>4. Clones' /\ Report'
    BY <1>1, <1>2, <1>5, <2>1, <2>2 DEF CollectorInv, Clones, Report
  <2>5. CollectorTypes'
    BY <1>1, <1>2, <1>9, <2>1 DEF CollectorInv, CollectorTypes
  <2>6. QED BY <2>3, <2>4, <2>5 DEF Data
<1>11. ASSUME task[e].kind # "work", count' = count PROVE CollectorTypes' /\ Counts'
  <2>1. \A m : e \notin Work(m)
    BY <1>11 DEF Work
  <2>2. QED BY <1>1, <1>2, <1>5, <1>8, <1>11, <2>1 DEF CollectorInv, CollectorTypes, Counts
<1>12. CASE task[e].kind = "open"
  <2>1. OpenWindow /\ Opens(e) /\ ~Closes(e)
    BY <1>1, <1>2, <1>12 DEF Opens, Closes
  <2>2. clones = None
    <3>1. SUFFICES ASSUME NEW o \in Called, Opens(o) PROVE FALSE
      BY DEF CollectorInv, Clones
    <3>2. QED BY <1>2, <1>3, <1>6, <2>1, <3>1
  <2>3. clones' = [m \in monitored |-> count[m]] /\ UNCHANGED <<report, count>>
    BY <2>1, <2>2 DEF OpenWindow, Collect
  <2>4. clones' = [m \in monitored |-> Cardinality(Earlier(m, e))]
    BY <1>2, <1>8, <1>9, <2>3
  <2>5. Clones'
    <3>1. \A o \in Called' : Opens(o) => o = e
      BY <1>2, <1>3, <1>6, <2>1
    <3>2. e \in Called' /\ monitored' = monitored
      BY <1>1, <1>2
    <3>3. QED BY <1>5, <2>1, <2>4, <3>1, <3>2 DEF Clones
  <2>6. \A c \in Called : ~Closes(c)
    <3>1. SUFFICES ASSUME NEW c \in Called, Closes(c) PROVE FALSE
      OBVIOUS
    <3>2. Before(c, e) /\ target[c] = window[2] /\ target[e] = window[1]
      BY <1>2, <1>3, <1>6, <2>1, <3>1
    <3>3. QED BY <1>7, <3>2 DEF Before
  <2>7. Report'
    BY <1>1, <1>2, <1>5, <2>1, <2>3, <2>6 DEF CollectorInv, Report
  <2>8. QED BY <1>11, <1>12, <2>3, <2>5, <2>7 DEF Data
<1>13. CASE task[e].kind = "close"
  <2>1. CloseWindow /\ Closes(e) /\ ~Opens(e)
    BY <1>1, <1>2, <1>13 DEF Opens, Closes
  <2>2. PICK o \in Issued : Opens(o)
    BY <1>6
  <2>3. o \in Called
    BY <1>2, <1>6, <1>7, <2>1, <2>2 DEF Before
  <2>4. clones = [m \in monitored |-> Cardinality(Earlier(m, o))]
    BY <2>2, <2>3 DEF CollectorInv, Clones
  <2>5. clones # None
    <3>1. clones \in [monitored -> Int]
      <4>1. \A m \in monitored : Cardinality(Earlier(m, o)) \in Int
        BY <1>3, EventsFinite DEF Earlier, Work
      <4>2. QED BY <2>4, <4>1
    <3>2. QED BY <1>9, <3>1, NoneAssumption DEF Modules
  <2>6. clones' = clones /\ report' = [m \in monitored |-> count[m] - clones[m]] /\ count' = count
    BY <2>1, <2>4, <2>5 DEF CloseWindow, Collect, Diff
  <2>7. report' = [m \in monitored |-> Cardinality(Earlier(m, e)) - Cardinality(Earlier(m, o))]
    BY <1>2, <1>8, <1>9, <2>4, <2>6
  <2>8. Clones'
    BY <1>1, <1>2, <1>5, <2>1, <2>2, <2>6 DEF CollectorInv, Clones
  <2>9. \A d, c \in Called' : Opens(d) /\ Closes(c) => d = o /\ c = e
    BY <1>2, <1>3, <1>6, <2>1, <2>2 DEF CollectorInv, Window
  <2>10. Report'
    <3>1. e \in Called' /\ monitored' = monitored
      BY <1>1, <1>2
    <3>2. QED BY <1>5, <2>1, <2>7, <2>9, <3>1 DEF Report
  <2>11. QED BY <1>11, <1>13, <2>6, <2>8, <2>10 DEF Data
<1>14. QED BY <1>4, <1>10, <1>12, <1>13

-----------------------------------------------------------------------------
(* Every step keeps the invariant. *)

(* A step that files no event and leaves initialize() of the collector     *)
(* where it is.                                                            *)
LEMMA WindowFrame ==
    ASSUME Window, UNCHANGED <<target, task, window, owed>>, owed = <<>>, Collects' <=> Collects
    PROVE  Window'
<1>1. Issued' = Issued /\ \A e : (Opens(e)' <=> Opens(e)) /\ (Closes(e)' <=> Closes(e))
  BY DEF Issued, Opens, Closes
<1>2. QED BY <1>1 DEF Window, Opening, Closing

LEMMA CollectorInitKeeps ==
    CollectorInit => CollectorInv
<1> SUFFICES ASSUME CollectorInit PROVE CollectorInv
  OBVIOUS
<1>1. Issued = {} /\ Called = {} /\ target = <<>> /\ Len(target) = 0
  BY DEF CollectorInit, Init, Issued, Called
<1>2. CollectorTypes
  <2>1. task = <<>> /\ Len(task) = 0 /\ collectorAt \in Modules /\ monitored = {}
        /\ window \in Times \X Times /\ window[1] < window[2]
        /\ count \in [Modules -> Nat]
    BY DEF CollectorInit
  <2>2. QED BY <1>1, <2>1 DEF CollectorTypes
<1>3. OneRun
  BY <1>1, BoundsAssumption DEF CollectorInit, Init, OneRun
<1>4. Window
  BY <1>1 DEF CollectorInit, Init, Window, Collects, Opens, Closes
<1>5. Counts
  <2>1. \A m : Worked(m) = {}
    BY <1>1 DEF Worked
  <2>2. QED BY <2>1, FS_EmptySet DEF CollectorInit, Counts
<1>6. Clones /\ Report
  BY <1>1 DEF CollectorInit, Clones, Report
<1>7. QED BY <1>2, <1>3, <1>4, <1>5, <1>6 DEF CollectorInv

(* The program before and after initialize(). *)
LEMMA MainKeeps ==
    ASSUME Client = "ordered", CollectorInv, SchedulerInv,
           AddNext \/ InitializeAll \/ \E t \in Times : Simulate(t)
    PROVE  CollectorInv'
<1> USE DEF members, control, collecting
<1>1. /\ UNCHANGED <<target, executed, task, collectorAt, window, monitored, clones, report, count, owed>>
      /\ pc = "idle" /\ modules \in Nat /\ Called' = Called /\ Issued' = Issued
      /\ collectorAt \in Nat /\ 1 <= collectorAt
  BY BoundsAssumption
     DEF AddNext, AddModule, InitializeAll, Initialize, Simulate, RunAt, Called, Issued, CollectorInv,
         CollectorTypes, Modules, SchedulerInv, ClockInv, OnceInv, TickInv, TypeOK
<1>2. Data'
  BY <1>1, DataFrame DEF CollectorInv, Data
<1>3. owed = <<>>
  BY <1>1 DEF CollectorInv, Window
<1>4. CASE AddNext
  <2>1. OneRun'
    BY <1>1, <1>4, BoundsAssumption DEF AddNext, AddModule, CollectorInv, OneRun
  <2>2. Collects' <=> Collects
    BY <1>4 DEF AddNext, AddModule, Collects
  <2>3. QED BY <1>1, <1>2, <1>3, <2>1, <2>2, WindowFrame DEF Data, CollectorInv
<1>5. CASE InitializeAll
  <2>1. state = "INITIALIZATION" /\ pc' = "module" /\ pos' = 0
        /\ UNCHANGED <<modules, state, currentTime, returned>> /\ inRun' = FALSE /\ modules = MaxModules
    BY <1>5 DEF InitializeAll, Initialize, EnterInitialize
  <2>2. OneRun'
    BY <1>1, <2>1, BoundsAssumption DEF CollectorInv, OneRun
  <2>3. Collects' <=> Collects
    BY <1>1, <2>1 DEF Collects
  <2>4. QED BY <1>1, <1>2, <1>3, <2>2, <2>3, WindowFrame DEF Data, CollectorInv
<1>6. ASSUME NEW t \in Times, Simulate(t) PROVE CollectorInv'
  <2>1. /\ state = "RUNNING" /\ returned = "none" /\ pc' = "start" /\ currentTime < t /\ finalTime' = t
        /\ UNCHANGED <<modules, state, currentTime, returned, inRun>>
    BY <1>6 DEF Simulate, RunAt
  <2>2. OneRun'
    BY <1>1, <2>1 DEF CollectorInv, OneRun
  <2>3. Collects' <=> Collects
    BY <1>1, <2>1 DEF Collects
  <2>4. QED BY <1>1, <1>2, <1>3, <2>2, <2>3, WindowFrame DEF Data, CollectorInv
<1>7. QED BY <1>4, <1>5, <1>6

(* initialize() of the modules. *)
LEMMA InitializesKeeps ==
    ASSUME CollectorInv, SchedulerInv,
           CollectorInitializes \/ \E ok \in BOOLEAN : OtherInitializes(ok)
    PROVE  CollectorInv'
<1> USE DEF members, control, collecting
<1>1. /\ pc = "module" /\ pos < modules /\ pos' = pos + 1 /\ owed = <<>>
      /\ UNCHANGED <<target, executed, task, collectorAt, window, clones, report, count>>
      /\ UNCHANGED <<modules, state, currentTime, returned, inRun, pc, finalTime, Called, Issued>>
      /\ modules \in Nat /\ pos \in Nat /\ collectorAt \in 1..MaxModules
  BY DEF CollectorInitializes, OtherInitializes, InitializeModule, Called, Issued, CollectorInv,
         CollectorTypes, Modules, SchedulerInv, ClockInv, OnceInv, TickInv, TypeOK
<1>2. state = "INITIALIZATION"
  BY <1>1 DEF SchedulerInv, ClockInv, OnceInv, InitializesFirst
<1>3. OneRun'
  BY <1>1 DEF CollectorInv, OneRun
<1>4. CASE \E ok \in BOOLEAN : OtherInitializes(ok)
  <2>1. pos + 1 # collectorAt /\ UNCHANGED <<monitored, owed>>
    BY <1>4 DEF OtherInitializes
  <2>2. Collects' <=> Collects
    BY <1>1, <1>2, <2>1, BoundsAssumption DEF Collects
  <2>3. Data'
    BY <1>1, <2>1, DataFrame DEF CollectorInv, Data
  <2>4. QED BY <1>1, <1>3, <2>1, <2>2, <2>3, WindowFrame DEF Data, CollectorInv
<1>5. CASE CollectorInitializes
  <2>1. pos + 1 = collectorAt /\ owed' = <<Opening, Closing>> /\ monitored' = Matched
    BY <1>5 DEF CollectorInitializes, Opening, Closing
  <2>2. ~Collects /\ Collects'
    BY <1>1, <1>2, <2>1, BoundsAssumption DEF Collects
  <2>3. \A e \in Issued : ~Opens(e) /\ ~Closes(e)
    BY <2>2 DEF CollectorInv, Window
  <2>4. \A e \in Issued' : ~Opens(e)' /\ ~Closes(e)'
    BY <1>1, <2>3 DEF Opens, Closes
  <2>5. <<Opening, Closing>> # <<>>
    OBVIOUS
  <2>6. <<Opening', Closing'>> = <<Opening, Closing>>
    BY <1>1 DEF Opening, Closing
  <2>7. Window'
    <3>1. owed' = <<Opening', Closing'>> /\ owed' # <<>> /\ pc' = "module" /\ pos' = collectorAt'
      BY <1>1, <2>1, <2>5, <2>6
    <3>2. QED BY <2>2, <2>4, <3>1 DEF Window
  <2>8. CollectorTypes'
    <3>1. Matched \subseteq Modules
      BY <1>1, BoundsAssumption DEF Matched, Named, Modules
    <3>2. QED BY <1>1, <2>1, <3>1 DEF CollectorInv, CollectorTypes
  <2>9. Counts' /\ Clones' /\ Report'
    <3>1. Called \subseteq Issued
      BY CalledFirst DEF SchedulerInv
    <3>2. \A m : Worked(m)' = Worked(m)
      BY <1>1 DEF Worked, Work
    <3>3. QED BY <1>1, <2>3, <2>4, <3>1, <3>2 DEF CollectorInv, Counts, Clones, Report
  <2>10. QED BY <1>3, <2>7, <2>8, <2>9 DEF CollectorInv
<1>6. QED BY <1>4, <1>5

(* The events they schedule. *)
LEMMA SchedulesKeeps ==
    ASSUME CollectorInv, SchedulerInv, SchedulerInv',
           CollectorSchedules \/ \E t \in Times : OtherSchedules(t)
    PROVE  CollectorInv'
<1>1. PICK n : n = Len(target) + 1
  OBVIOUS
<1>2. /\ modules \in Nat /\ pos \in Nat /\ collectorAt \in Modules /\ TypeOK /\ Called \subseteq Issued
  BY CalledFirst DEF CollectorInv, CollectorTypes, SchedulerInv, ClockInv, OnceInv, TickInv, TypeOK
<1>3. CASE CollectorSchedules
  <2> DEFINE x == [kind |-> Head(owed).kind, of |-> collectorAt]
             t == Head(owed).at
  <2>1. /\ owed # <<>> /\ ScheduleAt(t) /\ task' = Append(task, x) /\ owed' = Tail(owed)
        /\ UNCHANGED <<collectorAt, window, monitored, clones, report, count>>
    BY <1>3 DEF CollectorSchedules
  <2>2. /\ t \in Times /\ x \in [kind : {"open", "close", "work"}, of : Modules]
        /\ \/ owed = <<Opening, Closing>> /\ Head(owed) = Opening /\ Tail(owed) = <<Closing>>
           \/ owed = <<Closing>> /\ Head(owed) = Closing /\ Tail(owed) = <<>>
    BY <1>2, <2>1, OwedFacts DEF CollectorInv
  <2> HIDE DEF x, t
  <2>3. pc = "module" /\ pos = collectorAt /\ state = "INITIALIZATION"
    BY <2>1 DEF CollectorInv, Window, SchedulerInv, ClockInv, OnceInv, InitializesFirst
  <2>4. /\ Data' /\ Issued' = Issued \cup {n} /\ n \notin Issued /\ Called' = Called
        /\ target'[n] = t /\ task'[n] = x
        /\ \A e \in Issued : target'[e] = target[e] /\ task'[e] = task[e]
        /\ UNCHANGED <<state, currentTime, modules, pc, pos, inRun, finalTime, returned>>
    BY <1>1, <2>1, <2>2, <2>3, Issuing DEF Future
  <2>5. OneRun'
    BY <2>3, <2>4 DEF CollectorInv, OneRun
  <2>6. /\ Collects /\ Collects' /\ Opening' = Opening /\ Closing' = Closing
    BY <1>2, <2>1, <2>3, <2>4 DEF Collects, Opening, Closing, Modules
  <2>7. \A e \in Issued : /\ (Opens(e)' <=> Opens(e)) /\ (Closes(e)' <=> Closes(e))
                          /\ target'[e] = target[e]
    BY <2>4 DEF Opens, Closes
  <2>8. <<Opening, Closing>> # <<>> /\ <<Closing>> # <<>> /\ <<Opening, Closing>> # <<Closing>>
    OBVIOUS
  <2>9. CASE owed = <<Opening, Closing>>
    <3>1. Head(owed) = Opening /\ owed' = <<Closing>>
      BY <2>1, <2>2, <2>8, <2>9
    <3>2. Opens(n)' /\ ~Closes(n)' /\ target'[n] = window[1]
      BY <2>4, <3>1 DEF Opening, Opens, Closes, x, t
    <3>3. \A e \in Issued : ~Opens(e) /\ ~Closes(e)
      BY <2>8, <2>9 DEF CollectorInv, Window
    <3>4. \A e \in Issued' : (Opens(e)' => e = n) /\ ~Closes(e)'
      BY <2>4, <2>7, <3>2, <3>3
    <3>5. Window'
      BY <2>1, <2>3, <2>4, <2>6, <2>8, <3>1, <3>2, <3>4 DEF Window
    <3>6. QED BY <2>4, <2>5, <3>5 DEF Data, CollectorInv
  <2>10. CASE owed = <<Closing>>
    <3>1. Head(owed) = Closing /\ owed' = <<>>
      BY <2>1, <2>2, <2>8, <2>10
    <3>2. ~Opens(n)' /\ Closes(n)' /\ target'[n] = window[2]
      BY <2>4, <3>1 DEF Closing, Opens, Closes, x, t
    <3>3. /\ \A e \in Issued : ~Closes(e) /\ (Opens(e) => target[e] = window[1])
          /\ \A d, e \in Issued : Opens(d) /\ Opens(e) => d = e
          /\ \E o \in Issued : Opens(o)
      BY <2>6, <2>8, <2>10 DEF CollectorInv, Window
    <3>4. /\ \A e \in Issued' : Closes(e)' => e = n
          /\ \A e \in Issued' : Opens(e)' => e \in Issued /\ Opens(e) /\ target'[e] = window[1]
          /\ \E o \in Issued' : Opens(o)'
      BY <2>4, <2>7, <3>2, <3>3
    <3>5. Window'
      BY <2>1, <2>4, <2>6, <2>8, <3>1, <3>2, <3>3, <3>4 DEF Window
    <3>6. QED BY <2>4, <2>5, <3>5 DEF Data, CollectorInv
  <2>11. QED BY <2>2, <2>9, <2>10
<1>4. ASSUME NEW t \in Times, OtherSchedules(t) PROVE CollectorInv'
  <2> DEFINE x == [kind |-> "work", of |-> Running]
  <2>1. /\ pc \in {"module", "tick"} /\ pos > 0 /\ Running # collectorAt
        /\ Future(t) /\ ScheduleAt(t) /\ task' = Append(task, x)
        /\ UNCHANGED <<collectorAt, window, monitored, owed, clones, report, count>>
    BY <1>4 DEF OtherSchedules
  <2>2. Running \in Modules
    <3>1. CASE pc = "module"
      BY <1>2, <2>1, <3>1, BoundsAssumption DEF Running, CollectorInv, OneRun, Modules
    <3>2. CASE pc = "tick"
      <4>1. /\ EventsInv /\ currentTime \in Times /\ pos \in 1..Len(scheduledTasks[currentTime])
        <5>1. EventsInv /\ currentTime \in Times /\ Len(scheduledTasks[currentTime]) \in Nat
          BY <1>2, <3>2, EventTypes DEF SchedulerInv, EventsHeld
        <5>2. pos <= Len(scheduledTasks[currentTime])
          BY <3>2 DEF SchedulerInv, WithinTick
        <5>3. QED BY <1>2, <2>1, <5>1, <5>2
      <4>2. scheduledTasks[currentTime][pos] \in Issued
        BY <4>1 DEF EventsInv, Filed
      <4>3. task[scheduledTasks[currentTime][pos]] \in [kind : {"open", "close", "work"}, of : Modules]
        BY <4>2, ElementOfSeq DEF CollectorInv, CollectorTypes, Issued
      <4>4. QED BY <3>2, <4>3 DEF Running
    <3>3. QED BY <2>1, <3>1, <3>2
  <2>3. x \in [kind : {"open", "close", "work"}, of : Modules] /\ x.kind = "work"
    BY <2>2
  <2> HIDE DEF x
  <2>4. /\ Data' /\ Issued' = Issued \cup {n} /\ n \notin Issued /\ Called' = Called
        /\ target'[n] = t /\ task'[n] = x
        /\ \A e \in Issued : target'[e] = target[e] /\ task'[e] = task[e]
        /\ UNCHANGED <<state, currentTime, modules, pc, pos, inRun, finalTime, returned>>
    BY <1>1, <2>1, <2>3, Issuing
  <2>5. owed = <<>>
    BY <2>1 DEF CollectorInv, Window, Running
  <2>6. OneRun'
    BY <2>1, <2>4 DEF CollectorInv, OneRun
  <2>7. Collects' <=> Collects
    BY <2>1, <2>4 DEF Collects
  <2>8. /\ ~Opens(n)' /\ ~Closes(n)'
        /\ \A e \in Issued : /\ (Opens(e)' <=> Opens(e)) /\ (Closes(e)' <=> Closes(e))
                             /\ target'[e] = target[e]
    BY <2>3, <2>4 DEF Opens, Closes
  <2>9. Window'
    BY <2>1, <2>4, <2>5, <2>7, <2>8 DEF CollectorInv, Window, Opening, Closing
  <2>10. QED BY <2>4, <2>6, <2>9 DEF Data, CollectorInv
<1>5. QED BY <1>3, <1>4

(* A call of an event. *)
LEMMA CallEventKeeps ==
    ASSUME CollectorInv, SchedulerInv, CallEvent
    PROVE  CollectorInv'
<1>1. Data'
  BY CallKeeps
<1>2. CallTask /\ UNCHANGED <<task, owed, window, collectorAt, modules, currentTime>>
  BY DEF CallEvent, CallTask, members
<1>3. pc = "tick" /\ UNCHANGED <<target, state, pc, inRun, finalTime, returned, Issued>>
  BY <1>2, Calling
<1>4. owed = <<>> /\ state # "INITIALIZATION"
  BY <1>3 DEF CollectorInv, Window, SchedulerInv, ClockInv, OnceInv, TickInv, Initialized
<1>5. OneRun'
  BY <1>2, <1>3 DEF CollectorInv, OneRun
<1>6. Collects' <=> Collects
  BY <1>3, <1>4 DEF Collects
<1>7. Window'
  BY <1>2, <1>3, <1>4, <1>6, WindowFrame DEF CollectorInv
<1>8. QED BY <1>1, <1>5, <1>7 DEF Data, CollectorInv

(* The steps of the scheduler that call nobody back. *)
LEMMA ReturnsKeep ==
    ASSUME CollectorInv, SchedulerInv, Schedule
    PROVE  CollectorInv'
<1> USE DEF members, control, collecting
<1>1. /\ UNCHANGED <<target, executed, task, collectorAt, window, monitored, clones, report, count, owed>>
      /\ UNCHANGED <<modules, Called, Issued>> /\ owed = <<>>
  BY DEF Schedule, ModulesDone, PushTick, LeaveInitialize, Start, QueueDrained, FinalTimeReached,
         NextTick, EndTick, Return, Called, Issued
<1>2. Data'
  BY <1>1, DataFrame DEF CollectorInv, Data
<1>3. /\ modules \in Nat /\ pos \in Nat /\ collectorAt \in 1..MaxModules
      /\ TickInv /\ (pc \in {"module", "push"} => state = "INITIALIZATION")
      /\ pc \in {"start", "loop", "tick"} => state # "INITIALIZATION"
  BY DEF CollectorInv, CollectorTypes, Modules, SchedulerInv, ClockInv, OnceInv, TickInv, TypeOK,
         InitializesFirst, Initialized
<1>4. OneRun' /\ (Collects' <=> Collects)
  <2>1. CASE ModulesDone
    BY <1>1, <1>3, <2>1 DEF ModulesDone, CollectorInv, OneRun, Collects
  <2>2. CASE PushTick
    BY <1>1, <1>3, <2>2 DEF PushTick, CollectorInv, OneRun, Collects
  <2>3. CASE LeaveInitialize
    BY <1>1, <1>3, <2>3 DEF LeaveInitialize, CollectorInv, OneRun, Collects
  <2>4. CASE Start
    BY <1>1, <1>3, <2>4 DEF Start, CollectorInv, OneRun, Collects
  <2>5. CASE QueueDrained
    <3>1. Called = Issued
      BY <1>3, <2>5, NothingWaits DEF QueueDrained, SchedulerInv, EventsHeld
    <3>2. QED BY <1>1, <1>3, <2>5, <3>1 DEF QueueDrained, Return, CollectorInv, OneRun, Collects
  <2>6. CASE FinalTimeReached
    BY <1>1, <1>3, <2>6 DEF FinalTimeReached, Return, CollectorInv, OneRun, Collects
  <2>7. CASE NextTick
    BY <1>1, <1>3, <2>7 DEF NextTick, CollectorInv, OneRun, Collects
  <2>8. CASE EndTick
    BY <1>1, <1>3, <2>8 DEF EndTick, CollectorInv, OneRun, Collects
  <2>9. QED BY <2>1, <2>2, <2>3, <2>4, <2>5, <2>6, <2>7, <2>8 DEF Schedule
<1>5. QED BY <1>1, <1>2, <1>4, WindowFrame DEF Data, CollectorInv

LEMMA CollectorStep ==
    ASSUME Client = "ordered"
    PROVE  CollectorInv /\ SchedulerInv /\ [CollectorNext]_allVars => CollectorInv' /\ SchedulerInv'
<1> SUFFICES ASSUME CollectorInv, SchedulerInv, [CollectorNext]_allVars
             PROVE  CollectorInv' /\ SchedulerInv'
  OBVIOUS
<1>1. SchedulerInv'
  BY CollectorCalls, SchedulerStep
<1>2. CASE UNCHANGED allVars
  <2>1. Data'
    BY <1>2, DataFrame DEF allVars, vars, collecting, CollectorInv, Data
  <2>2. Issued' = Issued /\ \A e : (Opens(e)' <=> Opens(e)) /\ (Closes(e)' <=> Closes(e))
    BY <1>2 DEF allVars, vars, collecting, Issued, Opens, Closes
  <2>3. Window'
    BY <1>2, <2>2 DEF allVars, vars, members, control, collecting, CollectorInv, Window, Collects,
                      Opening, Closing
  <2>4. OneRun'
    BY <1>2, <2>2 DEF allVars, vars, members, control, collecting, CollectorInv, OneRun, Called
  <2>5. QED BY <1>1, <2>1, <2>3, <2>4 DEF Data, CollectorInv
<1>3. QED
  BY <1>1, <1>2, MainKeeps, InitializesKeeps, SchedulesKeeps, CallEventKeeps, ReturnsKeep
     DEF CollectorNext

(* The report counts the work that is called between the two events, and   *)
(* is there when the window is over.                                       *)
LEMMA ReportFollows ==
    ASSUME CollectorInv, SchedulerInv
    PROVE  ReportExact
<1>1. /\ TypeOK /\ OrderInv /\ Called \subseteq Issued
      /\ window[1] \in Nat /\ window[2] \in Nat /\ window[1] < window[2] /\ monitored \subseteq Modules
  BY CalledFirst, TimesFacts
     DEF SchedulerInv, ClockInv, OnceInv, TickInv, CollectorInv, CollectorTypes
<1>2. /\ \A d, e \in Issued : (Opens(d) /\ Opens(e)) \/ (Closes(d) /\ Closes(e)) => d = e
      /\ \A e \in Issued : (Opens(e) => target[e] = window[1]) /\ (Closes(e) => target[e] = window[2])
      /\ (\E c \in Issued : Closes(c)) => \E o \in Issued : Opens(o)
  BY DEF CollectorInv, Window
<1>3. ASSUME NEW c \in Called, Closes(c)
      PROVE  /\ report \in [monitored -> Int]
             /\ \A m \in monitored : report[m] = Cardinality({e \in Issued :
                   task[e].kind = "work" /\ task[e].of = m /\ InWindow(e)})
  <2>1. PICK o \in Issued : Opens(o)
    BY <1>1, <1>2, <1>3
  <2>2. Before(o, c)
    BY <1>1, <1>2, <1>3, <2>1 DEF Before
  <2>3. o \in Called
    BY <1>1, <2>1, <2>2, EarlierCalled
  <2>4. report = [m \in monitored |-> Cardinality(Earlier(m, c)) - Cardinality(Earlier(m, o))]
    BY <1>3, <2>1, <2>3 DEF CollectorInv, Report
  <2>5. ASSUME NEW m \in monitored
        PROVE  /\ Cardinality(Earlier(m, c)) - Cardinality(Earlier(m, o)) \in Int
               /\ Cardinality(Earlier(m, c)) - Cardinality(Earlier(m, o)) = Cardinality({e \in Issued :
                     task[e].kind = "work" /\ task[e].of = m /\ InWindow(e)})
    <3>1. Earlier(m, o) \subseteq Earlier(m, c)
      <4>1. SUFFICES ASSUME NEW e \in Work(m), Before(e, o) PROVE Before(e, c)
        BY DEF Earlier
      <4>2. /\ e \in Issued /\ target[e] \in Nat /\ target[o] = window[1] /\ target[c] = window[2]
        BY <1>1, <1>2, <1>3, <2>1, EventsFinite DEF Work
      <4>3. QED BY <1>1, <4>1, <4>2 DEF Before
    <3>2. \A e \in Work(m) : InWindow(e) <=> Before(o, e) /\ Before(e, c)
      <4>1. \A d \in Issued : (task[d].kind = "open" <=> d = o) /\ (task[d].kind = "close" <=> d = c)
        BY <1>1, <1>2, <1>3, <2>1 DEF Opens, Closes
      <4>2. QED BY <1>1, <1>3, <2>1, <4>1 DEF InWindow
    <3>3. \A e \in Work(m) : Before(o, e) <=> ~Before(e, o)
      <4>1. SUFFICES ASSUME NEW e \in Work(m) PROVE Before(o, e) <=> ~Before(e, o)
        OBVIOUS
      <4>2. e \in Issued /\ task[e].kind = "work" /\ task[o].kind = "open"
        BY <2>1 DEF Work, Opens
      <4>3. e \in Nat /\ o \in Nat /\ target[e] \in Nat /\ target[o] \in Nat /\ e # o
        BY <1>1, <2>1, <4>2, EventsFinite
      <4>4. QED BY <4>3 DEF Before
    <3>4. Earlier(m, c) \ Earlier(m, o)
            = {e \in Issued : task[e].kind = "work" /\ task[e].of = m /\ InWindow(e)}
      BY <3>2, <3>3 DEF Earlier, Work
    <3>5. /\ IsFiniteSet(Earlier(m, c))
          /\ Cardinality(Earlier(m, c)) \in Nat /\ Cardinality(Earlier(m, o)) \in Nat
      BY <1>1, EventsFinite DEF Earlier, Work
    <3>6. Earlier(m, c) \cap Earlier(m, o) = Earlier(m, o)
      BY <3>1
    <3>7. Cardinality(Earlier(m, c) \ Earlier(m, o))
            = Cardinality(Earlier(m, c)) - Cardinality(Earlier(m, o))
      BY <3>5, <3>6, FS_Difference
    <3>8. Cardinality({e \in Issued : task[e].kind = "work" /\ task[e].of = m /\ InWindow(e)})
            = Cardinality(Earlier(m, c)) - Cardinality(Earlier(m, o))
      BY <3>4, <3>7, Zenon
    <3>9. Cardinality(Earlier(m, c)) - Cardinality(Earlier(m, o)) \in Int
      BY <3>5
    <3>10. QED BY <3>8, <3>9, Zenon
  <2>6. QED BY <2>4, <2>5
<1>4. ASSUME pc = "idle", returned = "STOPPED" \/ (returned # "none" /\ window[2] <= currentTime)
      PROVE  report # None
  <2>1. state # "INITIALIZATION" /\ returned \in {"EVENTS_IN_QUEUE", "STOPPED"}
    BY <1>4 DEF CollectorInv, OneRun
  <2>2. PICK c \in Issued : Closes(c)
    BY <1>4, <2>1 DEF CollectorInv, Window, Collects
  <2>3. c \in Called
    <3>1. CASE returned = "STOPPED"
      BY <2>2, <3>1 DEF CollectorInv, OneRun
    <3>2. CASE window[2] <= currentTime
      <4>1. target[c] <= currentTime
        BY <1>2, <2>2, <3>2
      <4>2. ClockInv /\ EventsHeld => NoneOverdue
        BY NoneOverdueHolds
      <4>3. QED BY <1>4, <2>1, <2>2, <4>1, <4>2 DEF SchedulerInv, NoneOverdue
    <3>3. QED BY <1>4, <3>1, <3>2
  <2>4. report \in [monitored -> Int]
    BY <1>3, <2>2, <2>3
  <2>5. QED BY <1>1, <2>4, NoneAssumption DEF Modules
<1>5. ASSUME report # None
      PROVE  \A m \in monitored : report[m] = Cardinality({e \in Issued :
                task[e].kind = "work" /\ task[e].of = m /\ InWindow(e)})
  BY <1>3, <1>5 DEF CollectorInv, Report
<1>6. QED BY <1>4, <1>5 DEF ReportExact

(* The report of the collector counts exactly the work of its window, that *)
(* of a boundary tick by the order in which it was scheduled, for every    *)
(* matched module; and a simulation that lasts leaves one.                 *)
THEOREM ReportExactAlways ==
    ASSUME Client = "ordered"
    PROVE  CollectorSpec => []ReportExact
<1>1. CollectorInit => CollectorInv /\ SchedulerInv
  BY CollectorInitKeeps, SchedulerInit DEF CollectorInit
<1>2. CollectorInv /\ SchedulerInv => ReportExact
  BY ReportFollows
<1>3. QED BY <1>1, <1>2, CollectorStep, PTL DEF CollectorSpec

(* The collector and the modules around it are callers that keep the       *)
(* contract: what is proved of Spec holds of the scheduler that runs them. *)
THEOREM CollectorImplementsContext ==
    ASSUME Client = "ordered"
    PROVE  CollectorSpec => Spec
<1>1. CollectorInit => CollectorInv /\ SchedulerInv /\ Init
  BY CollectorInitKeeps, SchedulerInit DEF CollectorInit
<1>2. CollectorInv /\ [CollectorNext]_allVars => [Next]_vars
  BY CollectorCalls
<1>3. QED BY <1>1, <1>2, CollectorStep, PTL DEF CollectorSpec, Spec
=============================================================================
