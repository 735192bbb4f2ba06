---------------------------- MODULE ContextProofs ----------------------------
(***************************************************************************)
(* What holds of the scheduler for every width of tick, any number of      *)
(* events and modules, every kind of caller, and with or without           *)
(* assertions: no tick with events is ever missing from the heap.  Of      *)
(* RadixHeapProofs it takes the lemmas on the heap as data; the heap and   *)
(* the client declared there play no part.                                 *)
(***************************************************************************)
EXTENDS Context, RadixHeapProofs, SequenceTheorems

(* The loop of run_at() holds the top of the heap while it walks a tick. *)
WalksTop == pc = "tick" => nextTickHeap.size # 0 /\ Peek(nextTickHeap) = currentTime

(* The keys of the map are never erased. *)
KeysKept == \A t \in Times : Pending(t) => t \in ticks

(* What initialize() has pushed so far is in the heap. *)
PushedSoFar == pc = "push" => \A t \in ticks \ unpushed : Contents(nextTickHeap)[t] > 0

(* No event is called before the first initialize(), or but in a run. *)
Initialized ==
    /\ pc = "start" => state # "INITIALIZATION"
    /\ pc \in {"loop", "tick"} => state = "RUNNING"

TickInv ==
    /\ TypeOK /\ HeapSound
    /\ WalksTop /\ KeysKept /\ PushedSoFar /\ Initialized
    /\ TickQueued

(* Ticks are naturals, and Time::operator+ stays among them.               *)
LEMMA TimesFacts ==
    /\ Times \subseteq Nat /\ 0 \in Times
    /\ \A a, b \in Times : Plus(a, b) \in Times
<1>1. Pow2[NUM_BITS] \in Nat \ {0}
  BY Pow2Positive, NumBitsAssumption DEF Buckets
<1>2. Times = 0..(Pow2[NUM_BITS] - 1)
  BY DEF Times, Values
<1>3. \A a, b \in Nat : (a + b) % Pow2[NUM_BITS] \in 0..(Pow2[NUM_BITS] - 1)
  BY <1>1
<1>4. QED BY <1>1, <1>2, <1>3 DEF Plus

(* A heap with something in it shows one of the ticks it holds. *)
LEMMA PeekFacts ==
    ASSUME NEW h, HeapOK(h), ~Empty(h)
    PROVE  h.size # 0 /\ Peek(h) \in Times /\ Contents(h)[Peek(h)] > 0
  BY PopProperty DEF Empty, Times

(* What a push does to a queue of ticks. *)
LEMMA PushFacts ==
    ASSUME NEW h, HeapOK(h), NEW t \in Times
    PROVE  /\ HeapOK(Push(h, t)) /\ Push(h, t) \in Heaps
           /\ Contents(Push(h, t))[t] > 0
           /\ \A u \in Times : Contents(h)[u] > 0 => Contents(Push(h, t))[u] > 0
           /\ h.size # 0 => Push(h, t).size # 0 /\ Peek(Push(h, t)) = Peek(h)
<1>1. /\ HeapOK(Push(h, t))
      /\ Contents(Push(h, t)) = [Contents(h) EXCEPT ![t] = @ + 1]
      /\ Peek(Push(h, t)) = IF h.size = 0 THEN t ELSE Peek(h)
      /\ Push(h, t).size = h.size + 1
  BY PushProperty DEF Times
<1>2. Contents(h) \in [Times -> Nat] /\ h.size \in Nat
  BY ContentsType, BucketFacts DEF HeapOK, Shape, Times
<1>3. Push(h, t) \in Heaps
  BY <1>1 DEF HeapOK
<1>4. QED BY <1>1, <1>2, <1>3

(* Taking the top away leaves every other tick queued. *)
LEMMA PopFacts ==
    ASSUME NEW h, HeapOK(h), h.size # 0
    PROVE  /\ HeapOK(Pop(h)) /\ Pop(h) \in Heaps
           /\ \A u \in Times : u # Peek(h) /\ Contents(h)[u] > 0 => Contents(Pop(h))[u] > 0
<1>1. /\ HeapOK(Pop(h)) /\ Peek(h) \in Times
      /\ Contents(Pop(h)) = [Contents(h) EXCEPT ![Peek(h)] = @ - 1]
  BY PopProperty DEF Times
<1>2. Contents(h) \in [Times -> Nat]
  BY ContentsType DEF HeapOK, Shape, Times
<1>3. Pop(h) \in Heaps
  BY <1>1 DEF HeapOK
<1>4. QED BY <1>1, <1>2, <1>3

(* The constructor establishes TickInv.                                    *)
LEMMA TickInvInit == Init => TickInv
<1> SUFFICES ASSUME Init PROVE TickInv
  OBVIOUS
<1>1. HeapOK(nextTickHeap) /\ nextTickHeap \in Heaps
  BY NewHeapOK DEF Init, HeapOK
<1>2. TypeOK
  <2>1. scheduledTasks \in [Times -> Seq(Events)] /\ target \in Seq(Times) /\ executed \in Seq(Events)
    BY DEF Init
  <2>2. QED BY <1>1, <2>1, TimesFacts, BoundsAssumption DEF Init, TypeOK
<1>3. QED BY <1>1, <1>2 DEF Init, TickInv, HeapSound, WalksTop, KeysKept, PushedSoFar, Initialized,
                            TickQueued, Pending

(* A new event, in a tick that the loop is not walking or that has events. *)
LEMMA EnqueueKeeps ==
    ASSUME TickInv, NEW t \in Times, pc # "push", Len(target) < MaxTasks, Enqueue(t)
    PROVE  TickInv'
<1>1. /\ scheduledTasks' = [scheduledTasks EXCEPT ![t] = Append(@, Len(target) + 1)]
      /\ ticks' = ticks \cup {t}
      /\ nextTickHeap' = IF state # "INITIALIZATION" /\ scheduledTasks[t] = <<>>
                         THEN Push(nextTickHeap, t) ELSE nextTickHeap
      /\ target' = Append(target, t)
      /\ UNCHANGED <<state, currentTime, modules, pc, pos, unpushed, success, inRun, finalTime,
                     returned, executed>>
  BY DEF Enqueue, File, WithNewest, control
<1>2. TypeOK /\ HeapOK(nextTickHeap) /\ nextTickHeap \in Heaps
  BY DEF TickInv, HeapSound, HeapOK
<1>3. /\ HeapOK(nextTickHeap') /\ nextTickHeap' \in Heaps
      /\ \A u \in Times : Contents(nextTickHeap)[u] > 0 => Contents(nextTickHeap')[u] > 0
      /\ nextTickHeap.size # 0 => nextTickHeap'.size # 0 /\ Peek(nextTickHeap') = Peek(nextTickHeap)
      /\ state # "INITIALIZATION" /\ scheduledTasks[t] = <<>> => Contents(nextTickHeap')[t] > 0
  BY <1>1, <1>2, PushFacts
<1>4. /\ Append(scheduledTasks[t], Len(target) + 1) \in Seq(Events)
      /\ Append(scheduledTasks[t], Len(target) + 1) # <<>>
      /\ Append(target, t) \in Seq(Times) /\ Len(Append(target, t)) <= MaxTasks
  <2>1. scheduledTasks[t] \in Seq(Events) /\ target \in Seq(Times)
    BY <1>2 DEF TypeOK
  <2>2. Len(target) \in Nat /\ Len(target) + 1 \in Events
    BY <2>1, LenProperties, BoundsAssumption DEF Events
  <2>3. QED BY <2>1, <2>2, AppendProperties, BoundsAssumption
<1>5. TypeOK'
  BY <1>1, <1>2, <1>3, <1>4 DEF TypeOK
<1>6. \A u \in Times : Pending(u)' => u = t \/ Pending(u)
  BY <1>1, <1>2 DEF Pending, TypeOK
<1>7. KeysKept'
  BY <1>1, <1>6 DEF TickInv, KeysKept
<1>8. TickQueued'
  BY <1>1, <1>3, <1>6 DEF TickInv, TickQueued, Pending
<1>9. WalksTop' /\ PushedSoFar' /\ Initialized' /\ HeapSound'
  BY <1>1, <1>3 DEF TickInv, WalksTop, PushedSoFar, Initialized, HeapSound
<1>10. QED BY <1>5, <1>7, <1>8, <1>9 DEF TickInv

(* A schedule call by anyone: it may abort, drop the event, or lose itself *)
(* in freed memory, and still leaves no tick out of the heap.              *)
LEMMA ScheduleKeeps ==
    ASSUME TickInv, NEW t \in Times, ScheduleAt(t)
    PROVE  TickInv'
<1>1. pc # "push" /\ Len(target) < MaxTasks
  BY DEF ScheduleAt, CallerMaySchedule
<1>2. CASE AssertionFails
  <2>1. /\ pc' = "aborted"
        /\ UNCHANGED <<state, currentTime, nextTickHeap, ticks, scheduledTasks, modules, pos,
                       unpushed, success, inRun, finalTime, returned, target, executed>>
    BY <1>2 DEF AssertionFails, members
  <2>2. TypeOK'
    BY <2>1 DEF TickInv, TypeOK
  <2>3. QED BY <2>1, <2>2 DEF TickInv, HeapSound, WalksTop, KeysKept, PushedSoFar, Initialized,
                              TickQueued, Pending
<1>3. CASE Enqueue(t)
  BY <1>1, <1>3, EnqueueKeeps
<1>4. CASE GrowUnderLoop(t)
  <2>1. /\ \/ target' = Append(target, t) /\ pc' = pc
           \/ target' = target /\ pc' = "undefined"
        /\ UNCHANGED <<state, currentTime, nextTickHeap, ticks, scheduledTasks, modules, pos,
                       unpushed, success, inRun, finalTime, returned, executed>>
    BY <1>4 DEF GrowUnderLoop, members, control
  <2>2. target' \in Seq(Times) /\ Len(target') <= MaxTasks
    <3>1. target \in Seq(Times) /\ Len(target) \in Nat /\ Len(target) <= MaxTasks
      BY LenProperties DEF TickInv, TypeOK
    <3>2. QED BY <1>1, <2>1, <3>1, AppendProperties, BoundsAssumption
  <2>3. TypeOK'
    BY <2>1, <2>2 DEF TickInv, TypeOK
  <2>4. QED BY <2>1, <2>3 DEF TickInv, HeapSound, WalksTop, KeysKept, PushedSoFar, Initialized,
                              TickQueued, Pending
<1>5. QED BY <1>2, <1>3, <1>4 DEF ScheduleAt

(* initialize() puts every key it found into the heap. *)
LEMMA PushTickKeeps ==
    ASSUME TickInv, PushTick
    PROVE  TickInv'
<1> DEFINE t == Min(unpushed)
<1>1. /\ pc = "push" /\ unpushed # {}
      /\ nextTickHeap' = Push(nextTickHeap, t) /\ unpushed' = unpushed \ {t}
      /\ UNCHANGED <<state, currentTime, ticks, scheduledTasks, modules, pc, pos, success, inRun,
                     finalTime, returned, target, executed>>
  BY DEF PushTick
<1>2. TypeOK /\ HeapOK(nextTickHeap)
  BY DEF TickInv, HeapSound
<1>3. t \in unpushed /\ t \in Times
  <2>1. unpushed \in SUBSET Nat
    BY <1>2, TimesFacts DEF TypeOK
  <2>2. QED BY <1>1, <1>2, <2>1, MinProperty DEF TypeOK
<1> HIDE DEF t
<1>4. /\ HeapOK(nextTickHeap') /\ nextTickHeap' \in Heaps
      /\ Contents(nextTickHeap')[t] > 0
      /\ \A u \in Times : Contents(nextTickHeap)[u] > 0 => Contents(nextTickHeap')[u] > 0
  BY <1>1, <1>2, <1>3, PushFacts
<1>5. TypeOK'
  BY <1>1, <1>2, <1>4 DEF TypeOK
<1>6. PushedSoFar'
  BY <1>1, <1>2, <1>4 DEF TickInv, PushedSoFar, TypeOK
<1>7. TickQueued'
  BY <1>1, <1>4 DEF TickInv, TickQueued, Pending
<1>8. QED BY <1>1, <1>4, <1>5, <1>6, <1>7 DEF TickInv, HeapSound, WalksTop, KeysKept, Initialized, Pending

(* The clear() and the pop() at the end of a tick agree. *)
LEMMA EndTickKeeps ==
    ASSUME TickInv, EndTick
    PROVE  TickInv'
<1>1. /\ pc = "tick" /\ pc' = "loop" /\ pos' = 0
      /\ scheduledTasks' = [scheduledTasks EXCEPT ![currentTime] = <<>>]
      /\ nextTickHeap' = Pop(nextTickHeap)
      /\ UNCHANGED <<state, currentTime, ticks, modules, unpushed, success, inRun, finalTime,
                     returned, target, executed>>
  BY DEF EndTick
<1>2. TypeOK /\ HeapOK(nextTickHeap) /\ nextTickHeap.size # 0 /\ Peek(nextTickHeap) = currentTime
  BY <1>1 DEF TickInv, HeapSound, WalksTop
<1>3. /\ HeapOK(nextTickHeap') /\ nextTickHeap' \in Heaps
      /\ \A u \in Times : u # currentTime /\ Contents(nextTickHeap)[u] > 0
                            => Contents(nextTickHeap')[u] > 0
  BY <1>1, <1>2, PopFacts
<1>4. \A u \in Times : Pending(u)' => u # currentTime /\ Pending(u)
  BY <1>1, <1>2 DEF Pending, TypeOK
<1>5. TypeOK'
  <2>1. scheduledTasks' \in [Times -> Seq(Events)]
    BY <1>1, <1>2, EmptySeq DEF TypeOK
  <2>2. QED BY <1>1, <1>2, <1>3, <2>1 DEF TypeOK
<1>6. KeysKept' /\ TickQueued'
  BY <1>1, <1>3, <1>4 DEF TickInv, KeysKept, TickQueued
<1>7. QED BY <1>1, <1>3, <1>5, <1>6 DEF TickInv, HeapSound, WalksTop, PushedSoFar, Initialized

(* Every step, of any client, keeps TickInv.                               *)
LEMMA TickInvStep == TickInv /\ [Next]_vars => TickInv'
<1> SUFFICES ASSUME TickInv, [Next]_vars PROVE TickInv'
  OBVIOUS
<1> USE DEF members, control
<1>1. TypeOK /\ HeapOK(nextTickHeap)
  BY DEF TickInv, HeapSound
<1>2. ASSUME NEW ok \in BOOLEAN, InitializeModule(ok) PROVE TickInv'
  <2>1. TypeOK'
    BY <1>1, <1>2 DEF InitializeModule, TypeOK
  <2>2. QED BY <1>2, <2>1 DEF InitializeModule, TickInv, HeapSound, WalksTop, KeysKept, PushedSoFar,
                              Initialized, TickQueued, Pending
<1>3. CASE ModulesDone
  <2>1. TypeOK'
    BY <1>1, <1>3 DEF ModulesDone, TypeOK
  <2>2. QED BY <1>3, <2>1 DEF ModulesDone, TickInv, HeapSound, WalksTop, KeysKept, PushedSoFar,
                              Initialized, TickQueued, Pending
<1>4. CASE PushTick
  BY <1>4, PushTickKeeps
<1>5. CASE LeaveInitialize
  <2>1. TypeOK'
    BY <1>1, <1>5, TimesFacts DEF LeaveInitialize, TypeOK
  <2>2. TickQueued'
    BY <1>1, <1>5 DEF LeaveInitialize, TickInv, KeysKept, PushedSoFar, TickQueued, Pending
  <2>3. QED BY <1>5, <2>1, <2>2 DEF LeaveInitialize, TickInv, HeapSound, WalksTop, KeysKept,
                                    PushedSoFar, Initialized, Pending
<1>6. CASE Start
  <2>1. TypeOK'
    BY <1>1, <1>6 DEF Start, TypeOK
  <2>2. TickQueued'
    BY <1>6 DEF Start, TickInv, Initialized, TickQueued, Pending
  <2>3. QED BY <1>6, <2>1, <2>2 DEF Start, TickInv, HeapSound, WalksTop, KeysKept, PushedSoFar,
                                    Initialized, Pending
<1>7. CASE QueueDrained
  <2>1. TypeOK'
    BY <1>1, <1>7, TimesFacts DEF QueueDrained, Return, TypeOK
  <2>2. TickQueued'
    BY <1>7 DEF QueueDrained, Return, TickInv, Initialized, TickQueued, Pending
  <2>3. QED BY <1>7, <2>1, <2>2 DEF QueueDrained, Return, TickInv, HeapSound, WalksTop, KeysKept,
                                    PushedSoFar, Initialized, Pending
<1>8. CASE FinalTimeReached
  <2>1. TypeOK'
    BY <1>1, <1>8, TimesFacts DEF FinalTimeReached, Return, TypeOK
  <2>2. QED BY <1>8, <2>1 DEF FinalTimeReached, Return, TickInv, HeapSound, WalksTop, KeysKept,
                              PushedSoFar, Initialized, TickQueued, Pending
<1>9. CASE NextTick
  <2>1. nextTickHeap.size # 0 /\ Peek(nextTickHeap) \in Times
    BY <1>1, <1>9, PeekFacts DEF NextTick
  <2>2. TypeOK'
    BY <1>1, <1>9, <2>1 DEF NextTick, TypeOK
  <2>3. QED BY <1>9, <2>1, <2>2 DEF NextTick, TickInv, HeapSound, WalksTop, KeysKept, PushedSoFar,
                                    Initialized, TickQueued, Pending
<1>10. CASE CallTask
  <2>1. TypeOK'
    <3>1. scheduledTasks[currentTime] \in Seq(Events) /\ pos \in Nat /\ executed \in Seq(Events)
      BY <1>1 DEF TypeOK
    <3>2. scheduledTasks[currentTime][pos + 1] \in Events
      BY <1>10, <3>1, LenProperties, ElementOfSeq DEF CallTask
    <3>3. executed' \in Seq(Events) /\ pos' \in Nat
      BY <1>10, <3>1, <3>2, AppendProperties DEF CallTask
    <3>4. QED BY <1>1, <1>10, <3>3 DEF CallTask, TypeOK
  <2>2. QED BY <1>10, <2>1 DEF CallTask, TickInv, HeapSound, WalksTop, KeysKept, PushedSoFar,
                               Initialized, TickQueued, Pending
<1>11. CASE EndTick
  BY <1>11, EndTickKeeps
<1>12. ASSUME NEW t \in Times, ScheduleAt(t) \/ ScheduleIn(t) PROVE TickInv'
  <2>1. Plus(currentTime, t) \in Times
    BY <1>1, TimesFacts DEF TypeOK
  <2>2. QED BY <1>12, <2>1, ScheduleKeeps DEF ScheduleIn
<1>13. ASSUME NEW t \in Times, RunAt(t) \/ Run(t) PROVE TickInv'
  <2>1. PICK u \in Times : RunAt(u)
    BY <1>1, <1>13, TimesFacts DEF TypeOK, Run
  <2>2. TypeOK'
    <3>1. /\ pc' \in {"module", "start"} /\ pos' \in Nat
          /\ success' \in BOOLEAN /\ inRun' \in BOOLEAN
      <4>1. \/ pc' = "module" /\ pos' = 0 /\ success' = TRUE /\ inRun' = TRUE
            \/ pc' = "start" /\ pos' = pos /\ success' = success /\ inRun' = inRun
        BY <2>1, Zenon DEF RunAt, EnterInitialize
      <4>2. pos \in Nat /\ success \in BOOLEAN /\ inRun \in BOOLEAN
        BY <1>1 DEF TypeOK
      <4>3. success' \in BOOLEAN /\ inRun' \in BOOLEAN
        BY <4>1, <4>2, Zenon
      <4>4. pc' \in {"module", "start"} /\ pos' \in Nat
        BY <4>1, <4>2
      <4>5. QED BY <4>3, <4>4
    <3>2. /\ finalTime' \in Times
          /\ UNCHANGED <<members, unpushed, returned, target, executed>>
      BY <2>1 DEF RunAt
    <3>3. QED BY <1>1, <3>1, <3>2 DEF TypeOK
  <2>3. QED BY <2>1, <2>2 DEF RunAt, EnterInitialize, TickInv, HeapSound, WalksTop, KeysKept,
                              PushedSoFar, Initialized, TickQueued, Pending
<1>14. CASE AddModule \/ \E n \in 0..modules : RemoveModule(n)
  <2>1. modules' \in Nat
    BY <1>1, <1>14 DEF AddModule, RemoveModule, TypeOK
  <2>2. /\ UNCHANGED <<state, currentTime, nextTickHeap, ticks, scheduledTasks, control, target,
                       executed>>
    BY <1>14 DEF AddModule, RemoveModule
  <2>3. TypeOK'
    BY <1>1, <2>1, <2>2 DEF TypeOK
  <2>4. QED BY <2>2, <2>3 DEF TickInv, HeapSound, WalksTop, KeysKept, PushedSoFar, Initialized,
                              TickQueued, Pending
<1>15. CASE Initialize
  <2>1. TypeOK'
    BY <1>1, <1>15 DEF Initialize, EnterInitialize, TypeOK
  <2>2. QED BY <1>15, <2>1 DEF Initialize, EnterInitialize, TickInv, HeapSound, WalksTop, KeysKept,
                               PushedSoFar, Initialized, TickQueued, Pending
<1>16. CASE UNCHANGED vars
  <2>1. TypeOK'
    BY <1>1, <1>16 DEF vars, TypeOK
  <2>2. QED BY <1>16, <2>1 DEF vars, TickInv, HeapSound, WalksTop, KeysKept, PushedSoFar,
                               Initialized, TickQueued, Pending
<1>17. QED
  BY <1>2, <1>3, <1>4, <1>5, <1>6, <1>7, <1>8, <1>9, <1>10, <1>11, <1>12, <1>13, <1>14, <1>15, <1>16
  DEF Next, Library, Callers

(* TickInv is an invariant of every client.                                *)
LEMMA TickInvAlways == Spec => []TickInv
  BY TickInvInit, TickInvStep, PTL DEF Spec

(* The members of Context keep their types; in particular the clock never  *)
(* takes a value that is not a tick.                                       *)
THEOREM ContextTypeCorrect == Spec => []TypeOK
<1>1. TickInv => TypeOK
  BY DEF TickInv
<1>2. QED BY <1>1, TickInvAlways, PTL

(* The heap of a Context is sound whatever its callers do, also when they  *)
(* break the contract of the heap by scheduling before its top.            *)
THEOREM HeapSoundAlways == Spec => []HeapSound
<1>1. TickInv => HeapSound
  BY DEF TickInv
<1>2. QED BY <1>1, TickInvAlways, PTL

(* No lost wakeup: after initialize(), a tick that has events is in the    *)
(* heap.                                                                   *)
THEOREM TickQueuedAlways == Spec => []TickQueued
<1>1. TickInv => TickQueued
  BY DEF TickInv
<1>2. QED BY <1>1, TickInvAlways, PTL

-----------------------------------------------------------------------------
(* Callers that initialize at most once, and schedule and run into the     *)
(* future: a tick is in the heap once, or never.                           *)

(* An assertion stops a schedule call, or its event goes into the future.  *)
LEMMA ScheduleOutcome ==
    ASSUME Client # "any", NEW t \in Times, ScheduleAt(t)
    PROVE  /\ pc # "push" /\ Len(target) < MaxTasks
           /\ \/ AssertionFails
              \/ Future(t) /\ ~Iterating(t) /\ Enqueue(t)
  BY DEF ScheduleAt, CallerMaySchedule

(* An event in the future goes into the map, under the new number. *)
LEMMA FutureEnqueues ==
    ASSUME NEW t \in Times, ScheduleAt(t), Future(t)
    PROVE  /\ ~Iterating(t) /\ Enqueue(t)
           /\ target' = Append(target, t)
           /\ UNCHANGED <<state, currentTime, modules, control, executed>>
  BY DEF ScheduleAt, Enqueue, File

(* Before initialize() has returned the heap holds what it has pushed, and *)
(* every key of the map has events.                                        *)
HeapBeforeRun ==
    state = "INITIALIZATION" =>
        /\ ticks \subseteq {t \in Times : Pending(t)}
        /\ pc = "push" => unpushed \subseteq ticks
        /\ \A t \in Times :
              Contents(nextTickHeap)[t] = IF pc = "push" /\ t \in ticks \ unpushed THEN 1 ELSE 0

InitializesFirst == pc \in {"module", "push"} => state = "INITIALIZATION"

OnceInv == TickInv /\ HeapBeforeRun /\ InitializesFirst /\ QueuedOnce

(* A new heap holds no tick.                                               *)
LEMMA ContentsEmpty ==
    ASSUME NEW t \in Times
    PROVE  Contents(NewHeap)[t] = 0
  BY NewHeapOK DEF EmptyBucket, Times

(* How a push and a pop change the number of copies of a tick. *)
LEMMA CopiesAfterPush ==
    ASSUME NEW h, HeapOK(h), NEW t \in Times, NEW u \in Times
    PROVE  Contents(Push(h, t))[u] = IF u = t THEN Contents(h)[u] + 1 ELSE Contents(h)[u]
<1>1. Contents(Push(h, t)) = [Contents(h) EXCEPT ![t] = @ + 1] /\ Contents(h) \in [Times -> Nat]
  BY PushProperty, ContentsType DEF HeapOK, Shape, Times
<1>2. QED BY <1>1

(* A pop takes one copy of the top away.                                   *)
LEMMA CopiesAfterPop ==
    ASSUME NEW h, HeapOK(h), h.size # 0, NEW u \in Times
    PROVE  Contents(Pop(h))[u] = IF u = Peek(h) THEN Contents(h)[u] - 1 ELSE Contents(h)[u]
<1>1. /\ Contents(Pop(h)) = [Contents(h) EXCEPT ![Peek(h)] = @ - 1]
      /\ Contents(h) \in [Times -> Nat]
  BY PopProperty, ContentsType DEF HeapOK, Shape, Times
<1>2. QED BY <1>1

(* The constructor establishes OnceInv.                                    *)
LEMMA OnceInit == Init => OnceInv
<1> SUFFICES ASSUME Init PROVE OnceInv
  OBVIOUS
<1>1. HeapBeforeRun
  BY ContentsEmpty DEF Init, HeapBeforeRun
<1>2. QED BY <1>1, TickInvInit DEF Init, OnceInv, InitializesFirst, QueuedOnce

(* The first event of a tick pushes it, a later one does not.              *)
LEMMA OnceEnqueue ==
    ASSUME OnceInv, NEW t \in Times, pc # "push", Enqueue(t)
    PROVE  HeapBeforeRun' /\ InitializesFirst' /\ QueuedOnce'
<1>1. /\ scheduledTasks' = [scheduledTasks EXCEPT ![t] = Append(@, Len(target) + 1)]
      /\ ticks' = ticks \cup {t}
      /\ nextTickHeap' = IF state # "INITIALIZATION" /\ scheduledTasks[t] = <<>>
                         THEN Push(nextTickHeap, t) ELSE nextTickHeap
      /\ UNCHANGED <<state, pc, unpushed>>
  BY DEF Enqueue, File, WithNewest, control
<1>2. TypeOK /\ HeapOK(nextTickHeap) /\ ticks \subseteq Times
  BY DEF OnceInv, TickInv, HeapSound, TypeOK
<1>3. \A u \in Times : Pending(u)' <=> u = t \/ Pending(u)
  <2>1. Append(scheduledTasks[t], Len(target) + 1) # <<>>
    <3>1. scheduledTasks[t] \in Seq(Events) /\ Len(target) \in Nat
      BY <1>2, LenProperties DEF TypeOK
    <3>2. scheduledTasks[t] \in Seq(Nat)
      <4>1. Events \subseteq Nat
        BY BoundsAssumption DEF Events
      <4>2. QED BY <3>1, <4>1, SeqMonotonic
    <3>3. QED BY <3>1, <3>2, AppendProperties
  <2>2. QED BY <1>1, <1>2, <2>1 DEF Pending, TypeOK
<1>4. CASE state = "INITIALIZATION"
  <2>1. nextTickHeap' = nextTickHeap
    BY <1>1, <1>4
  <2>2. QED BY <1>1, <1>2, <1>3, <1>4, <2>1 DEF OnceInv, HeapBeforeRun, InitializesFirst, QueuedOnce
<1>5. CASE state # "INITIALIZATION"
  <2>1. ASSUME NEW u \in Times
        PROVE  Contents(nextTickHeap')[u] = IF u = t \/ Pending(u) THEN 1 ELSE 0
    <3>1. Contents(nextTickHeap)[u] = IF Pending(u) THEN 1 ELSE 0
      BY <1>5 DEF OnceInv, QueuedOnce
    <3>2. CASE Pending(t)
      BY <1>1, <3>1, <3>2 DEF Pending
    <3>3. CASE ~Pending(t)
      <4>1. nextTickHeap' = Push(nextTickHeap, t)
        BY <1>1, <1>5, <3>3 DEF Pending
      <4>2. QED BY <1>2, <3>1, <3>3, <4>1, CopiesAfterPush
    <3>4. QED BY <3>2, <3>3
  <2>2. QueuedOnce'
    BY <1>3, <2>1 DEF QueuedOnce
  <2>3. QED BY <1>1, <1>5, <2>2 DEF OnceInv, HeapBeforeRun, InitializesFirst
<1>6. QED BY <1>4, <1>5

(* initialize() pushes every key once.                                     *)
LEMMA OncePushTick ==
    ASSUME OnceInv, PushTick
    PROVE  HeapBeforeRun' /\ InitializesFirst' /\ QueuedOnce'
<1> DEFINE t == Min(unpushed)
<1>1. /\ pc = "push" /\ unpushed # {} /\ state = "INITIALIZATION"
      /\ nextTickHeap' = Push(nextTickHeap, t) /\ unpushed' = unpushed \ {t}
      /\ UNCHANGED <<state, ticks, scheduledTasks, pc>>
  BY DEF PushTick, OnceInv, InitializesFirst
<1>2. t \in unpushed /\ t \in Times /\ unpushed \subseteq Times /\ HeapOK(nextTickHeap)
  <2>1. unpushed \subseteq Times /\ unpushed \in SUBSET Nat /\ HeapOK(nextTickHeap)
    BY TimesFacts DEF OnceInv, TickInv, HeapSound, TypeOK
  <2>2. QED BY <1>1, <2>1, MinProperty
<1> HIDE DEF t
<1>3. \A u \in Times : Contents(nextTickHeap)[u] = IF u \in ticks \ unpushed THEN 1 ELSE 0
  BY <1>1 DEF OnceInv, HeapBeforeRun
<1>4. \A u \in Times : Contents(nextTickHeap')[u] = IF u \in ticks \ unpushed' THEN 1 ELSE 0
  <2>1. unpushed \subseteq ticks
    BY <1>1 DEF OnceInv, HeapBeforeRun
  <2>2. QED BY <1>1, <1>2, <1>3, <2>1, CopiesAfterPush
<1>5. HeapBeforeRun'
  BY <1>1, <1>4 DEF OnceInv, HeapBeforeRun, Pending
<1>6. QED BY <1>1, <1>5 DEF InitializesFirst, QueuedOnce

(* The pop at the end of a tick takes out the one copy of it.              *)
LEMMA OnceEndTick ==
    ASSUME OnceInv, EndTick
    PROVE  HeapBeforeRun' /\ InitializesFirst' /\ QueuedOnce'
<1>1. /\ pc = "tick" /\ pc' = "loop"
      /\ scheduledTasks' = [scheduledTasks EXCEPT ![currentTime] = <<>>]
      /\ nextTickHeap' = Pop(nextTickHeap)
      /\ UNCHANGED <<state, ticks, unpushed>>
  BY DEF EndTick
<1>2. /\ TypeOK /\ HeapOK(nextTickHeap) /\ nextTickHeap.size # 0
      /\ Peek(nextTickHeap) = currentTime /\ state # "INITIALIZATION"
  BY <1>1 DEF OnceInv, TickInv, HeapSound, WalksTop, Initialized
<1>3. \A u \in Times : Contents(nextTickHeap)[u] = IF Pending(u) THEN 1 ELSE 0
  BY <1>2 DEF OnceInv, QueuedOnce
<1>4. Pending(currentTime) /\ currentTime \in Times
  <2>1. Contents(nextTickHeap)[currentTime] > 0 /\ currentTime \in Times
    BY <1>2, PeekFacts DEF Empty
  <2>2. QED BY <1>3, <2>1
<1>5. \A u \in Times : Pending(u)' <=> u # currentTime /\ Pending(u)
  BY <1>1, <1>2 DEF Pending, TypeOK
<1>6. \A u \in Times : Contents(nextTickHeap')[u] = IF Pending(u)' THEN 1 ELSE 0
  BY <1>1, <1>2, <1>3, <1>4, <1>5, CopiesAfterPop
<1>7. QED BY <1>1, <1>2, <1>6 DEF HeapBeforeRun, InitializesFirst, QueuedOnce

(* Every step of a documented client keeps OnceInv.                        *)
LEMMA OnceStep ==
    ASSUME Client # "any"
    PROVE  OnceInv /\ [Next]_vars => OnceInv'
<1> SUFFICES ASSUME OnceInv, [Next]_vars
             PROVE  HeapBeforeRun' /\ InitializesFirst' /\ QueuedOnce'
  BY TickInvStep DEF OnceInv
<1> USE DEF members, control
<1>1. OnceInv /\ Initialized /\ KeysKept /\ TypeOK
  BY DEF OnceInv, TickInv
<1>2. ASSUME NEW ok \in BOOLEAN, InitializeModule(ok)
      PROVE  HeapBeforeRun' /\ InitializesFirst' /\ QueuedOnce'
  BY <1>1, <1>2 DEF InitializeModule, OnceInv, HeapBeforeRun, InitializesFirst, QueuedOnce, Pending
<1>3. CASE ModulesDone
  BY <1>1, <1>3 DEF ModulesDone, OnceInv, HeapBeforeRun, InitializesFirst, QueuedOnce, Pending
<1>4. CASE PushTick
  BY <1>4, OncePushTick
<1>5. CASE LeaveInitialize
  <2>1. state = "INITIALIZATION" /\ state' # "INITIALIZATION" /\ unpushed = {} /\ pc = "push"
        /\ pc' \in {"start", "idle"}
    BY <1>1, <1>5 DEF LeaveInitialize, OnceInv, InitializesFirst
  <2>2. \A t \in Times : Contents(nextTickHeap)[t] = IF Pending(t) THEN 1 ELSE 0
    BY <1>1, <2>1 DEF OnceInv, HeapBeforeRun, KeysKept
  <2>3. UNCHANGED <<nextTickHeap, scheduledTasks>>
    BY <1>5 DEF LeaveInitialize
  <2>4. QED BY <2>1, <2>2, <2>3 DEF HeapBeforeRun, InitializesFirst, QueuedOnce, Pending
<1>6. CASE Start
  BY <1>1, <1>6 DEF Start, OnceInv, Initialized, HeapBeforeRun, InitializesFirst, QueuedOnce, Pending
<1>7. CASE QueueDrained
  BY <1>1, <1>7 DEF QueueDrained, Return, OnceInv, Initialized, HeapBeforeRun, InitializesFirst,
                    QueuedOnce, Pending
<1>8. CASE FinalTimeReached
  BY <1>1, <1>8 DEF FinalTimeReached, Return, OnceInv, Initialized, HeapBeforeRun,
                    InitializesFirst, QueuedOnce, Pending
<1>9. CASE NextTick
  BY <1>1, <1>9 DEF NextTick, OnceInv, Initialized, HeapBeforeRun, InitializesFirst, QueuedOnce,
                    Pending
<1>10. CASE CallTask
  BY <1>1, <1>10 DEF CallTask, OnceInv, HeapBeforeRun, InitializesFirst, QueuedOnce, Pending
<1>11. CASE EndTick
  BY <1>11, OnceEndTick
<1>12. ASSUME NEW t \in Times, ScheduleAt(t) \/ ScheduleIn(t)
       PROVE  HeapBeforeRun' /\ InitializesFirst' /\ QueuedOnce'
  <2>1. PICK u \in Times : ScheduleAt(u)
    BY <1>1, <1>12, TimesFacts DEF ScheduleIn, TypeOK
  <2>2. CASE AssertionFails
    <3>1. pc # "push"
      BY <2>1, ScheduleOutcome
    <3>2. QED BY <1>1, <2>2, <3>1 DEF AssertionFails, OnceInv, HeapBeforeRun, InitializesFirst,
                                      QueuedOnce, Pending
  <2>3. CASE pc # "push" /\ Enqueue(u)
    BY <2>3, OnceEnqueue
  <2>4. QED BY <2>1, <2>2, <2>3, ScheduleOutcome
<1>13. ASSUME NEW t \in Times, RunAt(t) \/ Run(t)
       PROVE  HeapBeforeRun' /\ InitializesFirst' /\ QueuedOnce'
  <2>1. PICK u \in Times : RunAt(u)
    BY <1>1, <1>13, TimesFacts DEF TypeOK, Run
  <2>2. QED BY <1>1, <2>1 DEF RunAt, EnterInitialize, OnceInv, HeapBeforeRun, InitializesFirst,
                              QueuedOnce, Pending
<1>14. CASE AddModule \/ \E n \in 0..modules : RemoveModule(n)
  BY <1>1, <1>14 DEF AddModule, RemoveModule, OnceInv, HeapBeforeRun, InitializesFirst, QueuedOnce,
                     Pending
<1>15. CASE Initialize
  BY <1>1, <1>15 DEF Initialize, EnterInitialize, OnceInv, HeapBeforeRun, InitializesFirst,
                     QueuedOnce, Pending
<1>16. CASE UNCHANGED vars
  BY <1>1, <1>16 DEF vars, OnceInv, HeapBeforeRun, InitializesFirst, QueuedOnce, Pending
<1>17. QED
  BY <1>2, <1>3, <1>4, <1>5, <1>6, <1>7, <1>8, <1>9, <1>10, <1>11, <1>12, <1>13, <1>14, <1>15, <1>16
  DEF Next, Library, Callers

(* schedule_at pushes a tick when it gets its first event, the loop clears *)
(* and pops together, so the heap holds each tick once or not at all, for  *)
(* callers that schedule into the future and initialize at most once.      *)
THEOREM QueuedOnceAlways ==
    ASSUME Client # "any"
    PROVE  Spec => []QueuedOnce
<1>1. OnceInv => QueuedOnce
  BY DEF OnceInv
<1>2. QED BY <1>1, OnceInit, OnceStep, PTL DEF Spec

-----------------------------------------------------------------------------
(* For the same callers, the vectors of scheduledTasks beyond the position *)
(* of the loop hold exactly the events that wait, each under its tick and  *)
(* in the order of the calls that scheduled them.                          *)

(* How many events of the tick have been called. *)
Passed == [t \in Times |-> IF pc = "tick" /\ t = currentTime THEN pos ELSE 0]

Filed ==
    \A t \in Times : \A i \in 1..Len(scheduledTasks[t]) :
        scheduledTasks[t][i] \in Issued /\ target[scheduledTasks[t][i]] = t

Rising ==
    \A t \in Times : \A i, j \in 1..Len(scheduledTasks[t]) :
        i < j => scheduledTasks[t][i] < scheduledTasks[t][j]

AheadWaits ==
    \A t \in Times : \A i \in 1..Len(scheduledTasks[t]) :
        Passed[t] < i => scheduledTasks[t][i] \in ES!Waiting

WaitsAhead ==
    \A e \in ES!Waiting : \E i \in 1..Len(scheduledTasks[target[e]]) :
        Passed[target[e]] < i /\ scheduledTasks[target[e]][i] = e

ExecutedIssued == \A i \in 1..Len(executed) : executed[i] \in Issued

EventsInv == Filed /\ Rising /\ AheadWaits /\ WaitsAhead /\ ExecutedIssued

(* Types in the form the steps below use them. *)
LEMMA EventTypes ==
    ASSUME TypeOK
    PROVE  /\ currentTime \in Times /\ pos \in Nat
           /\ Len(target) \in Nat /\ target \in Seq(Times) /\ \A e \in Issued : target[e] \in Times
           /\ Len(executed) \in Nat /\ executed \in Seq(Nat)
           /\ \A t \in Times : scheduledTasks[t] \in Seq(Nat) /\ Len(scheduledTasks[t]) \in Nat
           /\ scheduledTasks = [t \in Times |-> scheduledTasks[t]]
<1>1. Events \subseteq Nat
  BY BoundsAssumption DEF Events
<1>2. executed \in Seq(Nat)
  BY <1>1, SeqMonotonic DEF TypeOK
<1>3. \A t \in Times : scheduledTasks[t] \in Seq(Nat)
  BY <1>1, SeqMonotonic DEF TypeOK
<1>4. Len(target) \in Nat /\ \A e \in Issued : target[e] \in Times
  BY LenProperties, ElementOfSeq DEF TypeOK, Issued
<1>5. Len(executed) \in Nat
  BY <1>2, LenProperties
<1>6. \A t \in Times : Len(scheduledTasks[t]) \in Nat
  BY <1>3, LenProperties
<1>7. scheduledTasks = [t \in Times |-> scheduledTasks[t]]
  BY DEF TypeOK
<1>8. QED BY <1>2, <1>3, <1>4, <1>5, <1>6, <1>7 DEF TypeOK

(* The constructor establishes EventsInv.                                  *)
LEMMA EventsInit == Init => EventsInv
<1> SUFFICES ASSUME Init PROVE EventsInv
  OBVIOUS
<1>1. /\ target = <<>> /\ executed = <<>> /\ Len(target) = 0 /\ Len(executed) = 0
      /\ \A t \in Times : scheduledTasks[t] = <<>> /\ Len(scheduledTasks[t]) = 0
  BY DEF Init
<1>2. ES!Waiting = {}
  BY <1>1 DEF ES!Waiting
<1>3. QED BY <1>1, <1>2 DEF EventsInv, Filed, Rising, AheadWaits, WaitsAhead, ExecutedIssued

(* A new event is the last of its tick, and waits.                         *)
LEMMA EventsEnqueue ==
    ASSUME TypeOK, EventsInv, NEW t \in Times, ~Iterating(t), Enqueue(t)
    PROVE  EventsInv'
<1> DEFINE n == Len(target) + 1
           k == Len(scheduledTasks[t]) + 1
<1>1. /\ scheduledTasks' = [scheduledTasks EXCEPT ![t] = Append(@, n)]
      /\ target' = Append(target, t)
      /\ UNCHANGED <<currentTime, pc, pos, executed>>
  BY DEF Enqueue, File, WithNewest, control
<1>2. /\ Len(target) \in Nat /\ n \in Nat /\ k \in Nat
      /\ target \in Seq(Times) /\ \A e \in Issued : target[e] \in Times
      /\ \A u \in Times : scheduledTasks[u] \in Seq(Nat) /\ Len(scheduledTasks[u]) \in Nat
      /\ pos \in Nat
  BY EventTypes
<1>3. /\ Len(target') = n /\ Issued' = Issued \cup {n} /\ n \notin Issued
      /\ \A e \in Issued : target'[e] = target[e] /\ e < n
      /\ target'[n] = t
  BY <1>1, <1>2, AppendProperties DEF Issued
<1>4. /\ \A u \in Times : u # t => scheduledTasks'[u] = scheduledTasks[u]
      /\ Len(scheduledTasks'[t]) = k /\ scheduledTasks'[t][k] = n
      /\ \A i \in 1..Len(scheduledTasks[t]) : scheduledTasks'[t][i] = scheduledTasks[t][i]
  <2>1. /\ scheduledTasks'[t] = Append(scheduledTasks[t], n)
        /\ \A u \in Times : u # t => scheduledTasks'[u] = scheduledTasks[u]
    BY <1>1 DEF TypeOK
  <2>2. QED BY <1>2, <2>1, AppendProperties
<1> HIDE DEF n
<1>old. ASSUME NEW u \in Times, NEW i \in 1..Len(scheduledTasks'[u]), u # t \/ i # k
        PROVE  i \in 1..Len(scheduledTasks[u]) /\ scheduledTasks'[u][i] = scheduledTasks[u][i]
  <2>1. CASE u # t
    BY <1>4, <2>1
  <2>2. CASE u = t
    <3>1. i \in 1..k /\ i # k /\ Len(scheduledTasks[t]) \in Nat
      BY <1>2, <1>4, <1>old, <2>2
    <3>2. i \in 1..Len(scheduledTasks[t])
      BY <3>1
    <3>3. QED BY <1>4, <2>2, <3>2
  <2>3. QED BY <2>1, <2>2
<1>5. \A u \in Times : Passed'[u] = Passed[u] /\ Passed[u] \in Nat /\ Passed[t] = 0
  BY <1>1, <1>2 DEF Passed, Iterating
<1>6. /\ \A i \in 1..Len(executed) : executed[i] \in Issued
      /\ ES!Waiting' = ES!Waiting \cup {n}
  <2>1. \A i \in 1..Len(executed) : executed[i] \in Issued
    BY DEF EventsInv, ExecutedIssued
  <2>2. QED BY <1>1, <1>3, <2>1 DEF ES!Waiting, Issued
<1>7. Filed'
  <2>1. SUFFICES ASSUME NEW u \in Times, NEW i \in 1..Len(scheduledTasks'[u])
                 PROVE  scheduledTasks'[u][i] \in Issued' /\ target'[scheduledTasks'[u][i]] = u
    BY DEF Filed
  <2>2. CASE u # t \/ i # k
    <3>1. i \in 1..Len(scheduledTasks[u]) /\ scheduledTasks'[u][i] = scheduledTasks[u][i]
      BY <1>old, <2>1, <2>2
    <3>2. QED BY <1>3, <3>1 DEF EventsInv, Filed
  <2>3. CASE u = t /\ i = k
    BY <1>3, <1>4, <2>3
  <2>4. QED BY <2>2, <2>3
<1>8. Rising'
  <2>1. SUFFICES ASSUME NEW u \in Times, NEW i \in 1..Len(scheduledTasks'[u]),
                        NEW j \in 1..Len(scheduledTasks'[u]), i < j
                 PROVE  scheduledTasks'[u][i] < scheduledTasks'[u][j]
    BY DEF Rising
  <2>2. CASE u # t
    BY <1>4, <2>1, <2>2 DEF EventsInv, Rising
  <2>3. CASE u = t /\ j # k
    <3>1. i \in 1..Len(scheduledTasks[t]) /\ j \in 1..Len(scheduledTasks[t])
      <4>1. i \in 1..k /\ j \in 1..k /\ i < j /\ j # k /\ Len(scheduledTasks[t]) \in Nat
        BY <1>2, <1>4, <2>1, <2>3
      <4>2. QED BY <4>1
    <3>2. QED BY <1>4, <2>1, <2>3, <3>1 DEF EventsInv, Rising
  <2>4. CASE u = t /\ j = k
    <3>1. i \in 1..Len(scheduledTasks[t])
      <4>1. i \in 1..k /\ i < k /\ Len(scheduledTasks[t]) \in Nat
        BY <1>2, <1>4, <2>1, <2>4
      <4>2. QED BY <4>1
    <3>2. scheduledTasks[t][i] \in Issued
      BY <3>1 DEF EventsInv, Filed
    <3>3. QED BY <1>3, <1>4, <2>4, <3>1, <3>2
  <2>5. QED BY <2>2, <2>3, <2>4
<1>9. AheadWaits'
  <2>1. SUFFICES ASSUME NEW u \in Times, NEW i \in 1..Len(scheduledTasks'[u]), Passed'[u] < i
                 PROVE  scheduledTasks'[u][i] \in ES!Waiting'
    BY DEF AheadWaits
  <2>2. CASE u # t \/ i # k
    <3>1. i \in 1..Len(scheduledTasks[u]) /\ scheduledTasks'[u][i] = scheduledTasks[u][i]
      BY <1>old, <2>1, <2>2
    <3>2. QED BY <1>5, <1>6, <2>1, <3>1 DEF EventsInv, AheadWaits
  <2>3. CASE u = t /\ i = k
    BY <1>4, <1>6, <2>3
  <2>4. QED BY <2>2, <2>3
<1>10. WaitsAhead'
  <2>1. SUFFICES ASSUME NEW e \in ES!Waiting'
                 PROVE  \E i \in 1..Len(scheduledTasks'[target'[e]]) :
                            Passed'[target'[e]] < i /\ scheduledTasks'[target'[e]][i] = e
    BY DEF WaitsAhead
  <2>2. CASE e = n
    <3>1. k \in 1..Len(scheduledTasks'[t]) /\ Passed'[t] < k
      BY <1>2, <1>4, <1>5
    <3>2. QED BY <1>3, <1>4, <2>2, <3>1
  <2>3. CASE e # n
    <3>1. e \in ES!Waiting /\ e \in Issued /\ target'[e] = target[e] /\ target[e] \in Times
      BY <1>2, <1>3, <1>6, <2>1, <2>3 DEF ES!Waiting, Issued
    <3>2. PICK i \in 1..Len(scheduledTasks[target[e]]) :
                   Passed[target[e]] < i /\ scheduledTasks[target[e]][i] = e
      BY <3>1 DEF EventsInv, WaitsAhead
    <3>3. i \in 1..Len(scheduledTasks'[target[e]]) /\ scheduledTasks'[target[e]][i] = e
      <4>1. CASE target[e] # t
        BY <1>4, <3>1, <3>2, <4>1
      <4>2. CASE target[e] = t
        <5>1. i \in 1..Len(scheduledTasks[t]) /\ scheduledTasks'[t][i] = e
          BY <1>4, <3>2, <4>2
        <5>2. i \in 1..k
          BY <1>2, <5>1
        <5>3. QED BY <1>4, <4>2, <5>1, <5>2
      <4>3. QED BY <4>1, <4>2
    <3>4. QED BY <1>5, <3>1, <3>2, <3>3
  <2>4. QED BY <2>2, <2>3
<1>11. ExecutedIssued'
  BY <1>1, <1>3, <1>6 DEF ExecutedIssued
<1>12. QED BY <1>7, <1>8, <1>9, <1>10, <1>11 DEF EventsInv

(* The event called is the one at the position of the loop; it waits no    *)
(* more.                                                                   *)
LEMMA EventsCallTask ==
    ASSUME TypeOK, EventsInv, CallTask
    PROVE  EventsInv'
<1> DEFINE e == scheduledTasks[currentTime][pos + 1]
<1>1. /\ pc = "tick" /\ pos + 1 \in 1..Len(scheduledTasks[currentTime])
      /\ pos' = pos + 1 /\ executed' = Append(executed, e)
      /\ UNCHANGED <<pc, currentTime, scheduledTasks, target>>
      /\ pos \in Nat /\ currentTime \in Times /\ executed \in Seq(Nat) /\ Len(executed) \in Nat
      /\ \A t \in Times : scheduledTasks[t] \in Seq(Nat) /\ Len(scheduledTasks[t]) \in Nat
  BY EventTypes DEF CallTask, members
<1>2. e \in Issued /\ target[e] = currentTime /\ e \in Nat
  BY <1>1, ElementOfSeq DEF EventsInv, Filed
<1>3. /\ Len(executed') = Len(executed) + 1 /\ executed'[Len(executed) + 1] = e
      /\ \A i \in 1..Len(executed) : executed'[i] = executed[i]
  BY <1>1, <1>2, AppendProperties
<1> HIDE DEF e
<1>4. ES!Waiting' = ES!Waiting \ {e} /\ Issued' = Issued
  <2>1. \A f : (\A i \in 1..Len(executed') : executed'[i] # f)
                 <=> (\A i \in 1..Len(executed) : executed[i] # f) /\ f # e
    BY <1>1, <1>3
  <2>2. QED BY <1>1, <2>1 DEF ES!Waiting, Issued
<1>5. \A t \in Times : Passed[t] \in Nat /\ Passed'[t] = IF t = currentTime THEN Passed[t] + 1 ELSE Passed[t]
  BY <1>1 DEF Passed
<1>6. Passed[currentTime] = pos
  BY <1>1 DEF Passed
<1>7. Filed' /\ Rising'
  BY <1>1, <1>4 DEF EventsInv, Filed, Rising
<1>8. ExecutedIssued'
  BY <1>1, <1>2, <1>3, <1>4 DEF EventsInv, ExecutedIssued
<1>9. AheadWaits'
  <2>1. SUFFICES ASSUME NEW t \in Times, NEW i \in 1..Len(scheduledTasks[t]), Passed'[t] < i
                 PROVE  scheduledTasks[t][i] \in ES!Waiting'
    BY <1>1 DEF AheadWaits
  <2>2. Passed[t] < i
    BY <1>1, <1>5, <2>1
  <2>3. scheduledTasks[t][i] \in ES!Waiting
    BY <2>2 DEF EventsInv, AheadWaits
  <2>4. CASE t = currentTime
    <3>1. pos + 1 < i
      BY <1>1, <1>5, <1>6, <2>1, <2>4
    <3>2. e < scheduledTasks[t][i]
      BY <1>1, <2>4, <3>1 DEF EventsInv, Rising, e
    <3>3. QED BY <1>2, <1>4, <2>3, <3>2
  <2>5. CASE t # currentTime
    <3>1. target[scheduledTasks[t][i]] = t
      BY DEF EventsInv, Filed
    <3>2. QED BY <1>2, <1>4, <2>3, <2>5, <3>1
  <2>6. QED BY <2>4, <2>5
<1>10. WaitsAhead'
  <2>1. SUFFICES ASSUME NEW f \in ES!Waiting'
                 PROVE  \E i \in 1..Len(scheduledTasks[target[f]]) :
                            Passed'[target[f]] < i /\ scheduledTasks[target[f]][i] = f
    BY <1>1 DEF WaitsAhead
  <2>2. f \in ES!Waiting /\ f # e /\ target[f] \in Times
    BY <1>4, <2>1, EventTypes DEF ES!Waiting, Issued
  <2>3. PICK i \in 1..Len(scheduledTasks[target[f]]) :
                 Passed[target[f]] < i /\ scheduledTasks[target[f]][i] = f
    BY <2>2 DEF EventsInv, WaitsAhead
  <2>4. target[f] = currentTime => i # pos + 1
    BY <2>2, <2>3 DEF e
  <2>5. Passed'[target[f]] < i
    BY <1>1, <1>5, <1>6, <2>2, <2>3, <2>4
  <2>6. QED BY <2>3, <2>5
<1>11. QED BY <1>7, <1>8, <1>9, <1>10 DEF EventsInv

(* The vector that is cleared has been walked to its end.                  *)
LEMMA EventsEndTick ==
    ASSUME TypeOK, EventsInv, EndTick
    PROVE  EventsInv'
<1>1. /\ pc = "tick" /\ pc' = "loop" /\ pos = Len(scheduledTasks[currentTime])
      /\ scheduledTasks' = [scheduledTasks EXCEPT ![currentTime] = <<>>]
      /\ UNCHANGED <<currentTime, target, executed>>
      /\ \A t \in Times : Len(scheduledTasks[t]) \in Nat
      /\ currentTime \in Times
  BY EventTypes DEF EndTick
<1>2. ES!Waiting' = ES!Waiting /\ Issued' = Issued
  BY <1>1 DEF ES!Waiting, Issued
<1>3. /\ \A t \in Times : t # currentTime => scheduledTasks'[t] = scheduledTasks[t]
      /\ Len(scheduledTasks'[currentTime]) = 0
  BY <1>1 DEF TypeOK
<1>4. /\ \A t \in Times : Passed'[t] = 0 /\ (t # currentTime => Passed[t] = 0)
      /\ Passed[currentTime] = Len(scheduledTasks[currentTime])
  BY <1>1 DEF Passed
<1>5. Filed' /\ Rising' /\ AheadWaits'
  BY <1>1, <1>2, <1>3, <1>4 DEF EventsInv, Filed, Rising, AheadWaits
<1>6. WaitsAhead'
  <2>1. SUFFICES ASSUME NEW e \in ES!Waiting
                 PROVE  \E i \in 1..Len(scheduledTasks'[target[e]]) :
                            Passed'[target[e]] < i /\ scheduledTasks'[target[e]][i] = e
    BY <1>1, <1>2 DEF WaitsAhead
  <2>2. target[e] \in Times
    BY EventTypes DEF ES!Waiting, Issued
  <2>3. PICK i \in 1..Len(scheduledTasks[target[e]]) :
                 Passed[target[e]] < i /\ scheduledTasks[target[e]][i] = e
    BY DEF EventsInv, WaitsAhead
  <2>4. target[e] # currentTime
    BY <1>1, <1>4, <2>3
  <2>5. QED BY <1>3, <1>4, <2>2, <2>3, <2>4
<1>7. QED BY <1>1, <1>2, <1>5, <1>6 DEF EventsInv, ExecutedIssued

(* A step that leaves the events alone, and does not enter or leave a tick *)
(* that has been begun.                                                    *)
LEMMA EventsFrame ==
    ASSUME EventsInv, UNCHANGED <<scheduledTasks, target, executed>>, Passed' = Passed
    PROVE  EventsInv'
<1>1. ES!Waiting' = ES!Waiting /\ Issued' = Issued
  BY DEF ES!Waiting, Issued
<1>2. QED BY <1>1 DEF EventsInv, Filed, Rising, AheadWaits, WaitsAhead, ExecutedIssued

(* The program that an assertion stopped does nothing more, in the middle  *)
(* of a tick or not.                                                       *)
EventsHeld == pc # "aborted" => EventsInv

LEMMA AbortedStays == pc = "aborted" /\ [Next]_vars => UNCHANGED vars
  BY DEF Next, Library, Callers, InitializeModule, ModulesDone, PushTick, LeaveInitialize, Start,
         QueueDrained, FinalTimeReached, NextTick, CallTask, EndTick, ScheduleAt, ScheduleIn,
         CallerMaySchedule, RunAt, Run, AddModule, RemoveModule, Initialize

(* Every step of a documented client keeps EventsInv, until it is stopped. *)
LEMMA EventsStep ==
    ASSUME Client # "any"
    PROVE  TickInv /\ EventsHeld /\ [Next]_vars => EventsHeld'
<1> SUFFICES ASSUME TypeOK, EventsInv, [Next]_vars, pc' # "aborted" PROVE EventsInv'
  BY AbortedStays DEF TickInv, EventsHeld, vars, control
<1> USE DEF members, control
<1>1. ASSUME NEW ok \in BOOLEAN, InitializeModule(ok) PROVE EventsInv'
  BY <1>1, EventsFrame DEF InitializeModule, Passed
<1>2. CASE ModulesDone \/ PushTick \/ LeaveInitialize \/ Start
  <2>1. UNCHANGED <<scheduledTasks, target, executed>> /\ pc # "tick" /\ pc' # "tick"
    BY <1>2 DEF ModulesDone, PushTick, LeaveInitialize, Start
  <2>2. QED BY <2>1, EventsFrame DEF Passed
<1>3. CASE QueueDrained \/ FinalTimeReached
  <2>1. UNCHANGED <<scheduledTasks, target, executed>> /\ pc # "tick" /\ pc' # "tick"
    BY <1>3 DEF QueueDrained, FinalTimeReached, Return
  <2>2. QED BY <2>1, EventsFrame DEF Passed
<1>4. CASE NextTick
  <2>1. UNCHANGED <<scheduledTasks, target, executed>> /\ pc # "tick" /\ pos' = 0
    BY <1>4 DEF NextTick
  <2>2. QED BY <2>1, EventsFrame DEF Passed
<1>5. CASE CallTask
  BY <1>5, EventsCallTask
<1>6. CASE EndTick
  BY <1>6, EventsEndTick
<1>7. ASSUME NEW t \in Times, ScheduleAt(t) \/ ScheduleIn(t) PROVE EventsInv'
  <2>1. PICK u \in Times : ScheduleAt(u)
    BY <1>7, TimesFacts DEF ScheduleIn, TypeOK
  <2>2. ~AssertionFails
    BY DEF AssertionFails
  <2>3. CASE ~Iterating(u) /\ Enqueue(u)
    BY <2>3, EventsEnqueue
  <2>4. QED BY <2>1, <2>2, <2>3, ScheduleOutcome
<1>8. ASSUME NEW t \in Times, RunAt(t) \/ Run(t) PROVE EventsInv'
  <2>1. PICK u \in Times : RunAt(u)
    BY <1>8, TimesFacts DEF TypeOK, Run
  <2>2. UNCHANGED <<scheduledTasks, target, executed>> /\ pc # "tick" /\ pc' # "tick"
    BY <2>1 DEF RunAt, EnterInitialize
  <2>3. QED BY <2>2, EventsFrame DEF Passed
<1>9. CASE AddModule \/ (\E n \in 0..modules : RemoveModule(n)) \/ Initialize
  <2>1. UNCHANGED <<scheduledTasks, target, executed>> /\ pc # "tick" /\ pc' # "tick"
    BY <1>9 DEF AddModule, RemoveModule, Initialize, EnterInitialize
  <2>2. QED BY <2>1, EventsFrame DEF Passed
<1>10. CASE UNCHANGED vars
  BY <1>10, EventsFrame DEF vars, Passed
<1>11. QED
  BY <1>1, <1>2, <1>3, <1>4, <1>5, <1>6, <1>7, <1>8, <1>9, <1>10 DEF Next, Library, Callers

(* EventsInv is an invariant of documented clients.                        *)
LEMMA EventsAlways ==
    ASSUME Client # "any"
    PROVE  Spec => []EventsHeld
<1>1. Init => EventsHeld
  BY EventsInit DEF EventsHeld
<1>2. QED BY <1>1, EventsStep, TickInvAlways, PTL DEF Spec

(* An empty heap holds no tick. *)
LEMMA EmptyHolds ==
    ASSUME NEW h, HeapOK(h), h.size = 0, NEW t \in Times
    PROVE  Contents(h)[t] = 0
<1>1. Contents(h) \in [Values -> Nat] /\ SizeExact(h)
  BY ContentsType DEF HeapOK, Shape
<1>2. QED BY <1>1, SlotsNone DEF SizeExact, Times

(* An empty heap leaves no event waiting. *)
LEMMA NothingWaits ==
    ASSUME TickInv, EventsInv, state # "INITIALIZATION", Empty(nextTickHeap)
    PROVE  ES!Waiting = {} /\ Called = Issued
<1>1. \A t \in Times : ~Pending(t)
  <2>1. SUFFICES ASSUME NEW t \in Times PROVE ~(Contents(nextTickHeap)[t] > 0)
    BY DEF TickInv, TickQueued
  <2>2. HeapOK(nextTickHeap) /\ nextTickHeap.size = 0
    BY DEF TickInv, HeapSound, Empty
  <2>3. QED BY <2>2, EmptyHolds
<1>2. \A e \in ES!Waiting : FALSE
  <2>1. SUFFICES ASSUME NEW e \in ES!Waiting PROVE FALSE
    OBVIOUS
  <2>2. target[e] \in Times
    BY EventTypes DEF ES!Waiting, Issued, TickInv
  <2>3. PICK i \in 1..Len(scheduledTasks[target[e]]) : scheduledTasks[target[e]][i] = e
    BY DEF EventsInv, WaitsAhead
  <2>4. scheduledTasks[target[e]] = <<>>
    BY <1>1, <2>2 DEF Pending
  <2>5. Len(scheduledTasks[target[e]]) = 0
    BY <2>4
  <2>6. QED BY <2>3, <2>5
<1>3. QED BY <1>2 DEF ES!Waiting, Called, Issued, EventsInv, ExecutedIssued

(* run_at() answers STOPPED only when every event ever scheduled has been  *)
(* called: none is left in a vector whose tick is not in the heap.         *)
THEOREM StoppedMeansDoneAlways ==
    ASSUME Client # "any"
    PROVE  Spec => StoppedMeansDone
<1>1. TickInv /\ EventsHeld /\ [Next]_vars
        => [pc = "loop" /\ state' = "STOPPED" => Called = Issued]_vars
  <2> SUFFICES ASSUME TickInv, EventsInv, Next, pc = "loop", state' = "STOPPED"
               PROVE  Called = Issued
    BY DEF EventsHeld
  <2> USE DEF members, control
  <2>1. state = "RUNNING"
    BY DEF TickInv, Initialized
  <2>2. CASE Library
    <3>1. QueueDrained
      BY <2>1, <2>2 DEF Library, InitializeModule, ModulesDone, PushTick, LeaveInitialize, Start,
                        FinalTimeReached, NextTick, CallTask, EndTick
    <3>2. QED BY <2>1, <3>1, NothingWaits DEF QueueDrained
  <2>3. CASE Callers
    BY <2>1, <2>3 DEF Callers, ScheduleAt, ScheduleIn, CallerMaySchedule, RunAt, Run, AddModule,
                      RemoveModule, Initialize
  <2>4. QED BY <2>2, <2>3 DEF Next
<1>2. QED BY <1>1, TickInvAlways, EventsAlways, PTL DEF Spec, StoppedMeansDone

-----------------------------------------------------------------------------
(* What holds of the scheduler when its callers are "ordered": documented  *)
(* callers who, between two runs, schedule nothing before the top of the   *)
(* heap.  The clock never passes an event, and events are called in order. *)

(* No event waits in the past, nor below the top of the heap. *)
NotPast     == \A t \in Times : Pending(t) => currentTime <= t
HeapOrdered == TopIsLeast(nextTickHeap)

(* initialize() has pushed the least keys. *)
PushOrder == pc = "push" => \A a \in ticks \ unpushed, b \in unpushed : a <= b

BeforeRun == state = "INITIALIZATION" => currentTime = 0 /\ returned = "none"

(* A run has its end before it. *)
RunAhead ==
    pc \in {"start", "loop", "tick"} \/ (inRun /\ pc \in {"module", "push"})
        => currentTime <= finalTime

(* Between runs every event is in the future. *)
NothingDue ==
    pc = "idle" /\ returned \in {"EVENTS_IN_QUEUE", "STOPPED"} =>
        \A t \in Times : Pending(t) => currentTime < t

ClockInv ==
    OnceInv /\ NotPast /\ HeapOrdered /\ PushOrder /\ BeforeRun /\ RunAhead /\ NothingDue

(* A new context has nothing scheduled and an empty heap.                  *)
LEMMA ClockInit == Init => ClockInv
<1> SUFFICES ASSUME Init PROVE ClockInv
  OBVIOUS
<1>1. HeapOrdered
  BY NewHeapTop DEF Init, HeapOrdered
<1>2. QED BY <1>1, OnceInit DEF Init, ClockInv, NotPast, Pending, PushOrder, BeforeRun, RunAhead,
                                NothingDue

(* After initialize(), the top of the heap is a tick with events, and no   *)
(* tick with events is before it.                                          *)
LEMMA TopFacts ==
    ASSUME ClockInv, state # "INITIALIZATION"
    PROVE  /\ ~Empty(nextTickHeap) =>
                 Peek(nextTickHeap) \in Times /\ Pending(Peek(nextTickHeap))
           /\ \A t \in Times : Pending(t) => ~Empty(nextTickHeap) /\ Peek(nextTickHeap) <= t
<1>1. HeapOK(nextTickHeap) /\ TopIsLeast(nextTickHeap) /\ nextTickHeap.size \in Nat
  BY BucketFacts DEF ClockInv, OnceInv, TickInv, HeapSound, HeapOrdered, HeapOK
<1>2. \A t \in Times : Contents(nextTickHeap)[t] = IF Pending(t) THEN 1 ELSE 0
  BY DEF ClockInv, OnceInv, QueuedOnce
<1>3. ASSUME ~Empty(nextTickHeap)
      PROVE  Peek(nextTickHeap) \in Times /\ Pending(Peek(nextTickHeap))
  BY <1>1, <1>2, <1>3, PeekFacts
<1>4. ASSUME NEW t \in Times, Pending(t)
      PROVE  ~Empty(nextTickHeap) /\ Peek(nextTickHeap) <= t
  <2>1. Contents(nextTickHeap)[t] > 0
    BY <1>2, <1>4
  <2>2. nextTickHeap.size # 0
    BY <1>1, <2>1, EmptyHolds
  <2>3. QED BY <1>1, <2>1, <2>2 DEF TopIsLeast, Empty, Times
<1>5. QED BY <1>3, <1>4

(* Everyone whom ScheduleAt lets in schedules at or after the clock, and,  *)
(* once the heap is in use, at or after its top.                           *)
LEMMA ScheduledAhead ==
    ASSUME Client = "ordered", ClockInv, NEW t \in Times, ScheduleAt(t), ~AssertionFails
    PROVE  /\ Enqueue(t) /\ pc # "push" /\ currentTime <= t
           /\ state # "INITIALIZATION" => currentTime < t /\ (Empty(nextTickHeap) \/ Peek(nextTickHeap) <= t)
<1>1. Future(t) /\ Enqueue(t) /\ pc \in {"idle", "module", "tick"}
  BY ScheduleOutcome DEF ScheduleAt, CallerMaySchedule
<1>2. currentTime \in Nat /\ t \in Nat
  BY TimesFacts DEF ClockInv, OnceInv, TickInv, TypeOK
<1>3. CASE state = "INITIALIZATION"
  BY <1>1, <1>2, <1>3 DEF ClockInv, BeforeRun
<1>4. CASE state # "INITIALIZATION"
  <2>1. currentTime < t /\ pc \in {"idle", "tick"}
    BY <1>1, <1>4 DEF Future, ClockInv, OnceInv, InitializesFirst
  <2>2. CASE pc = "idle"
    BY <1>1, <1>2, <2>1, <2>2 DEF ScheduleAt, CallerMaySchedule
  <2>3. CASE pc = "tick"
    BY <1>1, <1>2, <2>1, <2>3 DEF ClockInv, OnceInv, TickInv, WalksTop
  <2>4. QED BY <2>1, <2>2, <2>3
<1>5. QED BY <1>3, <1>4

(* schedule_at() puts no event into the past, and no tick below the top of *)
(* the heap.                                                               *)
LEMMA ClockEnqueue ==
    ASSUME Client = "ordered", ClockInv, NEW t \in Times, ScheduleAt(t), ~AssertionFails
    PROVE  NotPast' /\ HeapOrdered' /\ PushOrder' /\ BeforeRun' /\ RunAhead' /\ NothingDue'
<1>1. /\ scheduledTasks' = [scheduledTasks EXCEPT ![t] = Append(@, Len(target) + 1)]
      /\ nextTickHeap' = IF state # "INITIALIZATION" /\ scheduledTasks[t] = <<>>
                         THEN Push(nextTickHeap, t) ELSE nextTickHeap
      /\ UNCHANGED <<state, currentTime, pc, inRun, finalTime, returned>>
  BY ScheduledAhead DEF Enqueue, File, WithNewest, control
<1>2. /\ pc # "push" /\ currentTime <= t
      /\ state # "INITIALIZATION" => currentTime < t /\ (Empty(nextTickHeap) \/ Peek(nextTickHeap) <= t)
  BY ScheduledAhead
<1>3. \A u \in Times : Pending(u)' => u = t \/ Pending(u)
  BY <1>1 DEF ClockInv, OnceInv, TickInv, TypeOK, Pending
<1>4. NotPast'
  BY <1>1, <1>2, <1>3 DEF ClockInv, NotPast
<1>5. HeapOrdered'
  <2>1. HeapOK(nextTickHeap) /\ TopIsLeast(nextTickHeap)
    BY DEF ClockInv, OnceInv, TickInv, HeapSound, HeapOrdered
  <2>2. QED BY <1>1, <1>2, <2>1, PushTop DEF HeapOrdered, Times, Empty
<1>6. NothingDue'
  BY <1>1, <1>2, <1>3 DEF ClockInv, NothingDue, BeforeRun
<1>7. QED BY <1>1, <1>2, <1>4, <1>5, <1>6 DEF ClockInv, PushOrder, BeforeRun, RunAhead

(* initialize() pushes its keys in rising order, so the first stays the    *)
(* top.                                                                    *)
LEMMA ClockPushTick ==
    ASSUME ClockInv, PushTick
    PROVE  HeapOrdered' /\ PushOrder'
<1> DEFINE t == Min(unpushed)
<1>1. /\ pc = "push" /\ pc' = "push" /\ unpushed # {}
      /\ nextTickHeap' = Push(nextTickHeap, t) /\ unpushed' = unpushed \ {t} /\ ticks' = ticks
  BY DEF PushTick
<1>2. /\ unpushed \subseteq Times /\ ticks \subseteq Times /\ HeapOK(nextTickHeap)
      /\ Times \subseteq Nat /\ unpushed \in SUBSET Nat
  BY TimesFacts DEF ClockInv, OnceInv, TickInv, HeapSound, TypeOK
<1>3. t \in unpushed /\ \A b \in unpushed : t <= b
  BY <1>1, <1>2, MinProperty
<1> HIDE DEF t
<1>4. \A a \in ticks \ unpushed : a <= t
  BY <1>1, <1>3 DEF ClockInv, PushOrder
<1>5. nextTickHeap.size = 0 \/ Peek(nextTickHeap) <= t
  <2>1. SUFFICES ASSUME nextTickHeap.size # 0 PROVE Peek(nextTickHeap) <= t
    OBVIOUS
  <2>2. Peek(nextTickHeap) \in Times /\ Contents(nextTickHeap)[Peek(nextTickHeap)] > 0
    BY <1>2, <2>1, PeekFacts DEF Empty
  <2>3. Peek(nextTickHeap) \in ticks \ unpushed
    BY <1>1, <2>2 DEF ClockInv, OnceInv, InitializesFirst, HeapBeforeRun
  <2>4. QED BY <1>4, <2>3
<1>6. HeapOrdered'
  BY <1>1, <1>2, <1>3, <1>5, PushTop DEF ClockInv, HeapOrdered, Times
<1>7. PushOrder'
  <2>1. SUFFICES ASSUME NEW a \in ticks \ (unpushed \ {t}), NEW b \in unpushed \ {t}
                 PROVE  a <= b
    BY <1>1 DEF PushOrder
  <2>2. CASE a = t
    BY <1>3, <2>2
  <2>3. CASE a # t
    BY <1>1, <2>3 DEF ClockInv, PushOrder
  <2>4. QED BY <2>2, <2>3
<1>8. QED BY <1>6, <1>7

(* A pop brings a least tick to the top.                                   *)
LEMMA ClockEndTick ==
    ASSUME ClockInv, EndTick
    PROVE  NotPast' /\ HeapOrdered'
<1>1. /\ pc = "tick" /\ scheduledTasks' = [scheduledTasks EXCEPT ![currentTime] = <<>>]
      /\ nextTickHeap' = Pop(nextTickHeap) /\ currentTime' = currentTime
  BY DEF EndTick
<1>2. HeapOK(nextTickHeap) /\ nextTickHeap.size # 0
  BY <1>1 DEF ClockInv, OnceInv, TickInv, HeapSound, WalksTop
<1>3. \A u \in Times : Pending(u)' => Pending(u)
  BY <1>1 DEF ClockInv, OnceInv, TickInv, TypeOK, Pending
<1>4. QED BY <1>1, <1>2, <1>3, PopProperty DEF ClockInv, NotPast, HeapOrdered

(* Every step of an ordered client and of the library keeps ClockInv.      *)
LEMMA ClockStep ==
    ASSUME Client = "ordered"
    PROVE  ClockInv /\ [Next]_vars => ClockInv'
<1> SUFFICES ASSUME ClockInv, [Next]_vars
             PROVE  NotPast' /\ HeapOrdered' /\ PushOrder' /\ BeforeRun' /\ RunAhead' /\ NothingDue'
  BY OnceStep DEF ClockInv
<1> USE DEF members, control
<1>1. /\ OnceInv /\ TypeOK /\ Initialized /\ InitializesFirst
      /\ currentTime \in Nat /\ finalTime \in Nat /\ Times \subseteq Nat
  BY TimesFacts DEF ClockInv, OnceInv, TickInv, TypeOK
<1>2. ASSUME NEW ok \in BOOLEAN, InitializeModule(ok)
      PROVE  NotPast' /\ HeapOrdered' /\ PushOrder' /\ BeforeRun' /\ RunAhead' /\ NothingDue'
  BY <1>2 DEF InitializeModule, ClockInv, NotPast, HeapOrdered, PushOrder, BeforeRun, RunAhead,
              NothingDue, Pending
<1>3. CASE ModulesDone
  BY <1>3 DEF ModulesDone, ClockInv, NotPast, HeapOrdered, PushOrder, BeforeRun, RunAhead,
              NothingDue, Pending
<1>4. CASE PushTick
  BY <1>4, ClockPushTick DEF PushTick, ClockInv, NotPast, BeforeRun, RunAhead, NothingDue, Pending
<1>5. CASE LeaveInitialize
  BY <1>1, <1>5 DEF LeaveInitialize, InitializesFirst, ClockInv, NotPast, HeapOrdered, PushOrder,
                    BeforeRun, RunAhead, NothingDue, Pending
<1>6. CASE Start
  BY <1>6 DEF Start, ClockInv, NotPast, HeapOrdered, PushOrder, BeforeRun, RunAhead, NothingDue,
              Pending
<1>7. CASE QueueDrained
  <2>1. \A t \in Times : ~Pending(t)
    BY <1>1, <1>7, TopFacts DEF QueueDrained, Initialized
  <2>2. QED BY <1>7, <2>1 DEF QueueDrained, Return, ClockInv, NotPast, HeapOrdered, PushOrder,
                              BeforeRun, RunAhead, NothingDue, Pending
<1>8. CASE FinalTimeReached
  <2>1. /\ \A t \in Times : Pending(t) => finalTime < t
        /\ state # "INITIALIZATION"
    <3>1. /\ state # "INITIALIZATION" /\ ~Empty(nextTickHeap) /\ finalTime < Peek(nextTickHeap)
      BY <1>1, <1>8 DEF FinalTimeReached, Initialized
    <3>2. Peek(nextTickHeap) \in Nat /\ \A t \in Times : Pending(t) => Peek(nextTickHeap) <= t
      BY <1>1, <3>1, TopFacts
    <3>3. QED BY <1>1, <3>1, <3>2
  <2>2. QED BY <1>1, <1>8, <2>1 DEF FinalTimeReached, Return, ClockInv, NotPast, HeapOrdered,
                                    PushOrder, BeforeRun, RunAhead, NothingDue, Pending
<1>9. CASE NextTick
  <2>1. /\ \A t \in Times : Pending(t) => Peek(nextTickHeap) <= t
        /\ state # "INITIALIZATION"
    BY <1>1, <1>9, TopFacts DEF NextTick, Initialized
  <2>2. QED BY <1>9, <2>1 DEF NextTick, ClockInv, NotPast, HeapOrdered, PushOrder, BeforeRun,
                              RunAhead, NothingDue, Pending
<1>10. CASE CallTask
  BY <1>10 DEF CallTask, ClockInv, NotPast, HeapOrdered, PushOrder, BeforeRun, RunAhead,
               NothingDue, Pending
<1>11. CASE EndTick
  BY <1>11, ClockEndTick DEF EndTick, ClockInv, PushOrder, BeforeRun, RunAhead, NothingDue
<1>12. ASSUME NEW t \in Times, ScheduleAt(t) \/ ScheduleIn(t)
       PROVE  NotPast' /\ HeapOrdered' /\ PushOrder' /\ BeforeRun' /\ RunAhead' /\ NothingDue'
  <2>1. PICK u \in Times : ScheduleAt(u)
    BY <1>1, <1>12, TimesFacts DEF ScheduleIn, TypeOK
  <2>2. CASE AssertionFails
    BY <2>2 DEF AssertionFails, ClockInv, NotPast, HeapOrdered, PushOrder, BeforeRun, RunAhead,
                NothingDue, Pending
  <2>3. QED BY <2>1, <2>2, ClockEnqueue
<1>13. ASSUME NEW t \in Times, RunAt(t) \/ Run(t)
       PROVE  NotPast' /\ HeapOrdered' /\ PushOrder' /\ BeforeRun' /\ RunAhead' /\ NothingDue'
  <2>1. PICK u \in Times : RunAt(u)
    BY <1>1, <1>13, TimesFacts DEF TypeOK, Run
  <2>2. currentTime < u
    BY <2>1 DEF RunAt
  <2>3. QED BY <1>1, <2>1, <2>2 DEF RunAt, EnterInitialize, ClockInv, NotPast, HeapOrdered,
                                    PushOrder, BeforeRun, RunAhead, NothingDue, Pending
<1>14. CASE AddModule \/ \E n \in 0..modules : RemoveModule(n)
  BY <1>14 DEF AddModule, RemoveModule, ClockInv, NotPast, HeapOrdered, PushOrder, BeforeRun,
               RunAhead, NothingDue, Pending
<1>15. CASE Initialize
  BY <1>15 DEF Initialize, EnterInitialize, ClockInv, NotPast, HeapOrdered, PushOrder, BeforeRun,
               RunAhead, NothingDue, Pending
<1>16. CASE UNCHANGED vars
  BY <1>16 DEF vars, ClockInv, NotPast, HeapOrdered, PushOrder, BeforeRun, RunAhead, NothingDue,
               Pending
<1>17. QED
  BY <1>2, <1>3, <1>4, <1>5, <1>6, <1>7, <1>8, <1>9, <1>10, <1>11, <1>12, <1>13, <1>14, <1>15, <1>16
  DEF Next, Library, Callers

(* The two invariants together, for the theorems below.                    *)
LEMMA ClockAlways ==
    ASSUME Client = "ordered"
    PROVE  Spec => [](ClockInv /\ EventsHeld)
<1>1. Spec => []ClockInv
  BY ClockInit, ClockStep, PTL DEF Spec
<1>2. Spec => []EventsHeld
  BY EventsAlways
<1>3. QED BY <1>1, <1>2, PTL

-----------------------------------------------------------------------------
(* The scheduler implements EventSchedule. *)

(* An event called is the least of those that wait. *)
LEMMA CallFires ==
    ASSUME ClockInv, EventsInv, CallTask
    PROVE  LET e == scheduledTasks[currentTime][pos + 1]
           IN  /\ e \in 1..Len(target) /\ ES!Fire(e)
               /\ target[e] = currentTime /\ executed' = Append(executed, e)
<1> DEFINE e == scheduledTasks[currentTime][pos + 1]
<1>1. /\ pc = "tick" /\ pos + 1 \in 1..Len(scheduledTasks[currentTime])
      /\ executed' = Append(executed, e) /\ UNCHANGED <<currentTime, target>>
      /\ pos \in Nat /\ currentTime \in Times /\ currentTime \in Nat
      /\ \A t \in Times : Len(scheduledTasks[t]) \in Nat
  BY EventTypes, TimesFacts DEF CallTask, members, ClockInv, OnceInv, TickInv
<1>2. Passed[currentTime] = pos /\ \A t \in Times : Passed[t] \in Nat
  BY <1>1 DEF Passed
<1>3. e \in ES!Waiting /\ target[e] = currentTime /\ e \in 1..Len(target)
  BY <1>1, <1>2 DEF EventsInv, AheadWaits, Filed, Issued
<1>4. ASSUME NEW f \in ES!Waiting
      PROVE  currentTime < target[f] \/ e <= f
  <2>1. target[f] \in Times /\ target[f] \in Nat /\ e \in Nat /\ f \in Nat
    <3>1. TypeOK /\ f \in 1..Len(target)
      BY DEF ES!Waiting, ClockInv, OnceInv, TickInv
    <3>2. Len(target) \in Nat /\ target[f] \in Times
      BY <3>1, EventTypes DEF Issued
    <3>3. e \in Nat
      BY <1>3, <3>2
    <3>4. f \in Nat
      BY <3>1, <3>2
    <3>5. target[f] \in Nat
      BY <3>2, TimesFacts
    <3>6. QED BY <3>2, <3>3, <3>4, <3>5
  <2>2. PICK i \in 1..Len(scheduledTasks[target[f]]) :
                 Passed[target[f]] < i /\ scheduledTasks[target[f]][i] = f
    BY DEF EventsInv, WaitsAhead
  <2>3. Pending(target[f])
    <3>1. Len(scheduledTasks[target[f]]) # 0
      BY <1>1, <2>1, <2>2
    <3>2. QED BY <3>1 DEF Pending
  <2>4. currentTime <= target[f]
    BY <2>1, <2>3 DEF ClockInv, NotPast
  <2>5. CASE target[f] = currentTime
    <3>1. i \in Nat /\ pos + 1 <= i
      BY <1>1, <1>2, <2>2, <2>5
    <3>2. i = pos + 1 \/ e < f
      BY <1>1, <2>2, <2>5, <3>1 DEF EventsInv, Rising
    <3>3. i = pos + 1 => e = f
      BY <2>2, <2>5
    <3>4. QED BY <2>1, <3>2, <3>3
  <2>6. QED BY <1>1, <2>1, <2>4, <2>5
<1> HIDE DEF e
<1>5. ES!Fire(e)
  BY <1>1, <1>3, <1>4 DEF ES!Fire
<1>6. QED BY <1>1, <1>3, <1>5 DEF e

(* The clock moves up to a time that no waiting event precedes. *)
LEMMA ClockAdvances ==
    ASSUME ClockInv, EventsInv, NextTick \/ FinalTimeReached
    PROVE  \E t \in Times : ES!Advance(t)
<1>1. /\ state # "INITIALIZATION" /\ TypeOK /\ ~Empty(nextTickHeap) /\ pc = "loop"
      /\ UNCHANGED <<target, executed>>
  BY DEF NextTick, FinalTimeReached, Return, ClockInv, OnceInv, TickInv, Initialized
<1>2. /\ Peek(nextTickHeap) \in Times /\ Pending(Peek(nextTickHeap))
      /\ \A t \in Times : Pending(t) => Peek(nextTickHeap) <= t
  BY <1>1, TopFacts
<1>3. ASSUME NEW e \in ES!Waiting
      PROVE  target[e] \in Times /\ Peek(nextTickHeap) <= target[e]
  <2>1. target[e] \in Times
    BY <1>1, EventTypes DEF ES!Waiting, Issued
  <2>2. PICK i \in 1..Len(scheduledTasks[target[e]]) : TRUE
    BY DEF EventsInv, WaitsAhead
  <2>3. Len(scheduledTasks[target[e]]) # 0
    BY <1>1, <2>1, <2>2, EventTypes
  <2>4. Pending(target[e])
    BY <2>3 DEF Pending
  <2>5. QED BY <1>2, <2>1, <2>4
<1>4. CASE NextTick
  <2>1. currentTime' = Peek(nextTickHeap) /\ currentTime <= Peek(nextTickHeap)
    BY <1>2, <1>4 DEF NextTick, ClockInv, NotPast
  <2>2. QED BY <1>1, <1>2, <1>3, <2>1 DEF ES!Advance
<1>5. CASE FinalTimeReached
  <2>1. /\ currentTime' = finalTime /\ currentTime <= finalTime /\ finalTime < Peek(nextTickHeap)
        /\ finalTime \in Times
    BY <1>1, <1>5 DEF FinalTimeReached, TypeOK, ClockInv, RunAhead
  <2>2. \A e \in ES!Waiting : finalTime <= target[e]
    <3>1. Peek(nextTickHeap) \in Nat /\ finalTime \in Nat
      BY <1>2, <2>1, TimesFacts
    <3>2. SUFFICES ASSUME NEW e \in ES!Waiting PROVE finalTime <= target[e]
      OBVIOUS
    <3>3. target[e] \in Nat /\ Peek(nextTickHeap) <= target[e]
      BY <1>3, TimesFacts
    <3>4. QED BY <2>1, <3>1, <3>3
  <2>3. QED BY <1>1, <2>1, <2>2 DEF ES!Advance
<1>6. QED BY <1>4, <1>5

(* Every step is one of EventSchedule, or leaves its variables alone. *)
LEMMA ScheduleStep ==
    ASSUME Client = "ordered"
    PROVE  ClockInv /\ EventsHeld /\ [Next]_vars => [ES!Next]_<<currentTime, target, executed>>
<1> SUFFICES ASSUME ClockInv, EventsHeld, [Next]_vars
             PROVE  ES!Next \/ UNCHANGED <<currentTime, target, executed>>
  OBVIOUS
<1> USE DEF members, control
<1>1. CASE NextTick \/ FinalTimeReached
  BY <1>1, ClockAdvances DEF ES!Next, EventsHeld, NextTick, FinalTimeReached
<1>2. CASE CallTask
  BY <1>2, CallFires DEF ES!Next, EventsHeld, CallTask
<1>3. CASE (\E ok \in BOOLEAN : InitializeModule(ok)) \/ ModulesDone \/ PushTick \/ LeaveInitialize
           \/ Start \/ QueueDrained \/ EndTick
  BY <1>3 DEF InitializeModule, ModulesDone, PushTick, LeaveInitialize, Start, QueueDrained, Return,
              EndTick
<1>4. ASSUME NEW t \in Times, ScheduleAt(t) \/ ScheduleIn(t)
      PROVE  ES!Next \/ UNCHANGED <<currentTime, target, executed>>
  <2>1. PICK u \in Times : ScheduleAt(u)
    BY <1>4, TimesFacts DEF ScheduleIn, ClockInv, OnceInv, TickInv, TypeOK
  <2>2. CASE AssertionFails
    BY <2>2 DEF AssertionFails
  <2>3. CASE ~AssertionFails
    <3>1. ES!Submit(u)
      BY <2>1, <2>3, ScheduledAhead DEF Enqueue, File, WithNewest, ES!Submit
    <3>2. QED BY <3>1 DEF ES!Next
  <2>4. QED BY <2>2, <2>3
<1>5. CASE \E t \in Times : RunAt(t) \/ Run(t)
  BY <1>5 DEF RunAt, Run
<1>6. CASE AddModule \/ (\E n \in 0..modules : RemoveModule(n)) \/ Initialize
  BY <1>6 DEF AddModule, RemoveModule, Initialize
<1>7. CASE UNCHANGED vars
  BY <1>7 DEF vars
<1>8. QED BY <1>1, <1>2, <1>3, <1>4, <1>5, <1>6, <1>7 DEF Next, Library, Callers

(* run_at(), initialize() and schedule_at() together keep the promise of a *)
(* scheduler: the clock stops at no time past a waiting event, and calls   *)
(* the events at the time they are due, in the order of submission.        *)
THEOREM ContextImplementsEventSchedule ==
    ASSUME Client = "ordered"
    PROVE  Spec => ImplementsEventSchedule
<1>1. Init => ES!Init
  BY DEF Init, ES!Init
<1>2. QED BY <1>1, ClockAlways, ScheduleStep, PTL DEF Spec, ImplementsEventSchedule, ES!Spec

(* The clock never goes back; with other callers it may, see               *)
(* finding_clock_back.cfg.                                                 *)
THEOREM ClockNeverGoesBack ==
    ASSUME Client = "ordered"
    PROVE  Spec => TimeNeverGoesBack
<1>1. ClockInv /\ EventsHeld /\ [Next]_vars => [currentTime <= currentTime']_vars
  <2>1. SUFFICES ASSUME ClockInv, EventsHeld, [Next]_vars PROVE currentTime <= currentTime'
    OBVIOUS
  <2>2. currentTime \in Nat
    BY <2>1, TimesFacts DEF ClockInv, OnceInv, TickInv, TypeOK
  <2>3. ES!Next \/ UNCHANGED <<currentTime, target, executed>>
    BY <2>1, ScheduleStep
  <2>4. QED BY <2>2, <2>3 DEF ES!Next, ES!Submit, ES!Advance, ES!Fire
<1>2. QED BY <1>1, ClockAlways, PTL DEF Spec, TimeNeverGoesBack

(* Between two runs nothing is pending up to the clock. *)
LEMMA NoneOverdueHolds ==
    ClockInv /\ EventsHeld => NoneOverdue
<1>1. SUFFICES ASSUME ClockInv, EventsInv, pc = "idle", returned \in {"EVENTS_IN_QUEUE", "STOPPED"},
                      NEW e \in Issued, target[e] <= currentTime
               PROVE  e \in Called
  BY DEF NoneOverdue, EventsHeld
<1>2. /\ target[e] \in Times /\ target[e] \in Nat /\ currentTime \in Nat
      /\ \A t \in Times : Len(scheduledTasks[t]) \in Nat
  <2>1. TypeOK
    BY <1>1 DEF ClockInv, OnceInv, TickInv
  <2>2. QED BY <2>1, EventTypes, TimesFacts
<1>3. ~Pending(target[e])
  BY <1>1, <1>2 DEF ClockInv, NothingDue
<1>4. ~ \E i \in 1..Len(scheduledTasks[target[e]]) : TRUE
  <2>1. Len(scheduledTasks[target[e]]) = 0
    BY <1>3 DEF Pending
  <2>2. QED BY <2>1
<1>5. e \notin ES!Waiting
  BY <1>1, <1>4 DEF EventsInv, WaitsAhead
<1>6. QED BY <1>5 DEF ES!Waiting, Issued, Called

(* When run_at() has returned EVENTS_IN_QUEUE or STOPPED, every event due  *)
(* by then has been called.                                                *)
THEOREM NoneOverdueAlways ==
    ASSUME Client = "ordered"
    PROVE  Spec => []NoneOverdue
  BY NoneOverdueHolds, ClockAlways, PTL

-----------------------------------------------------------------------------
(* An abstract schedule fires its events in order, whatever the events are *)
(* and however many there are.                                             *)

FiredTypeInv ==
    /\ currentTime \in Nat /\ target \in Seq(Times) /\ executed \in Seq(1..Len(target))

(* The clock lies between what was fired and what waits. *)
ClockBetween ==
    /\ \A i \in 1..Len(executed) : target[executed[i]] <= currentTime
    /\ \A e \in ES!Waiting : currentTime <= target[e]

(* What was fired comes before all that waits. *)
FiredFirst ==
    \A i \in 1..Len(executed), e \in ES!Waiting :
        \/ target[executed[i]] < target[e]
        \/ target[executed[i]] = target[e] /\ executed[i] < e

OrderInv == FiredTypeInv /\ ClockBetween /\ FiredFirst /\ ES!InOrder

(* OrderInv holds before anything is submitted.                            *)
LEMMA OrderInit == ES!Init => OrderInv
<1> SUFFICES ASSUME ES!Init PROVE OrderInv
  OBVIOUS
<1>1. target = <<>> /\ executed = <<>> /\ currentTime = 0
  BY DEF ES!Init
<1>2. Len(target) = 0 /\ Len(executed) = 0
  BY <1>1
<1>3. FiredTypeInv
  BY <1>1 DEF FiredTypeInv
<1>4. QED BY <1>2, <1>3 DEF OrderInv, ClockBetween, FiredFirst, ES!InOrder, ES!Waiting

(* The types of the history, in the form the steps below use them.         *)
LEMMA FiredTypes ==
    ASSUME Times \subseteq Nat, FiredTypeInv
    PROVE  /\ Len(target) \in Nat /\ Len(executed) \in Nat
           /\ \A e \in 1..Len(target) : target[e] \in Nat
           /\ \A i \in 1..Len(executed) : executed[i] \in 1..Len(target)
<1>1. target \in Seq(Times) /\ executed \in Seq(1..Len(target))
  BY DEF FiredTypeInv
<1>2. \A e \in 1..Len(target) : target[e] \in Times
  BY <1>1, ElementOfSeq
<1>3. \A i \in 1..Len(executed) : executed[i] \in 1..Len(target)
  <2>1. SUFFICES ASSUME NEW i \in 1..Len(executed) PROVE executed[i] \in 1..Len(target)
    OBVIOUS
  <2> DEFINE S == 1..Len(target)
  <2>2. executed \in Seq(S)
    BY <1>1
  <2> HIDE DEF S
  <2>3. executed[i] \in S
    BY <2>2, ElementOfSeq
  <2>4. QED BY <2>3 DEF S
<1>4. QED BY <1>1, <1>2, <1>3, LenProperties

(* A submission at or after the clock comes after all that was fired.      *)
LEMMA SubmitKeeps ==
    ASSUME Times \subseteq Nat, OrderInv, NEW t \in Times, ES!Submit(t)
    PROVE  OrderInv'
<1> DEFINE n == Len(target) + 1
<1>1. /\ currentTime \in Nat /\ target \in Seq(Times) /\ executed \in Seq(1..Len(target))
      /\ currentTime <= t /\ target' = Append(target, t) /\ currentTime' = currentTime /\ executed' = executed
      /\ Len(target) \in Nat /\ Len(executed) \in Nat
  BY LenProperties DEF OrderInv, FiredTypeInv, ES!Submit
<1>2. /\ target' \in Seq(Times) /\ Len(target') = n /\ target'[n] = t
      /\ \A e \in 1..Len(target) : target'[e] = target[e]
  BY <1>1, AppendProperties
<1>3. \A i \in 1..Len(executed) : executed[i] \in 1..Len(target) /\ target[executed[i]] \in Nat
  BY FiredTypes DEF OrderInv
<1>4. ES!Waiting' \subseteq ES!Waiting \cup {n}
  BY <1>1, <1>2 DEF ES!Waiting
<1>5. FiredTypeInv'
  <2>1. executed \in Seq(1..n)
    BY <1>1, SeqMonotonic
  <2>2. QED BY <1>1, <1>2, <2>1 DEF FiredTypeInv
<1>6. ClockBetween'
  <2>1. \A e \in ES!Waiting : e \in 1..Len(target) /\ currentTime <= target[e]
    BY DEF OrderInv, ClockBetween, ES!Waiting
  <2>2. QED BY <1>1, <1>2, <1>3, <1>4, <2>1 DEF OrderInv, ClockBetween
<1>7. FiredFirst'
  <2>1. ASSUME NEW i \in 1..Len(executed), NEW e \in ES!Waiting
        PROVE  target'[executed[i]] < target'[e] \/ (target'[executed[i]] = target'[e] /\ executed[i] < e)
    BY <1>2, <1>3, <2>1 DEF OrderInv, FiredFirst, ES!Waiting
  <2>2. ASSUME NEW i \in 1..Len(executed)
        PROVE  target'[executed[i]] < t \/ (target'[executed[i]] = t /\ executed[i] < n)
    <3>1. target[executed[i]] <= currentTime
      BY DEF OrderInv, ClockBetween
    <3>2. t \in Nat
      OBVIOUS
    <3>3. QED BY <1>1, <1>2, <1>3, <3>1, <3>2
  <2>3. SUFFICES ASSUME NEW i \in 1..Len(executed'), NEW e \in ES!Waiting'
                 PROVE  target'[executed'[i]] < target'[e] \/ (target'[executed'[i]] = target'[e] /\ executed'[i] < e)
    BY DEF FiredFirst
  <2>4. i \in 1..Len(executed) /\ executed'[i] = executed[i]
    BY <1>1
  <2>5. QED BY <1>2, <1>4, <2>1, <2>2, <2>4
<1>8. ES!InOrder'
  BY <1>1, <1>2, <1>3 DEF OrderInv, ES!InOrder
<1>9. QED BY <1>5, <1>6, <1>7, <1>8 DEF OrderInv

(* The clock moves up to no time past a waiting event.                     *)
LEMMA AdvanceKeeps ==
    ASSUME Times \subseteq Nat, OrderInv, NEW t \in Times, ES!Advance(t)
    PROVE  OrderInv'
<1>1. /\ currentTime \in Nat /\ t \in Nat /\ currentTime <= t /\ currentTime' = t /\ target' = target /\ executed' = executed
      /\ \A e \in ES!Waiting : t <= target[e]
  BY DEF OrderInv, FiredTypeInv, ES!Advance
<1>2. ES!Waiting' = ES!Waiting
  BY <1>1 DEF ES!Waiting
<1>3. \A i \in 1..Len(executed) : target[executed[i]] \in Nat /\ target[executed[i]] <= currentTime
  BY FiredTypes DEF OrderInv, ClockBetween
<1>4. ClockBetween'
  BY <1>1, <1>2, <1>3 DEF ClockBetween
<1>5. QED BY <1>1, <1>2, <1>4 DEF OrderInv, FiredTypeInv, FiredFirst, ES!InOrder

(* A least waiting event may be the next to fire.                          *)
LEMMA FireKeeps ==
    ASSUME Times \subseteq Nat, OrderInv, NEW e \in 1..Len(target), ES!Fire(e)
    PROVE  OrderInv'
<1> DEFINE n == Len(executed) + 1
<1>1. /\ currentTime \in Nat /\ target \in Seq(Times) /\ executed \in Seq(1..Len(target))
      /\ e \in ES!Waiting /\ target[e] = currentTime /\ executed' = Append(executed, e)
      /\ currentTime' = currentTime /\ target' = target
      /\ Len(target) \in Nat /\ Len(executed) \in Nat
  BY LenProperties DEF OrderInv, FiredTypeInv, ES!Fire
<1>2. /\ executed' \in Seq(1..Len(target)) /\ Len(executed') = n /\ executed'[n] = e
      /\ \A i \in 1..Len(executed) : executed'[i] = executed[i]
  BY <1>1, AppendProperties
<1>3. ES!Waiting' = ES!Waiting \ {e}
  <2>1. \A f : (\A i \in 1..Len(executed') : executed'[i] # f)
                 <=> (\A i \in 1..Len(executed) : executed[i] # f) /\ f # e
    BY <1>1, <1>2
  <2>2. QED BY <1>1, <2>1 DEF ES!Waiting
<1>4. /\ \A i \in 1..Len(executed) : executed[i] \in 1..Len(target) /\ target[executed[i]] \in Nat
      /\ \A f \in ES!Waiting : f \in 1..Len(target) /\ target[f] \in Nat
  BY FiredTypes DEF OrderInv, ES!Waiting
<1>5. FiredTypeInv'
  BY <1>1, <1>2 DEF FiredTypeInv
<1>6. ClockBetween'
  BY <1>1, <1>2, <1>3 DEF OrderInv, ClockBetween
<1>7. FiredFirst'
  <2>1. ASSUME NEW f \in ES!Waiting, f # e PROVE target[e] < target[f] \/ (target[e] = target[f] /\ e < f)
    <3>1. (currentTime < target[f] \/ e <= f) /\ currentTime <= target[f]
      BY DEF ES!Fire, OrderInv, ClockBetween
    <3>2. QED BY <1>1, <1>4, <2>1, <3>1
  <2>2. SUFFICES ASSUME NEW i \in 1..n, NEW f \in ES!Waiting, f # e
                 PROVE  \/ target[executed'[i]] < target[f]
                        \/ target[executed'[i]] = target[f] /\ executed'[i] < f
    BY <1>1, <1>2, <1>3 DEF FiredFirst
  <2>3. CASE i = n
    BY <1>1, <1>2, <2>1, <2>2, <2>3
  <2>4. CASE i # n
    BY <1>1, <1>2, <2>2, <2>4 DEF OrderInv, FiredFirst
  <2>5. QED BY <2>3, <2>4
<1>8. ES!InOrder'
  <2>1. SUFFICES ASSUME NEW i \in 1..Len(executed'), NEW j \in 1..Len(executed'), i < j
                 PROVE  \/ target'[executed'[i]] < target'[executed'[j]]
                        \/ target'[executed'[i]] = target'[executed'[j]] /\ executed'[i] < executed'[j]
    BY DEF ES!InOrder
  <2>2. i \in 1..Len(executed) /\ executed'[i] = executed[i]
    BY <1>1, <1>2, <2>1
  <2>3. CASE j = n
    BY <1>1, <1>2, <2>2, <2>3 DEF OrderInv, FiredFirst
  <2>4. CASE j # n
    <3>1. j \in 1..Len(executed) /\ executed'[j] = executed[j]
      BY <1>1, <1>2, <2>4
    <3>2. QED BY <1>1, <2>1, <2>2, <3>1 DEF OrderInv, ES!InOrder
  <2>5. QED BY <2>3, <2>4
<1>9. QED BY <1>5, <1>6, <1>7, <1>8 DEF OrderInv

(* Every step of the schedule keeps OrderInv.                              *)
LEMMA OrderStep ==
    ASSUME Times \subseteq Nat
    PROVE  OrderInv /\ [ES!Next]_<<currentTime, target, executed>> => OrderInv'
<1> SUFFICES ASSUME OrderInv, [ES!Next]_<<currentTime, target, executed>> PROVE OrderInv'
  OBVIOUS
<1>1. ASSUME NEW t \in Times, ES!Submit(t) PROVE OrderInv'
  BY <1>1, SubmitKeeps
<1>2. ASSUME NEW t \in Times, ES!Advance(t) PROVE OrderInv'
  BY <1>2, AdvanceKeeps
<1>3. ASSUME NEW e \in 1..Len(target), ES!Fire(e) PROVE OrderInv'
  BY <1>3, FireKeeps
<1>4. CASE UNCHANGED <<currentTime, target, executed>>
  BY <1>4 DEF OrderInv, FiredTypeInv, ClockBetween, FiredFirst, ES!InOrder, ES!Waiting
<1>5. QED BY <1>1, <1>2, <1>3, <1>4 DEF ES!Next

(* A clock that never passes an event that is due, and first-come          *)
(* first-served within a tick, are enough for the events to fire in order. *)
THEOREM FiresInOrder ==
    ES!Spec => []ES!InOrder
<1>1. OrderInv => ES!InOrder
  BY DEF OrderInv
<1>2. QED BY <1>1, OrderInit, OrderStep, TimesFacts, PTL DEF ES!Spec

(* The loop of run_at() is within the vector of its tick.                  *)
WithinTick == pc = "tick" => pos <= Len(scheduledTasks[currentTime])

LEMMA WithinTickStep ==
    ASSUME Client # "any"
    PROVE  TickInv /\ WithinTick /\ [Next]_vars => WithinTick'
<1> SUFFICES ASSUME TickInv, TypeOK, WithinTick, [Next]_vars, pc' = "tick" PROVE pos' <= Len(scheduledTasks'[currentTime'])
  BY DEF WithinTick, TickInv
<1> USE DEF members, control
<1>1. pos \in Nat /\ \A t \in Times : Len(scheduledTasks[t]) \in Nat
  BY EventTypes
<1>2. ASSUME pc = "tick", UNCHANGED <<pos, scheduledTasks, currentTime>> PROVE pos' <= Len(scheduledTasks'[currentTime'])
  BY <1>2 DEF WithinTick
<1>3. CASE Library
  <2>1. CASE NextTick
    <3>1. pos' = 0 /\ UNCHANGED scheduledTasks /\ currentTime' = Peek(nextTickHeap)
      BY <2>1 DEF NextTick
    <3>2. Len(scheduledTasks[currentTime']) \in Nat
      <4>1. Peek(nextTickHeap) \in Times
        BY <2>1, PeekFacts DEF NextTick, TickInv, HeapSound
      <4>2. QED BY <1>1, <3>1, <4>1
    <3>3. QED BY <3>1, <3>2
  <2>2. CASE CallTask
    BY <1>1, <2>2 DEF CallTask, TypeOK
  <2>3. QED
    BY <1>3, <2>1, <2>2 DEF Library, InitializeModule, ModulesDone, PushTick, LeaveInitialize, Start,
                            QueueDrained, FinalTimeReached, Return, EndTick
<1>4. ASSUME NEW t \in Times, ScheduleAt(t) PROVE pos' <= Len(scheduledTasks'[currentTime'])
  <2>1. ~AssertionFails
    BY DEF AssertionFails
  <2>2. /\ ~(pc = "tick" /\ t = currentTime) /\ UNCHANGED <<pc, pos, currentTime>>
        /\ scheduledTasks' = [scheduledTasks EXCEPT ![t] = WithNewest(t)]
    BY <1>4, <2>1, ScheduleOutcome DEF Enqueue, File, Iterating
  <2>3. scheduledTasks'[currentTime] = scheduledTasks[currentTime]
    BY <2>2 DEF TypeOK
  <2>4. QED BY <2>2, <2>3 DEF WithinTick
<1>5. CASE Callers
  <2>1. ASSUME NEW t \in Times, ScheduleIn(t) PROVE pos' <= Len(scheduledTasks'[currentTime'])
    BY <1>4, <2>1, TimesFacts DEF ScheduleIn, TypeOK
  <2>2. QED
    BY <1>4, <1>5, <2>1 DEF Callers, RunAt, Run, EnterInitialize, AddModule, RemoveModule, Initialize
<1>6. QED BY <1>2, <1>3, <1>5 DEF Next, vars

(* The invariants of the scheduler and of the schedule together.           *)
SchedulerInv == ClockInv /\ EventsHeld /\ OrderInv /\ WithinTick

LEMMA SchedulerInit == Init => SchedulerInv
<1>1. Init => EventsHeld
  BY EventsInit DEF EventsHeld
<1>2. Init => OrderInv
  <2>1. Init => ES!Init
    BY DEF Init, ES!Init
  <2>2. QED BY <2>1, OrderInit
<1>3. Init => WithinTick
  BY DEF Init, WithinTick
<1>4. QED BY <1>1, <1>2, <1>3, ClockInit DEF SchedulerInv

LEMMA SchedulerStep ==
    ASSUME Client = "ordered"
    PROVE  SchedulerInv /\ [Next]_vars => SchedulerInv'
<1>1. ClockInv => TickInv /\ TypeOK
  BY DEF ClockInv, OnceInv, TickInv
<1>2. QED BY <1>1, TimesFacts, ClockStep, EventsStep, ScheduleStep, OrderStep, WithinTickStep DEF SchedulerInv

(* Events are called in the order of their ticks, those of one tick in the *)
(* order of the calls that scheduled them, and none twice.                 *)
THEOREM InOrderAlways ==
    ASSUME Client = "ordered"
    PROVE  Spec => []InOrder
<1>1. SchedulerInv => InOrder
  BY DEF SchedulerInv, OrderInv, InOrder
<1>2. QED BY <1>1, SchedulerInit, SchedulerStep, PTL DEF Spec

-----------------------------------------------------------------------------
(* What is left of a run when a step of the loop of run_at() is taken. *)

(* Only stops after the clock, or at it, are left. *)
LEMMA StopsFacts ==
    ASSUME TypeOK
    PROVE  /\ currentTime \in Nat /\ Times \subseteq Nat
           /\ StopsLeft \subseteq Times /\ \A t \in StopsLeft : currentTime <= t
  BY TimesFacts DEF TypeOK, StopsLeft

(* Going to the top of the heap, the clock leaves none behind that it has  *)
(* not been at.                                                            *)
LEMMA NextTickCloser ==
    ASSUME ClockInv, NextTick
    PROVE  Closer
<1>1. /\ TypeOK /\ state # "INITIALIZATION" /\ ~Empty(nextTickHeap) /\ pc = "loop" /\ pc' = "tick"
      /\ currentTime' = Peek(nextTickHeap) /\ scheduledTasks' = scheduledTasks
  BY DEF NextTick, ClockInv, OnceInv, TickInv, Initialized
<1>2. Peek(nextTickHeap) \in Times /\ Pending(Peek(nextTickHeap)) /\ currentTime <= Peek(nextTickHeap)
  BY <1>1, TopFacts DEF ClockInv, NotPast
<1>3. StopsLeft' \subseteq StopsLeft
  <2>1. SUFFICES ASSUME NEW t \in Times,
                        Peek(nextTickHeap) < t \/ (t = Peek(nextTickHeap) /\ Pending(t)')
                 PROVE  currentTime < t \/ (t = currentTime /\ Pending(t))
    BY <1>1 DEF StopsLeft
  <2>2. Pending(t)' => Pending(t)
    BY <1>1 DEF Pending
  <2>3. currentTime \in Nat /\ t \in Nat /\ Peek(nextTickHeap) \in Nat
    BY <1>1, <1>2, StopsFacts
  <2>4. QED BY <1>2, <2>1, <2>2, <2>3
<1>4. QED BY <1>1, <1>3 DEF Closer, Phase

(* A tick that has been walked is left for good.                           *)
LEMMA EndTickCloser ==
    ASSUME ClockInv, EndTick
    PROVE  Closer
<1>1. /\ TypeOK /\ pc = "tick" /\ currentTime' = currentTime /\ currentTime \in Times
      /\ scheduledTasks' = [scheduledTasks EXCEPT ![currentTime] = <<>>]
  BY DEF EndTick, ClockInv, OnceInv, TickInv, TypeOK
<1>2. Pending(currentTime)
  <2>1. state # "INITIALIZATION" /\ ~Empty(nextTickHeap) /\ Peek(nextTickHeap) = currentTime
    BY <1>1 DEF ClockInv, OnceInv, TickInv, Initialized, WalksTop, Empty
  <2>2. QED BY <2>1, TopFacts
<1>3. currentTime \in StopsLeft
  BY <1>1, <1>2 DEF StopsLeft
<1>4. currentTime \notin StopsLeft'
  <2>1. ~Pending(currentTime)'
    BY <1>1 DEF Pending, TypeOK
  <2>2. QED BY <1>1, <2>1, StopsFacts DEF StopsLeft, Pending
<1>5. StopsLeft' \subseteq StopsLeft
  <2>1. \A t \in Times : Pending(t)' => Pending(t)
    BY <1>1 DEF Pending, TypeOK
  <2>2. QED BY <1>1, <2>1 DEF StopsLeft
<1>6. QED BY <1>3, <1>4, <1>5 DEF Closer

(* An event that has been called is left out of what its tick has left.    *)
LEMMA CallTaskCloser ==
    ASSUME TypeOK, CallTask
    PROVE  Closer
<1>1. /\ pc = "tick" /\ pc' = "tick" /\ pos < Len(scheduledTasks[currentTime]) /\ pos' = pos + 1
      /\ currentTime' = currentTime /\ scheduledTasks' = scheduledTasks
  BY DEF CallTask, members
<1>2. pos \in Nat /\ Len(scheduledTasks[currentTime]) \in Nat
  BY EventTypes
<1>3. StopsLeft' = StopsLeft /\ Phase' = Phase
  BY <1>1 DEF StopsLeft, Pending, Phase
<1>4. /\ TasksLeft = Len(scheduledTasks[currentTime]) - pos
      /\ TasksLeft' = Len(scheduledTasks[currentTime]) - (pos + 1)
  BY <1>1 DEF TasksLeft
<1>5. 0 <= TasksLeft' /\ TasksLeft' < TasksLeft
  BY <1>1, <1>2, <1>4
<1>6. QED BY <1>3, <1>5 DEF Closer

(* An event called back schedules for a tick that is ahead of the clock    *)
(* and so among the stops already.                                         *)
LEMMA ScheduleAddsNothing ==
    ASSUME Client = "ordered", ClockInv, NEW t \in Times, ScheduleAt(t), Looping, Looping'
    PROVE  target' # target /\ UNCHANGED <<StopsLeft, Phase, TasksLeft>>
<1>1. ~AssertionFails
  BY DEF AssertionFails, Looping
<1>2. /\ Enqueue(t) /\ TypeOK
      /\ state # "INITIALIZATION" => currentTime < t
  BY <1>1, ScheduledAhead DEF ClockInv, OnceInv, TickInv
<1>3. state # "INITIALIZATION"
  BY DEF Looping, ClockInv, OnceInv, TickInv, Initialized
<1>4. /\ scheduledTasks' = [scheduledTasks EXCEPT ![t] = Append(@, Len(target) + 1)]
      /\ target' = Append(target, t) /\ UNCHANGED <<currentTime, pc, pos>>
  BY <1>2 DEF Enqueue, File, WithNewest, control
<1>5. currentTime \in Times /\ currentTime \in Nat /\ t \in Nat /\ currentTime < t
  BY <1>2, <1>3, StopsFacts DEF TypeOK
<1>6. scheduledTasks'[currentTime] = scheduledTasks[currentTime]
  BY <1>2, <1>4, <1>5 DEF TypeOK
<1>7. StopsLeft' = StopsLeft
  BY <1>4, <1>6 DEF StopsLeft, Pending
<1>8. Phase' = Phase /\ TasksLeft' = TasksLeft
  <2>1. pos \in Nat /\ Len(scheduledTasks[currentTime]) \in Nat
    BY <1>2, EventTypes
  <2>2. Len(scheduledTasks'[currentTime']) = Len(scheduledTasks[currentTime])
    BY <1>4, <1>6
  <2>3. pc' = pc /\ pos' = pos
    BY <1>4
  <2>4. Phase' = Phase
    BY <2>3 DEF Phase
  <2>5. TasksLeft' = TasksLeft
    BY <2>1, <2>2, <2>3 DEF TasksLeft
  <2>6. QED BY <2>4, <2>5
<1>9. target' # target
  <2>1. Len(target') = Len(target) + 1 /\ Len(target) \in Nat
    BY <1>2, <1>4, EventTypes, AppendProperties
  <2>2. QED BY <2>1
<1>10. QED BY <1>7, <1>8, <1>9

(* The loop of run_at() ends, as far as safety can say it: what is left of *)
(* a run is a finite set of ticks, a phase and a number of events, and     *)
(* each step of the loop lowers it, whatever the events schedule.          *)
THEOREM RunProgressesAlways ==
    ASSUME Client = "ordered"
    PROVE  Spec => RunProgresses
<1> DEFINE Progress ==
      Looping /\ Looping' =>
        IF target' = target THEN Closer ELSE UNCHANGED <<StopsLeft, Phase, TasksLeft>>
<1>1. ClockInv /\ [Next]_vars => [Progress]_vars
  <2> SUFFICES ASSUME ClockInv, Next, Looping, Looping'
               PROVE  IF target' = target THEN Closer ELSE UNCHANGED <<StopsLeft, Phase, TasksLeft>>
    OBVIOUS
  <2> USE DEF members, control
  <2>1. TypeOK
    BY DEF ClockInv, OnceInv, TickInv
  <2>2. CASE NextTick
    BY <2>2, NextTickCloser DEF NextTick
  <2>3. CASE EndTick
    BY <2>3, EndTickCloser DEF EndTick
  <2>4. CASE CallTask
    BY <2>1, <2>4, CallTaskCloser DEF CallTask
  <2>5. CASE Start
    <3>1. target' = target /\ pc = "start" /\ pc' = "loop" /\ UNCHANGED <<currentTime, scheduledTasks>>
      BY <2>5 DEF Start, Looping
    <3>2. StopsLeft' = StopsLeft /\ Phase' < Phase
      BY <3>1 DEF StopsLeft, Pending, Phase
    <3>3. QED BY <3>1, <3>2 DEF Closer
  <2>6. CASE (\E ok \in BOOLEAN : InitializeModule(ok)) \/ ModulesDone \/ PushTick \/ LeaveInitialize
             \/ QueueDrained \/ FinalTimeReached
    BY <2>6 DEF InitializeModule, ModulesDone, PushTick, LeaveInitialize, QueueDrained,
                FinalTimeReached, Return, Looping
  <2>7. ASSUME NEW t \in Times, ScheduleAt(t) \/ ScheduleIn(t)
        PROVE  target' # target /\ UNCHANGED <<StopsLeft, Phase, TasksLeft>>
    <3>1. PICK u \in Times : ScheduleAt(u)
      BY <2>1, <2>7, TimesFacts DEF ScheduleIn, TypeOK
    <3>2. QED BY <3>1, ScheduleAddsNothing
  <2>8. CASE (\E t \in Times : RunAt(t) \/ Run(t)) \/ AddModule \/ (\E n \in 0..modules : RemoveModule(n))
             \/ Initialize
    BY <2>8 DEF RunAt, Run, AddModule, RemoveModule, Initialize, Looping
  <2>9. QED BY <2>2, <2>3, <2>4, <2>5, <2>6, <2>7, <2>8 DEF Next, Library, Callers
<1>2. QED BY <1>1, ClockAlways, PTL DEF Spec, RunProgresses

-----------------------------------------------------------------------------
(* What the code that is called back may rely on. *)

(* An event issued and not called waits. *)
LEMMA WaitingIs ==
    ES!Waiting = Issued \ Called
  BY DEF ES!Waiting, Issued, Called

(* The new event of a schedule call. *)
LEMMA IssuedAfter ==
    ASSUME TypeOK, NEW t \in Times, target' = Append(target, t)
    PROVE  LET n == Len(target) + 1
           IN  /\ Issued' = Issued \cup {n} /\ n \in Nat /\ n \notin Issued /\ Issued \subseteq Nat
               /\ Len(target') = n /\ target'[n] = t
               /\ \A e \in Issued : target'[e] = target[e]
<1>1. target \in Seq(Times) /\ Len(target) \in Nat
  BY EventTypes
<1>2. /\ Len(target') = Len(target) + 1 /\ target'[Len(target) + 1] = t
      /\ \A e \in Issued : target'[e] = target[e]
  BY <1>1, AppendProperties DEF Issued
<1>3. QED BY <1>1, <1>2 DEF Issued

(* The event of a call joins those called. *)
LEMMA CalledAfter ==
    ASSUME TypeOK, NEW e \in Issued, executed' = Append(executed, e)
    PROVE  Called' = Called \cup {e}
<1>1. executed \in Seq(Nat) /\ Len(executed) \in Nat /\ e \in Nat
  BY EventTypes DEF Issued
<1>2. /\ Len(executed') = Len(executed) + 1 /\ executed'[Len(executed) + 1] = e
      /\ \A i \in 1..Len(executed) : executed'[i] = executed[i]
  BY <1>1, AppendProperties
<1>3. QED BY <1>1, <1>2 DEF Called

(* Whatever has been called was due, and before all that has not.          *)
LEMMA CalledFirst ==
    ASSUME OrderInv
    PROVE  /\ Called \subseteq Issued
           /\ \A e \in Called : target[e] <= currentTime
           /\ \A e \in Issued \ Called : currentTime <= target[e]
           /\ \A d \in Called, e \in Issued \ Called :
                 target[d] < target[e] \/ (target[d] = target[e] /\ d < e)
<1>1. executed \in Seq(1..Len(target))
  BY DEF OrderInv, FiredTypeInv
<1>2. \A i \in 1..Len(executed) : executed[i] \in Issued
  BY <1>1, ElementOfSeq DEF Issued
<1>3. QED BY <1>2, WaitingIs DEF Called, OrderInv, ClockBetween, FiredFirst
=============================================================================
