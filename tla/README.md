# A verification of Simo

Simo is a C++ library for discrete-event simulation (`include/Simo`,
`src`), with a program, SimoSim, that loads modules from shared libraries and
runs a configuration (`src/SimoSim`). This directory holds TLA+ models of it,
TLC configurations that check them on small instances, and theorems that TLAPS
proves for every instance. `PROJECT.json` maps every definition to the lines it
models. Paths below are relative to the root of the repository.

Contents: [the system](#1-the-system) ·
[modules and code](#2-the-modules-and-the-code) ·
[what is checked](#3-what-is-checked) · [bounds](#4-bounds) ·
[fairness](#5-fairness) · [what is proved](#6-what-is-proved) ·
[where code and documentation part](#7-where-code-and-documentation-part) ·
[what is not modelled](#8-what-is-not-modelled) · [plan](#9-plan)

## 1. The system

One thread runs everything. What is hard is not parallelism but call-backs,
the order of legal calls, and state that outlives the object that made it.

| component | state | operations | what makes it correct |
|---|---|---|---|
| **RadixHeap** (`core/RadixHeap.cc`) | 65 buckets of ticks, the minimum of each, the size | `push`, `peek`, `pop`, `empty` | It yields least values, loses none and never reads an empty bucket 0. It is *monotone*: this holds only while nothing below the top is pushed, and nothing checks that. |
| **Context** (`core/Context.cc`) | state, clock, module list, events by tick, the heap of ticks | `add`, `remove`, `initialize`, `schedule_at`, `schedule_in`, `run`, `run_at` | Every tick with events is in the heap, once; events run in order of tick, then of submission; what is due runs; calls return. |
| **Ports** (`port/Port.h`) | the partner of each port, one payload in each out port, callbacks | `connect`, `send`, `receive`, `clear`, `callback` | Connections join compatible ports, from both ends; payloads arrive once, in order, or their loss is reported. |
| **Logger** (`core/Log.cc`) | a static table of open streams with reference counts; bare pointers into it | `initialize`, `log_setup`, `enabled`, `log_callable`, flushes, destructor | A living logger's stream is open, the last user closes and flushes it, a file is not truncated under a writer. |
| **Collections** (`collection/Collection.cc`) | handles of open libraries | folder scan, `simo_get_collection`, move, destructor | One handle for each library kept, closed once, by its last owner. |
| **SimoSim** (`SimoSim/SimoSim.cc`) | modules by name, their parameters, the context, the connections | `main()` up to each of its nine exits | What it starts is complete and wired as configured; the exit code names what is wrong; no library is closed under living code. |
| **Parameters** (`parameter/ParameterTrie.h`) | a trie of values with validators | `add`, `find`, `get_subtree`, `check`, `visit`, copies | A map from paths to parameters, whatever the shape of the trie. |
| **Collector, statistics** (`module/core/Collector.h`, `statistics/`) | the modules matched, clones of their statistics | `initialize`, opening and closing a window | The report counts exactly the work between start and end. |
| **Module tree** (`module/Module.cc`) | ports by name, children, logger, statistics | `initialize`, `create_port`, `create_child`, `log_setup`, `get_unconnected_ports` | A status is a success exactly when the module and all below it work; no pointer outlives the port it names. |
| **InitializationStatus** (`core/InitializationStatus.cc`) | a module, its errors, statuses below it | `ok`, `emplace_sub_error`, `success` | It names exactly those that failed. |
| **Time** (`core/Time.h`) | picoseconds in 64 bits | arithmetic, conversion from five units | A period means what was written, while it fits the word. |

How they interact. SimoSim opens collections, builds modules from their
factories, adds them to a Context, and lets it call `initialize()` of each,
where modules create ports, read parameters, set up logs and schedule events.
SimoSim then connects ports by name and calls `run_at()`. The Context takes
ticks from the RadixHeap and calls events, which schedule more, send on ports
(whose call-backs run the receiver's code at once), log, and count statistics.
The Collector is a module whose two events read the statistics of others.

Where it is hard, and therefore what the properties are about:

* *Who pushes a tick.* `schedule_at` pushes a tick when its vector grows to one
  entry, `initialize()` pushes all keys, the loop clears the vector and pops
  after the call-backs. A tick must be in the heap exactly while it has events,
  in every interleaving of the three.
* *The heap's contract across runs.* After `run_at()` returned
  `EVENTS_IN_QUEUE`, the clock is behind the top of the heap. A perfectly legal
  event between the two breaks the heap.
* *A cached minimum* (`bucket_mins`), reset in the middle of a redistribution.
* *Rewiring.* `connect()` overwrites pointers and detaches nobody.
* *Reference counts by path, not by reference*, after set-ups that fail or are
  repeated.
* *Destruction order*: modules are code of libraries that must close last, from
  nine exits, after the handles were moved twice.

## 2. The modules and the code

| module | what it is | extends |
|---|---|---|
| `RadixHeapData` | the heap as operators on a record `[buckets, mins, size]`; `Push`, `Pop`, `Rebalance` are the bodies of `push`, `pop` and its loop | |
| `RadixHeap` | the heap with one client, who respects the contract (`MonotoneClient`) or does not | `RadixHeapData` |
| `PriorityQueue` | abstract: a multiset whose front is least | |
| `Context` | the scheduler with its heap, one action per method, one per step of its loops | `RadixHeapData` |
| `EventSchedule` | abstract: a clock that passes no waiting event, events called in order | |
| `PortKinds` | the port classes, whom each accepts, what a connection stores | |
| `Ports` | every method of a port, and the life of ports under their names | `PortKinds` |
| `Logger` | loggers and the table `sink_tracker` | |
| `Collections` | libraries and their owners | |
| `SimoSim` | `main()` | `Collections`, `PortKinds` |
| `ParameterMap` | abstract: a map from paths to parameters, with copies | |
| `Parameters` | the trie and what is done with it | |
| `Collector` | the collector among modules that count, run by the real scheduler | `Context` |
| `Time` | the conversion of a time and a unit into the word | |
| `Modules` | the modules of the guided examples, nested ones included, and the ping and pong of the tests with their ports, in the real scheduler, with what `main()` does | `Context`, `PortKinds`, `Time` |
| `MC…` | constants for TLC | |
| `…Proofs` | theorems; `ContextProofs` builds on `RadixHeapProofs`, those of the two compositions on `ContextProofs`; see [6](#6-what-is-proved) | |

How state corresponds:

* **A bucket** is the number of copies of each value. The order of its vector
  is read in one place, element 0 of bucket 0, and bucket 0 holds copies of one
  value (part of what is proved). `BucketIndex` is `64 - countl_zero(a ^ b)`:
  the least `i` such that both values lie in one aligned block of `2^i`.
* **An event** is the number of the schedule call that made it. `scheduledTasks`
  is the vector of each tick, `ticks` the keys of the `unordered_map`, which are
  never erased. `pc` is where the thread is and `pos` how far the range-for
  there has come: while `pc = "module"` the code of a module's `initialize()`
  runs, while `pc = "tick"` that of an event, and both may schedule.
* **`Client`** says what the callers respect. `"any"`: nothing. `"documented"`:
  events and ends of runs in the future, `initialize()` once and first, as
  `Context.h` asks. `"ordered"`: also, between two runs, no event before the
  top of the heap. SimoSim is an ordered client: it schedules nothing between
  `initialize()` and its only run.
* **`NDEBUG`** says whether `SIMO_ASSERT` is compiled out. A failed assertion
  ends in `pc = "aborted"`. Without assertions an event for the tick being
  walked is dropped or makes the loop read freed memory, one or the other.
* **A port's life.** `Module::ports` maps names to ports: `place` is a port's
  module and name, and `life` whether it is yet to be created, lives or is dead.
  `create_port` of a name that is taken ends the old port's life, the end of a
  module that of all its ports. `severed` and `rewired` are histories.
* **A status** is the sequence of modules that the errors below it name, each
  with its depth below the module list (`errors`). A module's `initialize()`
  takes two steps when it ends by scheduling an event: what it decides, and
  `schedule_at`; `owed` holds the schedule calls that the running code has yet to
  make. A player (ping or pong) has one bidirectional port: `box` is its out
  port, `partner` the module at the other end.
* **A payload** is the number of its `send()`. A logged line is a pair of logger
  and path. A parameter's value is one its validator accepts or refuses; a name
  is what stands between its separators, and `Blank` stands there when nothing
  does. The trie of a set of parameters is a record of a parameter and the tries
  below it (`Trees`); what the code does by recursion on its nodes is a recursive
  function on tries.
* **A file** is what `dlopen` takes it for, with what its section headers say.
  A configuration is read entry by entry, any entry that is possible. What the
  collections say of module types stays as it is (`provides`, `parameters`,
  `ports` in `MCSimoSim`).
* Definitions named `Bug…` are seeded faults: what a definition would be with a
  plausible mistake. No specification uses them. Each property is known to fail
  when one of them takes its definition's place.

## 3. What is checked

Each run finishes without error unless it is one of the three `finding_…` runs
of [section 7](#7-where-code-and-documentation-part).

**heap** (7 622 states). A client that never pushes below the top. `ShapeInv`:
every value lies where a later `pop` will look for it, `bucket_mins` is exact
and bucket 0 is not empty while anything is queued, through redistributions of
several levels. `NoValueLost`: the size, by which `empty()` and `pop()` answer,
is the number of values in the buckets. `PeekIsMin`: nothing in any bucket is below the top.
`ImplementsPriorityQueue`: push and pop are those of a priority queue. Deadlock
is checked: a heap that is not empty can be popped.

**context** (113 000 states). Ordered callers, assertions on. `InOrder` and
`ImplementsEventSchedule`: events are called in order of tick, then of
submission, at their own tick, none twice. `NoneOverdue`: when a run has
returned, nothing due is left. `QueuedOnce`: a tick is in the heap exactly while
it has events, and once. `StoppedMeansDone`: `STOPPED` is answered only when
every event ever scheduled was called. `CallsReturn`: every call returns; its
safe part, `RunProgresses`, is that each step of the loop of `run_at()` lowers
what is left of the run, and that no event can add to it. With `NoneOverdue`,
an event due by the end of a run is called in it.

**context_release** (718 000 states). Any caller, no assertions, so ticks below
the top, repeated initializations, wrapped times and runs into the past.
`TickQueued`: no tick with events is missing from the heap. `HeapSound`: the
heap keeps its shape even when its contract is broken.

**ports** (343 000 states). Ports of each class, an in port and an out port that
are created over others, two bidirectional ports, connected and reconnected in
every way, in modules of which one may be destroyed. `LinksCompatible`:
a connection joins opposite directions and equal payloads, so the pointer stored
after a `runtime_cast` points at what it says. `LinksMutual`: until a `connect()`
replaces a connection, both ends name each other, a contract is probed along the
connection and a callback is called over it. `NoDanglingLink`: as long as only
ports that do not report `connected()` are given up, no port is left with a
pointer to a dead one, although a replaced connection leaves pointers that the
other end knows nothing of. `ReceivedOnceInOrder`: whoever
still points at an out port, a payload is received at most once and in order.
`NothingLostUnnoticed`: a payload is received, cleared, still waiting in a living
port, or the next `send()` answered `REPLACED`; else its port died while it
waited (`WentDown`), or `receive_in()` took it, whose caller reads memory that
may hold it or not (`garbled`, see section 7).

**logger** (683 000 states). Three loggers, two paths, every order of set-ups
(plain, repeated, failing), writes and destructions. `NoDanglingSink`,
`RefCountExact` (the count of users, and that no line waits in a stream without
users), `LinesOfLivingKept`: what section 1 promises. They except two histories in which the code does not keep it, recorded in
`recovered` and `leaked` (see section 7).

**parameters** (58 000 states). Two sets of parameters, names `""`, `"a"`,
`"a/"`, `"a/b/"`, `"/a"`, any four calls. `ImplementsParameterMap`: what a call
was given is part of the state on both sides (`call`), and in the map each call
has one outcome: it gives the value it was given to the parameter at the path it
names, and changes no other; a part holds what the original has under that path;
an assignment keeps what the source does not have. `ReadsAgree`: `find()`,
`check()` and `visit()` say what the map holds. `TypeOK`: a trie keeps its shape
and grows no deeper than the names have parts.

**simosim** (580 000 states). Every configuration of up to three modules and
two connections, after every pair of search paths, among them one folder that
has a library of the other and one that has a copy of it. `HandlesExact`: a
library is open once while somebody keeps it and not otherwise. `LifetimesNest`:
no module is in the context after its end and none outlives its library, in the
unwinding of every exit. `ReadyToRun`: the context has each configured module
once, of its type, with parameters set and accepted, and `dump_parameters`,
which looks through the pointer it is given, meets no parameter without a value. `LinksInForce`: every
configured connection is in force from both ends, unless a later entry took a
port of it. `ExitCodeExact`: the exit code names the first thing that is wrong; of a
connection, that a port does not exist before that the two do not fit.

**collector** (2.5 million states). The collector at each place among three
modules, whatever they schedule in `initialize()` and from events, and whenever
the run ends. `ReportExact`: the report counts exactly the events between the
opening and the closing one; of events at the two boundary ticks, those that
were scheduled after the one and before the other; and a run that lasts until
`end_time` leaves a report.

**modules** (2.7 million states). Two modules, each of any class of the guided
examples and of any configuration, with a function of `main()`; or a ping and a
pong of the tests, two of either, connected or not. A period is checked, or was
put in place by `Parameters::set()`, as the tests do, and has no validator any
more (`validated`). The real scheduler runs them
to any times one after the other, assertions on. `StatusExact`: the status of
`initialize()` is a success exactly when every module and nested module works,
and has one error for each that does not. `CountExact`: `CustomMain.cc` asserts
1, 2 and 3 events after runs to 1, 11 and 20 with a period of 10, and
`CollectionTest.cc` that ping and pong have sent 1 and 0, 1 and 1, 2 and 1, 2
and 2 messages after runs to 10, 20, 30 and 40; here, after any runs to any
times, a module that works has counted one event at zero and one for each
period, as written in its unit, that has passed, and players of one period have
sent a message every two. `MessagesPaired`: whatever the two periods, ping and
pong answer each other one by one, although no port makes them, so no message
replaces another. `LoggedExact`: a line for each thing counted when the
configured level lets it through, none otherwise. `AbortsOnlyAtEnd`: an
assertion fails only in a module that would schedule itself beyond the end of
the word, or whose own period is zero and has no validator: a `TestModule`'s, or
any that `set()` has replaced.

## 4. Bounds

| bound | value | why it is enough |
|---|---|---|
| `NUM_BITS` | 3 (heap), 2 (others); 64 in the code | Redistribution deals one bucket into narrower ones: with 3 bits a value travels through three buckets and two redistributions follow each other. The theorems hold for every width. |
| `NUM_BITS`, `Kilo` in `modules` | 3, 3; 64 and 1000 in the code | The word has eight values and the units are 1, 3 and 9: a period fits, another wraps to one that its validator refuses, and three runs to ever later times fit. |
| `MaxMain`, `Periods`, `LevelNames` | 1, 4, 3 | A function between the modules' events; a period of zero, one, two, three and one that wraps; a level that lets lines through, one that does not, one that is none. |
| `Cast`, `Company` in `MCModules` | players meet players of one level only, and no function of `main()` | What a module counts and logs does not depend on a stranger's class or level; strangers meet among the other classes, and players are what the exchange of messages needs. A period without validator is zero or one, and levels vary where the period is accepted: a longer period behaves the same with and without its validator. |
| `Spare`, `Doomed` | an in port and an out port, one module | A port created over another that is or was connected or holds a payload, and the end of a module with ports of three classes. |
| `Apart` in `MCPorts` | no payloads, and no second out port, while callback ports are wired | Callback ports hold no payload and connect to one another only. |
| `MaxSize` | 5 values in the heap | All four buckets can be filled, with a duplicate. |
| `MaxTasks` | 4, 3, 5, 24 schedule calls | Two events at one tick, one before it and one scheduled from a callback; without assertions 3 leave room for one below the top. In `collector` two calls are the collector's own; in `modules` the bound is above what two modules schedule before the clock ends. |
| `MaxModules` | 1, 0, 3, 2 entries | The scheduler asks a module for success or failure only; the collector needs one before and one after it. |
| `MaxQueued` | 12, 36 | Above what is reached; only repeated initializations fill the heap with duplicates. |
| `MaxSends` | 2 payloads | One to be replaced, received twice, cleared or overtaken by the other. |
| `MaxRefs`, loggers, paths | 4, 3, 2 | A path with two users and another logger that fails, leaks or comes late. |
| `MaxFolders`, `MaxModules`, `MaxLinks` | 2, 3, 2 | A folder after another, a name used twice among others, a connection that takes a port of another. |
| `MaxCalls` | 4 | A parameter given a validator, copied over another set and changed. |
| `Parts`, `MaxParts` in `parameters` | `""`, `"a"`, `"b"`; 2 | A parameter above, below and beside another, an empty part at either end of a name. The theorems hold for any parts and any depth. |

Symmetry is used where identities are interchangeable (loggers and paths, module
names, sets of parameters) and never together with a liveness property. Deadlock
is not checked where the system may stop: a program that ended or aborted, a
bound that is used up.

## 5. Fairness

Only `context` needs it: `WF_vars(Library)`, weak fairness of the library's own
steps, never of its callers. It says that a call goes on until it returns: one
thread runs, `initialize()` of a module and every event return, and nothing else
can take the processor away from the loop. Callers may stop calling at any time.

## 6. What is proved

All theorems are for every width of ticks, every number of events, modules,
ports and payloads, every set of names and every depth of a trie. Assumptions on constants are `NumBitsAssumption`
(at least one bit), `Pow2Assumption` (the table of powers), `ClientAssumption`,
`NDEBUGAssumption`, `BoundsAssumption`, `MonotoneClientAssumption`,
`PortAssumption` (ports have a class; an out or in port is part of at most one
bidirectional port), `LoggerAssumption` (a count has a bound),
`FilesAssumption` (finitely many files, each of one kind),
`SimoSimAssumption` (what the libraries say of their types is well formed),
`ModulesAssumption` (a period is a number and a unit, a level a number),
`ParametersAssumption` (names are made of parts and have a bounded length) and
`NoneAssumption` (what stands for "nothing" is nothing else). A theorem that
needs callers who keep the scheduler's contract says so in its ASSUME; the three
kinds are described in [section 2](#2-the-modules-and-the-code).

**The heap** (`RadixHeapProofs`). The inductive invariant is
`HeapOK`: types, `Shape` and `SizeExact`. Shape is needed whole. A value is found
again because it lies in the bucket of its distance from the *current* top
(`WellPlaced`); a `pop` that empties bucket 0 makes the minimum of the first
non-empty bucket the new top, which needs `MinsExact`; and every wider bucket
keeps its values because old and new top share all blocks of that size, the
lemma on `SameBlock` from which everything follows. It holds for *any* client.
That the top is least (`TopInv`) needs the monotone client, and gives
`PeekIsMinAlways` and `HeapImplementsPriorityQueue`.

**The scheduler** (`ContextProofs`, any client, with or without assertions).
`TickInv` strengthens `TickQueued` by what the loops hold while they run: the
tick being walked is the top of the heap (`WalksTop`), the keys are never erased
(`KeysKept`), what `initialize()` has pushed so far is in the heap
(`PushedSoFar`). For documented callers `OnceInv` adds that the heap is empty
before the first initialization, which gives `QueuedOnceAlways`, and `EventsInv`
relates the history to the vectors: an event is in its tick's vector exactly
while it has not been called, which gives `StoppedMeansDoneAlways`.

**Order** (`ContextProofs`, ordered callers). `ClockInv` adds that nothing
waits in the past or below the top and that `initialize()` pushes in order. From
it: `ClockNeverGoesBack`, `NoneOverdueAlways`, and that the scheduler implements
`EventSchedule` (`ContextImplementsEventSchedule`). `InOrderAlways` then follows
from the abstract specification, where `FiresInOrder` is proved once.
`finding_clock_back` shows that the assumption of an ordered caller cannot be
dropped. The invariants together are `SchedulerInv`; `SchedulerStep` says that
each step of `Context` keeps it, whoever takes the step, and `CallFires` that
the event called is the first of those that wait. The two compositions build on
these. `RunProgressesAlways` gives the loop of `run_at()` its variant: the ticks
the clock may still stop at (those after it, and its own while events are filed
there), then the phase of the loop, then the events of the tick not called yet.
An event can only schedule for a tick that is among the stops already. That the
top is never before the clock, from `ClockInv`, is what the proof turns on.

**Ports** (`PortsProofs`). `TInv` is `TypeOK` with opposite directions at the
two ends of a link. The data theorems rest on `DataInv`: what a port holds is
newer than all that was received from it (`OrderInv`), every payload comes from
the port named as its sender (`Origins`), and each has met one fate: received,
removed otherwise (`Removed`: cleared, or garbled by `receive_in()`), replaced,
or still in its port, alive or dead (`Fates`). `NoDanglingLinkAlways` rests on `LifeInv`: whoever is pointed at
reports `connected()`, even after it was wired elsewhere (`EndsKnow`), and
whoever reports `connected()` lives or has lived (`ConnectedLive`); so a port
that no longer reports a connection when it dies is one that nobody points at.

**The loggers** (`LoggerProofs`), any number of them and of paths. The invariant
is `Counted`, and it holds up to `recovered`. A stream is open while its path
counts a user (`SinksOpen`), the count is the number of loggers that refer to
the path (`CountsExact`), or above it where a repeated set-up leaked one
(`LeaksCounted`), every unflushed line is in a stream that is open
(`LinesInOpen`), and whoever has a line in a file writes there or has given its
reference up (`WritersKnown`). The properties
alone are not inductive: that the last user closes a stream needs the exact
count, and the count needs that set-up and destructor speak of one path.

**SimoSim** (`SimoSimProofs`), for any collections, search paths and
configurations of any length. `main()` is a sequence of stages, and each part of
`IInv` says what one leaves behind for the later ones: who owns which handle
(`Handles`), which lists are still empty (`Fresh`), that a module's code is in a
library that is kept (`CodeKept`), what the module entries amount to
(`EntriesRead`: unless one was refused, as many modules as entries, each of its
type), what a stage that was passed excludes (`Passed`), what the context lists
and each module answered (`Listed`), and that every connection read is one of
existing, compatible ports (`Linked`). Each action disturbs few of them (the
frame lemmas). That the context has *each* module *once* is a count: as many
names as modules, as many modules as entries.

**The collector** (`CollectorProofs`, ordered callers). The scheduler calls an
event when none before it waits, in the order of tick, then of submission
(`Before`). So what a module has counted when the window opens is the number of
its events before the opening one, whatever is scheduled meanwhile: the lemma is
that nothing scheduled later comes before what was called already. `Counts`
relates a count to the events called, `Clones` a clone to the events before the
opening, `Report` the difference to those between the two, and `Window` says that
each end of the window is filed once. `ReportExactAlways` follows, with
`NoneOverdue` for the run that lasts. `CollectorImplementsContext`: the
composition takes only steps that `Context` allows an ordered client.

**The modules** (`ModulesProofs`, ordered callers), any number of them, of any
classes, periods, levels and connections. `BaseInv` says what the program is
doing: whose code runs and which schedule calls it owes (`OwedInv`), which call
each event is (`TaskInv`), and that a module that has begun to schedule has
passed its check and begun with all its functions (`BegunInv`). On it rest

* `StatusInv`: the errors are as many as the modules that were called and did
  not start. It gives `StatusExactAlways`.
* `LoggerInv`: a logger is new, or was opened or not and then levelled, and it
  was levelled before the first event. It gives `LoggedExactAlways`.
* `RoundsInv`: a function that has begun has exactly one event that waits, is
  being called, or is about to be scheduled, and it is due at its first tick
  plus its period times the number of its runs. The clock lies within a period of
  it. So between two runs, where nothing due is left, the number of runs is
  determined by the clock (`BetweenRuns`), which gives `CountExactAlways` for the
  modules that do not play (`CountInv`) and for players that hear of no one
  (`AloneInv`).
* `InRound`: of two players of one period, `update_state()` falls on the
  multiples of the period and `try_send()` half a period later, so they take
  turns, whichever of the two players comes first on a tick. For periods longer
  than one picosecond, where the half is not zero, `InStepInv` then says where the message is in each round, and gives the rest of
  `CountExactAlways`.
* `TurnInv`: the two functions of one player take turns, starting with
  `update_state()`, because of two events on one tick the one scheduled first is
  called first. This holds for a half period of zero too, which needs a period
  that `set()` put in place.
* `TokenInv`, for any two periods: there is one message, and it is not sent yet,
  in the ping's box, in the pong's hands, in the pong's box or in the ping's
  hands; `Loaded` says whether a player has looked and not sent yet. It gives
  `MessagesPairedAlways`.

What is said of the runs holds until an assertion fails, and
`AbortsOnlyAtEndAlways` says when one does. With assertions compiled out
(`NDEBUG`), a call that would have failed one breaks the contract and is no step
of an ordered caller: the theorems then speak of programs that stop short of the
end of time. `ModulesImplementContext`: the composition takes only steps that
`Context` allows an ordered client, so all theorems about the scheduler hold in
it.

**Parameters** (`ParametersProofs`), any names, any depth, any number of sets and
calls. `TypeOK` is inductive as it stands: a trie has at most one level more than
a name has parts. The difficulty is that what the operations return is defined by
recursion on names and tries. A recursive definition says nothing to the prover
until it is known that a function satisfies it, and no installed prover can use
the library's induction and recursion theorems. The first part of the module
proves what is needed instead, for functions and sets rather than operators:

* `Induction` on sets of naturals, from the least element of a set, and
  `Recursion`: a functional whose value at a point rests only on points of lower
  rank (`Descends`) has a fixed point, put together from functions that solve the
  equation below a rank and agree where they do.
* The equations of the recursive operations (`TreesDef`, `SubEquation`,
  `AddedEquation`, `VisitedEquation`, `MergedEquation`). The rank of a name is its
  length, that of a trie its depth (`Depth`).
* What each operation does, by induction on that rank: `AddedAt` (an added
  parameter is found at its path, and everything else where it was), `MergedAt`
  (the source's copies replace, the rest stays), `NodeConcat` (a part of a part is
  a part), `VisitedAreThere` and `AllAreVisited` (a walk meets each parameter,
  and nothing else).

From these: `ParametersTypeCorrect`, `ReadsAgreeAlways`, and
`ParametersImplementMap`: every call is the map's call of the same method, object,
path and argument. Its steps are `AddRefines` and `ModifyRefines` for the calls
that change one parameter, over `ChangeRefines`, and `AssignRefines` and
`FetchRefines` for the copies.

**Model-checked only.** `CallsReturn` is liveness, which is out of the prover's
reach; `RunProgressesAlways` is as near to it as a safety theorem comes. Every
other property of a passing run is a theorem. The properties of the three
`finding_…` runs are false, which TLC shows.

## 7. Where code and documentation part

* `finding_clock_back` (`Context.cc:85`). After a run that returned
  `EVENTS_IN_QUEUE`, an event in the future but before the top of the heap is
  accepted. The heap is monotone: the next run calls the later event first, and
  then moves the clock back.
* `finding_failed_init` (`Context.cc:54`). After `initialize()` has failed,
  `run_at()` overwrites `ERROR` and calls events of modules that are not
  initialized; `Context.h:84` promises an initialization first.
* `finding_no_ports` (`SimoSim.cc:82`). `--print-ports` says "No ports" when the
  last module it visits has none, whatever it printed before.

Seen while modelling, without a run of their own:

* `Context.cc:72`: `run()` that drains the queue leaves `current_time()` at the
  last tick; `Context.h:82` promises the start plus the delta.
* `Port.h:463`: `receive_in()` is to "extract the payload" (`Port.h:462`). It takes
  it out of the port at the other end and returns a reference to a temporary that
  is gone. Nothing in the repository calls it. The payload is then `garbled`, or
  received if the memory still holds it, and `NothingLostUnnoticed` excepts it.
* `SimoSim.cc:316`: a connection entry that names a port already connected takes
  it, and the earlier entry was reported as done (`LinksInForce` excepts the ports
  a later entry takes).
* `ParameterTrie.h:153`: `Parameters::set()` puts a new parameter in the place of
  the old one, whose validator is gone with it: a period set so is never checked,
  and one of zero aborts the run. `CollectionTest.cc:69` sets its periods this way.
* `Module.cc:91`: `log_setup()` replaces a logger that holds a reference without
  counting it down. The stream is never closed, and the same path is not
  truncated again although `Module.h:170` says the log is re-initialized. The
  logger's properties except the paths this happened to (`leaked`).
* `Log.cc:35`: a logger that failed to open a path keeps the path. If another
  logger opens it later, the first one's destructor counts down a reference it
  never had and may close the stream under the other (`recovered`).
* `Parameter.h:133`: a clone has the value only. It counts as set and has no
  validator, so a copy of parameters (a part fetched for a nested module, too)
  passes a `check()` that the original fails. `operator=` of the trie merges,
  and a move is a copy.
* `ParameterTrie.h:139`: `visit()` loses the beginning of a name that starts
  with the separator.
* `InitializationStatus.h:46`: `emplace_sub_error()` reads the success of the
  status it appends when it appends it; an error added later to the reference it
  returns is printed below a parent that says OK. Nothing in the repository adds
  one.
* `FirstModule.cc:44`: a failed `log_setup()` is returned as it is; it was made
  by the logger and names no module.
* `PingPongCollection.cc:56` does not look at what `log_setup()` returns: a player
  whose log did not open succeeds and logs nothing (`LoggedExact` excepts it).
* `Log.cc:36`: `sink_tracker` is keyed by the spelling of the path. Two spellings
  of one file are two streams, and the second truncates the first.
* `Module.h:217`: `create_port()` over a name that is taken, or the end of a
  module, leaves a connected partner with a pointer to what is gone
  (`NoDanglingLink` excepts exactly this).
* `Collector.h:56`: modules initialized after the collector have no name yet;
  a specific `module_match_regex` misses them. SimoSim adds modules in the order
  of an `unordered_map`.

## 8. What is not modelled

* The contents of messages, logs and reports, their formats, and the reading of
  ELF and Mach-O headers: input and output without state.
* The command line and the parsing of YAML: SimoSim's model takes their results.
* Two spellings of one log file, copies of a logger, the closing of files at
  exit.
* Times converted back to a unit, and their text form: nothing decides on them.
* Modules deeper than one below the module list: the step of a nested module
  repeated.
* Types of parameters; validators that read other parameters (the collector's
  own is in `Collector`, as the order of its window).
* Contract values and predicates: only which port is probed (`LinksMutual`).
  `verify_connected_port_contract()` keeps nothing: its answer is computed from
  that port's contract whenever it is asked, and its caller is the one to ask
  again.
* Re-entrance: a callback that runs or initializes its own context, or sends on
  the port it is called from. Nothing in the repository does it, and the library
  documents nothing about it.
* Behaviour after a `receive()` that has nothing to receive: the model ends.
* `Context::add_parameter`: it writes to a trie that nothing of the class reads.
* Vendored code (`SimoSim/CLI11.hpp`, 12 216 lines, three quarters of all that
  lies under `src`, and enchantum), the build, compiler attributes.

## 9. Plan

Order, most important first. All are done but 13, which was
dropped.

1. `RadixHeapData`, `RadixHeap`, against `PriorityQueue`: the structure
   everything else trusts.
2. `Context`, against `EventSchedule`, composed with the heap's data.
3. `Ports`, `PortKinds`.
4. `Logger`.
5. Theorems on the heap, the scheduler and the ports.
6. `Collections` and `SimoSim`, which composes them with the ports' rules.
7. `Collector`, which composes the scheduler with modules.
8. `Parameters`, against `ParameterMap`.
9. The findings, each with the shortest behaviour that shows it.
10. Lifetimes of ports, in `Ports`.
11. `Time` and `Modules`: the modules of the guided examples, their statuses,
    periods and levels, in the scheduler.
12. Theorems on the loggers.
13. Contract values in `Ports`: dropped, see [8](#8-what-is-not-modelled).
14. Ports and scheduler together, in `Modules`: the ping-pong modules of the
    tests, with a payload sent at one tick and received at a later one.
15. Theorems on `Collections` and `SimoSim`.
16. Theorems on `Collector` and `Modules`, over those on the scheduler.
17. The variant of the loop of `run_at()`.
18. Theorems on `Parameters`, over recursive functions.
