------------------------------- MODULE Modules -------------------------------
(***************************************************************************)
(* Modules in a Context: Simo::Module (include/Simo/module/Module.h) and   *)
(* InitializationStatus, as the modules of docs/guided_examples use them.  *)
(* A FirstModule logs and counts an event of its own once per period, a    *)
(* TestModule (of CustomMain.cc) counts only, a RootModule owns a nested   *)
(* module and succeeds if that does, and a PingModule and a PongModule     *)
(* send each other a message to and fro, each through its                  *)
(* BidirectionalPort.                                                      *)
(*                                                                         *)
(* A module is its place in the module list; each step is a step of        *)
(* Context and what the module called back does in it.  main() adds them,  *)
(* schedules functions, initializes, connects two ports, and runs to times *)
(* of its choice, one after the other; it keeps the scheduler's contract,  *)
(* the modules schedule what their period says.                            *)
(***************************************************************************)
EXTENDS Context, PortKinds

CONSTANTS
    None,
    Kilo,         \* 1000
    Periods,      \* the <<time, unit>> a configuration may give
    LevelNames,   \* the log levels a configuration may name
    MaxMain       \* bound: the functions main() schedules

T == INSTANCE Time WITH Size <- Pow2[NUM_BITS]

ASSUME ModulesAssumption ==
    /\ Kilo \in Nat \ {0} /\ MaxMain \in Nat
    /\ Periods \subseteq Nat \X T!Unit /\ LevelNames \subseteq Nat

(* None is no period, no module, and nothing a module schedules. *)
ASSUME NoneAssumption ==
    /\ None \notin Nat \X Nat /\ None \notin Nat
    /\ None \notin (1..MaxModules) \X {"update_state", "try_send"}

(* enum LogLevel; any other name is not recognized. *)
INFO == 2
WARNING == 3
LogLevel == 0..WARNING

VARIABLES
    type,      \* the class of each module
    period,    \* its parameter "period" as written, None when it was not set
    validated, \* has that parameter a validator?
    level,     \* its parameter "log_level"
    errors,    \* the sub_errors of the status: the module each one names
    children,  \* how many nested modules each module owns
    owed,      \* the <<module, function>> the running code has yet to schedule
    task,      \* which of these each event is, None when it is a function of main()
    logger,    \* the logger of each module
    count,     \* its statistic: the events called, or the messages sent
    lines,     \* how many lines its log holds
    partner,   \* the module whose port its port is connected to
    box,       \* does the out port of its port hold a message?
    startSend, sendMessage  \* start_send, send_message

configuration == <<type, period, validated, level>>
setup    == <<errors, children, logger>>
reported == <<count, lines>>
messages == <<box, startSend, sendMessage>>
ours     == <<configuration, setup, owed, task, reported, partner, messages>>
allVars  == <<vars, ours>>

Modules  == 1..MaxModules
Players  == {"PingModule", "PongModule"}
Classes  == {"FirstModule", "TestModule", "RootModule"} \cup Players
Plays(m)    == type[m] \in Players
Periodic(m) == type[m] # "RootModule"

(* The functions a module schedules, each of which schedules itself again. *)
Functions(m) ==
    IF Plays(m) THEN <<"update_state", "try_send">>
    ELSE IF Periodic(m) THEN <<"update_state">> ELSE <<>>
Calls(m) == [i \in 1..Len(Functions(m)) |-> <<m, Functions(m)[i]>>]

(* A Logger before its set-up, and after it: log_setup() makes a new one.  *)
NewLogger  == [enabled |-> FALSE, names |-> 0, threshold |-> 0]
OpenLogger == [NewLogger EXCEPT !.enabled = TRUE]

(* FirstModule and the players declare their period, with a validator, and *)
(* a configuration gives it a value, or none.  Parameters::set() puts a    *)
(* parameter without a validator in its place, or adds the one that a      *)
(* TestModule looks for.                                                   *)
ModulesInit ==
    /\ Init
    /\ type \in [Modules -> Classes]
    /\ period \in [Modules -> Periods \cup {None}] /\ level \in [Modules -> LevelNames]
    /\ validated \in [Modules -> BOOLEAN]
    /\ \A m \in Modules :
        /\ type[m] \in {"TestModule", "RootModule"} =>
              ~validated[m] /\ level[m] = CHOOSE l \in LevelNames : TRUE
        /\ Periodic(m) /\ ~validated[m] => period[m] # None
        /\ type[m] = "RootModule" => period[m] = None
    /\ errors = <<>> /\ children = [m \in Modules |-> 0]
    /\ owed = <<>> /\ task = <<>>
    /\ logger = [m \in Modules |-> NewLogger]
    /\ count = [m \in Modules |-> 0] /\ lines = [m \in Modules |-> 0]
    /\ partner = [m \in Modules |-> None] /\ box = [m \in Modules |-> FALSE]
    /\ startSend = [m \in Modules |-> type[m] = "PingModule"]
    /\ sendMessage = [m \in Modules |-> FALSE]

-----------------------------------------------------------------------------
(* main().                                                                 *)

MainAdds == modules < MaxModules /\ AddModule /\ UNCHANGED ours

MainSchedules(t) ==
    /\ pc = "idle" /\ Cardinality({i \in 1..Len(task) : task[i] = None}) < MaxMain
    /\ Future(t) /\ (~Empty(nextTickHeap) => Peek(nextTickHeap) <= t)
    /\ ScheduleAt(t)
    /\ task' = Append(task, None)
    /\ UNCHANGED <<configuration, setup, owed, reported, partner, messages>>

MainInitializes ==
    modules = MaxModules /\ state = "INITIALIZATION" /\ Initialize /\ UNCHANGED ours

MainRuns(t) == modules = MaxModules /\ currentTime < t /\ RunAt(t) /\ UNCHANGED ours

(* initialize() got as far as create_port(). *)
Ported(m) == \E i \in 1..Len(task) : task[i] = <<m, "try_send">>

(* get_port() of both, and connect(): before the first run, as SimoSim     *)
(* does it.  Ports of all players take payloads of one type.               *)
MainConnects(m, q) ==
    /\ pc = "idle" /\ executed = <<>>
    /\ m # q /\ Ported(m) /\ Ported(q)
    /\ partner' = Link(partner, m, q)
    /\ UNCHANGED <<vars, configuration, setup, owed, task, reported, messages>>

-----------------------------------------------------------------------------
(* The logger's levels.                                                    *)

(* Seeded fault: the level the configuration names is set before the names *)
(* are known, and again by populate_default_log_levels().                  *)
BugLeveled(l, name) ==
    [(IF name < l.names THEN [l EXCEPT !.threshold = name] ELSE l)
        EXCEPT !.names = WARNING + 1, !.threshold = WARNING]

(* Seeded fault: the highest level is taken to be the number of names. *)
BugPopulated(l) == [l EXCEPT !.names = WARNING + 1, !.threshold = WARNING + 1]

(* populate_default_log_levels() names all levels and sets the highest,    *)
(* then log_level(name) sets the named one; a name that is not recognized  *)
(* changes nothing.                                                        *)
Populated(l) == [l EXCEPT !.names = WARNING + 1, !.threshold = WARNING]
SetLevel(l, name) == IF name < l.names THEN [l EXCEPT !.threshold = name] ELSE l
Leveled(l, name) == SetLevel(Populated(l), name)

-----------------------------------------------------------------------------
(* initialize() of the modules.                                            *)

Picoseconds(m) == T!Parsed(period[m])

(* Seeded fault: the validator accepts every period that is set. *)
BugCheck(m) == validated[m] => period[m] # None

(* Parameters::check(): a period that is validated is set, and longer than *)
(* Time::one.                                                              *)
Check(m) == validated[m] => period[m] # None /\ Picoseconds(m) > 1

(* Seeded fault: a module that fails is started all the same, if it can.   *)
BugReturns(m, ok, names) ==
    /\ InitializeModule(ok)
    /\ errors' = IF ok THEN errors ELSE Append(errors, names)
    /\ owed' = IF period[m] # None THEN Calls(m) ELSE <<>>
    /\ UNCHANGED <<configuration, task, reported, partner, messages>>

(* initialize() of m returns a status of the module it names; a periodic   *)
(* module that has come to the end of its initialize() schedules its first *)
(* events.  Context appends the statuses that are no success.              *)
Returns(m, ok, names) ==
    /\ InitializeModule(ok)
    /\ errors' = IF ok THEN errors ELSE Append(errors, names)
    /\ owed' = IF ok THEN Calls(m) ELSE <<>>
    /\ UNCHANGED <<configuration, task, reported, partner, messages>>

(* The pointer in a status: how deep below its module in the list.         *)
Itself(m) == <<m, 0>>
Nested(m) == <<m, 1>>

(* A failed log_setup() leaves a new logger; its status names no module.   *)
FirstModuleInitializes(m, opens) ==
    /\ type[m] = "FirstModule"
    /\ Returns(m, Check(m) /\ opens, IF Check(m) THEN None ELSE Itself(m))
    /\ logger' = IF Check(m) /\ opens
                 THEN [logger EXCEPT ![m] = Leveled(OpenLogger, level[m])]
                 ELSE logger
    /\ UNCHANGED children

TestModuleInitializes(m) ==
    /\ type[m] = "TestModule"
    /\ Returns(m, Check(m), Itself(m))
    /\ UNCHANGED <<logger, children>>

(* The nested module is created, then initialized with a copy of the       *)
(* parameters under a name of its own; its status is returned as it is.    *)
RootModuleInitializes(m, ok) ==
    /\ type[m] = "RootModule"
    /\ children' = [children EXCEPT ![m] = @ + 1]
    /\ Returns(m, ok, Nested(m))
    /\ UNCHANGED logger

(* A player does not look at what log_setup() returns: its levels are set  *)
(* and it works, with a log that is closed.                                *)
PlayerInitializes(m, opens) ==
    /\ Plays(m)
    /\ Returns(m, Check(m), Itself(m))
    /\ logger' = IF Check(m)
                 THEN [logger EXCEPT ![m] = Leveled(IF opens THEN OpenLogger ELSE NewLogger, level[m])]
                 ELSE logger
    /\ UNCHANGED children

ModuleInitializes(m) ==
    /\ owed = <<>> /\ pos + 1 = m
    /\ \/ \E opens \in BOOLEAN : FirstModuleInitializes(m, opens) \/ PlayerInitializes(m, opens)
       \/ TestModuleInitializes(m)
       \/ \E ok \in BOOLEAN : RootModuleInitializes(m, ok)

Owes ==
    /\ owed # <<>> /\ owed' = Tail(owed)
    /\ task' = Append(task, Head(owed))
    /\ UNCHANGED <<configuration, setup, partner>>

SchedulesFirst ==
    /\ pc = "module" /\ Owes
    /\ ScheduleAt(IF Head(owed)[2] = "try_send" THEN Picoseconds(Head(owed)[1]) \div 2 ELSE 0)
    /\ UNCHANGED <<reported, messages>>

-----------------------------------------------------------------------------
(* The events: log_event(), update_state(), try_send(), and the functions  *)
(* of main().                                                              *)

Logs(m) == logger[m].enabled /\ INFO >= logger[m].threshold

(* A level that has no name is read past the end of level_map. *)
Named(m) == INFO < logger[m].names

(* One more of what the module counts, and the line that says so. *)
Reports(m) ==
    /\ count' = [count EXCEPT ![m] = @ + 1]
    /\ lines' = IF Logs(m) /\ Named(m) THEN [lines EXCEPT ![m] = @ + 1] ELSE lines

(* What an event does before it schedules itself again: a player, nothing. *)
CallEvent ==
    /\ owed = <<>>
    /\ CallTask
    /\ LET call == task[scheduledTasks[currentTime][pos + 1]]
       IN  /\ owed' = IF call = None THEN <<>> ELSE <<call>>
           /\ IF call # None /\ ~Plays(call[1]) THEN Reports(call[1]) ELSE UNCHANGED reported
    /\ UNCHANGED <<configuration, setup, task, partner, messages>>

(* peek_in() finds the message the other side sends. *)
Arrived(m) == partner[m] # None /\ box[partner[m]] /\ type[partner[m]] # type[m]

(* Seeded fault: the message is looked at and not taken. *)
BugUpdateState(m) ==
    /\ sendMessage' = [sendMessage EXCEPT ![m] = startSend[m] \/ Arrived(m)]
    /\ UNCHANGED <<box, startSend, reported>>

UpdateState(m) ==
    /\ sendMessage' = [sendMessage EXCEPT ![m] = startSend[m] \/ Arrived(m)]
    /\ box' = IF Arrived(m) THEN [box EXCEPT ![partner[m]] = FALSE] ELSE box
    /\ UNCHANGED <<startSend, reported>>

(* Seeded fault: start_send stays set. *)
BugTrySend(m) ==
    IF sendMessage[m]
    THEN box' = [box EXCEPT ![m] = TRUE] /\ Reports(m) /\ UNCHANGED <<startSend, sendMessage>>
    ELSE UNCHANGED <<messages, reported>>

TrySend(m) ==
    IF sendMessage[m]
    THEN /\ box' = [box EXCEPT ![m] = TRUE]
         /\ startSend' = [startSend EXCEPT ![m] = FALSE]
         /\ Reports(m)
         /\ UNCHANGED sendMessage
    ELSE UNCHANGED <<messages, reported>>

(* And after that, unless the schedule call aborts. *)
Resumes(m, function) ==
    IF pc' = "aborted" \/ ~Plays(m) THEN UNCHANGED <<messages, reported>>
    ELSE IF function = "try_send" THEN TrySend(m) ELSE UpdateState(m)

SchedulesNext ==
    /\ pc = "tick" /\ Owes
    /\ ScheduleIn(Picoseconds(Head(owed)[1]))
    /\ Resumes(Head(owed)[1], Head(owed)[2])

(* Steps of the scheduler that call nobody back.                           *)
Schedules ==
    /\ owed = <<>>
    /\ \/ ModulesDone \/ PushTick \/ LeaveInitialize
       \/ Start \/ QueueDrained \/ FinalTimeReached \/ NextTick \/ EndTick
    /\ UNCHANGED ours

ModulesNext ==
    \/ MainAdds \/ MainInitializes
    \/ \E t \in Times : MainSchedules(t) \/ MainRuns(t)
    \/ \E m, q \in Modules : MainConnects(m, q)
    \/ \E m \in Modules : ModuleInitializes(m)
    \/ SchedulesFirst \/ CallEvent \/ SchedulesNext \/ Schedules

ModulesSpec == ModulesInit /\ [][ModulesNext]_allVars

-----------------------------------------------------------------------------
(* The members of the modules keep their types; one nested module each.    *)
ModulesTypeOK ==
    /\ errors \in Seq((Modules \X {0, 1}) \cup {None})
    /\ children \in [Modules -> 0..1]
    /\ owed \in Seq(Modules \X {"update_state", "try_send"})
    /\ task \in Seq((Modules \X {"update_state", "try_send"}) \cup {None})
    /\ pc # "aborted" => Len(task) = Len(target)
    /\ logger \in [Modules -> [enabled : BOOLEAN, names : 0..WARNING + 1, threshold : LogLevel]]
    /\ count \in [Modules -> Nat] /\ lines \in [Modules -> Nat]
    /\ partner \in [Modules -> Modules \cup {None}]
    /\ messages \in [Modules -> BOOLEAN] \X [Modules -> BOOLEAN] \X [Modules -> BOOLEAN]

(* Those that came to the end of their initialize(). *)
Works(m) ==
    IF Periodic(m) THEN \A k \in 1..Len(Calls(m)) : \E i \in 1..Len(task) : task[i] = Calls(m)[k]
    ELSE children[m] = 1 /\ \A i \in 1..Len(errors) : errors[i] # Nested(m)

OnceInitialized == state # "INITIALIZATION" /\ owed = <<>>

(* The status of Context::initialize() is a success exactly when every     *)
(* module works, wherever in the list or below a module the failure is,    *)
(* and has one error for each module that does not: none is reported and   *)
(* goes on to run, none fails unreported.                                  *)
StatusExact ==
    OnceInitialized =>
        /\ success <=> \A m \in Modules : Works(m)
        /\ Len(errors) = Cardinality({m \in Modules : ~Works(m)})

(* The period that was written fits the word. *)
Meant(m) == T!Meant(period[m])
Fits(m) == period[m] # None /\ Meant(m) < Pow2[NUM_BITS]

(* Two players whose ports are connected with each other, and with no one  *)
(* else's.                                                                 *)
Pair(m, q) ==
    /\ partner[m] = q /\ partner[q] = m
    /\ \A r \in Modules \ {m, q} : partner[r] \notin {m, q}

(* A player hears of one of the other class only if they are in step; with *)
(* a period of one, which no validator accepts, it would answer at once.   *)
Alone(m)  == partner[m] = None \/ type[partner[m]] = type[m]
InStep(m) ==
    Plays(m) /\ ~Alone(m) =>
        Pair(m, partner[m]) /\ period[partner[m]] = period[m] /\ Picoseconds(m) > 1

(* What a module has counted by time t.  A module with a period of p: one  *)
(* event at zero and one for each p that has passed.  A ping whose pong    *)
(* has the same period: the first message half a period after zero, and    *)
(* one for every two p; the pong a period later; and if nothing answers, a *)
(* ping sends once and a pong never.                                       *)
Expected(m, p, t) ==
    CASE ~Plays(m) -> t \div p + 1
      [] Plays(m) /\ Alone(m) -> IF type[m] = "PingModule" /\ p \div 2 <= t THEN 1 ELSE 0
      [] type[m] = "PingModule" /\ ~Alone(m) -> (t + 2 * p - p \div 2) \div (2 * p)
      [] type[m] = "PongModule" /\ ~Alone(m) -> (t + p - p \div 2) \div (2 * p)

(* CustomMain.cc asserts that a module with a period of 10 has counted 1   *)
(* event after run_at(1), 2 after run_at(11) and 3 after run_at(20), and   *)
(* CollectionTest.cc that ping and pong have sent 1 and 0 messages after   *)
(* run_at(10), then 1 and 1, 2 and 1, 2 and 2, every ten: after any runs   *)
(* to any times, every module that works has counted what its period, as   *)
(* written in its unit, says.                                              *)
CountExact ==
    pc = "idle" /\ returned = "EVENTS_IN_QUEUE" =>
        \A m \in Modules : Periodic(m) /\ Works(m) /\ Fits(m) /\ InStep(m) =>
            count[m] = Expected(m, Meant(m), currentTime)

(* No specific protocol is enforced by a port (2_Ports_and_SimoSim), but   *)
(* ping and pong keep one, whatever their periods and in whichever order   *)
(* their events fall on one tick: a pong answers a ping once, a ping waits *)
(* for its answer, and so no message is replaced by the next.              *)
MessagesPaired ==
    \A m, q \in Modules :
        type[m] = "PingModule" /\ type[q] = "PongModule" /\ Pair(m, q) =>
            /\ count[q] <= count[m] /\ count[m] <= count[q] + 1
            /\ box[m] => count[m] = count[q] + 1
            /\ box[q] => count[m] = count[q]

(* The log holds a line for each thing counted when the level configured   *)
(* lets it through, whatever the order of set-up leaves behind, and none   *)
(* otherwise, or when a player's log did not open; the line names its      *)
(* level.                                                                  *)
LoggedExact ==
    \A m \in Modules :
        lines[m] = IF /\ type[m] \in {"FirstModule"} \cup Players /\ level[m] <= INFO
                      /\ Plays(m) => logger[m].enabled
                   THEN count[m] ELSE 0

(* An assertion fails only in a module that schedules itself beyond the    *)
(* end of time, or whose period is zero and, through Parameters::set(),    *)
(* has no validator.                                                       *)
AbortsOnlyAtEnd ==
    pc = "aborted" =>
        LET m == task[Len(task)][1]
        IN  \/ currentTime + Picoseconds(m) >= Pow2[NUM_BITS]
            \/ Picoseconds(m) = 0 /\ ~validated[m]
=============================================================================
