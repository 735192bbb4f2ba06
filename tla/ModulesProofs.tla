---------------------------- MODULE ModulesProofs ----------------------------
(***************************************************************************)
(* What holds of the modules in a Context for every width of tick, any     *)
(* number of modules, of any classes, periods, levels and connections, and *)
(* any program that keeps the contract of the scheduler.                   *)
(***************************************************************************)
EXTENDS Modules, ContextProofs

FunctionNames == {"update_state", "try_send"}
Call    == Modules \X FunctionNames
CallsOf(m) == {Calls(m)[k] : k \in 1..Len(Calls(m))}

(* initialize() of the module has been called. *)
Entered(m) ==
    \/ pc = "module" /\ m <= pos
    \/ pc = "push" \/ state # "INITIALIZATION"

(* A call that is to be scheduled, and one that has been or is to be.      *)
Owing(c) == \E i \in 1..Len(owed) : owed[i] = c
Begun(c) == Owing(c) \/ \E i \in 1..Len(task) : task[i] = c

-----------------------------------------------------------------------------
(* The program and the code that runs. *)

ProgramInv ==
    /\ modules <= MaxModules /\ (pc = "module" => pos <= modules)
    /\ pc # "idle" \/ state # "INITIALIZATION" => modules = MaxModules
    /\ pc # "undefined"
    /\ pc = "start" \/ (inRun /\ pc \in {"module", "push"}) => currentTime < finalTime

OwedInv ==
    /\ pc = "module" =>
         \/ owed = <<>>
         \/ 0 < pos /\ owed = Calls(pos)
         \/ 0 < pos /\ Plays(pos) /\ owed = <<<<pos, "try_send">>>>
    /\ pc = "tick" => owed = <<>> \/ \E c \in Call : owed = <<c>>
    /\ pc \notin {"module", "tick"} => owed = <<>>

TaskInv ==
    /\ type \in [Modules -> Classes] /\ period \in [Modules -> Periods \cup {None}]
    /\ validated \in [Modules -> BOOLEAN] /\ level \in [Modules -> LevelNames]
    /\ \A m \in Modules :
          /\ Periodic(m) /\ ~validated[m] => period[m] # None
          /\ type[m] = "RootModule" => ~validated[m]
    /\ task \in Seq(Call \cup {None}) /\ (pc # "aborted" => Len(task) = Len(target))

(* A module that has begun has been called, passed its check and began     *)
(* with all its functions.                                                 *)
BegunInv ==
    \A m \in Modules, f \in FunctionNames : Begun(<<m, f>>) =>
        /\ Entered(m) /\ Check(m) /\ Periodic(m)
        /\ <<m, f>> \in CallsOf(m)
        /\ \A c \in CallsOf(m) : Begun(c)

BaseInv == ProgramInv /\ OwedInv /\ TaskInv /\ BegunInv

-----------------------------------------------------------------------------
(* The status. *)

(* The module works, or is about to. *)
Starts(m) ==
    IF Periodic(m) THEN \A c \in CallsOf(m) : Begun(c)
    ELSE children[m] = 1 /\ \A i \in 1..Len(errors) : errors[i] # Nested(m)

Failed == {m \in Modules : Entered(m) /\ ~Starts(m)}

StatusInv ==
    /\ errors \in Seq((Modules \X {0, 1}) \cup {None})
    /\ children \in [Modules -> 0..1]
    /\ Len(errors) = Cardinality(Failed) /\ (success <=> Failed = {})
    /\ \A m \in Modules : ~Entered(m) =>
          children[m] = 0 /\ \A i \in 1..Len(errors) : errors[i] # Nested(m)

-----------------------------------------------------------------------------
(* The log. *)

LoggerInv ==
    \A m \in Modules :
        /\ logger[m] \in {NewLogger, Leveled(OpenLogger, level[m]), Leveled(NewLogger, level[m])}
        /\ (\E f \in FunctionNames : Begun(<<m, f>>)) =>
              /\ type[m] = "FirstModule" => logger[m] = Leveled(OpenLogger, level[m])
              /\ Plays(m) => logger[m] # NewLogger
        /\ ~Entered(m) => count[m] = 0
        /\ ~Plays(m) /\ type[m] # "FirstModule" => logger[m] = NewLogger

CountTypes ==
    /\ logger \in [Modules -> [enabled : BOOLEAN, names : 0..WARNING + 1, threshold : LogLevel]]
    /\ count \in [Modules -> Nat] /\ lines \in [Modules -> Nat]
    /\ partner \in [Modules -> Modules \cup {None}]
    /\ box \in [Modules -> BOOLEAN] /\ startSend \in [Modules -> BOOLEAN]
    /\ sendMessage \in [Modules -> BOOLEAN]

-----------------------------------------------------------------------------
(* When the functions run. *)

(* The first event of a function. *)
FirstAt(c) == IF c[2] = "try_send" THEN Picoseconds(c[1]) \div 2 ELSE 0

Resuming(c)  == pc = "tick" /\ owed = <<c>>
Beginning(c) == pc = "module" /\ Owing(c)

(* The events of a function: one runs, or waits, and the others have run.  *)
Copies(c) == {e \in Issued : task[e] = c}
Done(c)   == Copies(c) \cap Called
Left(c)   == Copies(c) \ Called
Runs(c)   == Cardinality(Done(c)) - (IF Resuming(c) THEN 1 ELSE 0)
NextAt(c) == FirstAt(c) + Runs(c) * Picoseconds(c[1])

RoundsInv ==
    \A c \in Call : Begun(c) =>
        /\ Runs(c) \in Nat
        /\ Beginning(c) => Copies(c) = {}
        /\ Resuming(c)  => Left(c) = {} /\ NextAt(c) = currentTime
        /\ ~Beginning(c) /\ ~Resuming(c) =>
              \E e \in Issued : Left(c) = {e} /\ target[e] = NextAt(c)
        /\ currentTime <= NextAt(c) /\ NextAt(c) <= currentTime + Picoseconds(c[1])

-----------------------------------------------------------------------------
(* The messages. *)

Update(m) == <<m, "update_state">>
Send(m)   == <<m, "try_send">>

(* update_state() has run and try_send() has not: a message is on its way  *)
(* out, or not.                                                            *)
Loaded(m) == Begun(Send(m)) /\ Runs(Update(m)) = Runs(Send(m)) + 1
Sending(m) == Loaded(m) /\ sendMessage[m]

(* A player looks, sends, looks: with a period of one as well, where both  *)
(* events wait for the same tick, the one that looks before the other.  A  *)
(* period of zero ends the program before its first round does.            *)
TurnInv ==
    \A m \in Modules : Begun(Send(m)) =>
        /\ Runs(Update(m)) = Runs(Send(m)) \/ Runs(Update(m)) = Runs(Send(m)) + 1
        /\ Resuming(Update(m)) => Runs(Update(m)) = Runs(Send(m))
        /\ Resuming(Send(m)) => Runs(Update(m)) = Runs(Send(m)) + 1
        /\ \A e \in Left(Update(m)), f \in Left(Send(m)) : target[e] = target[f] => e < f
        /\ Picoseconds(m) = 0 => Runs(Update(m)) = 0

(* Nothing has happened before the first event. *)
QuietInv ==
    /\ state = "INITIALIZATION" => executed = <<>>
    /\ pc = "tick" /\ owed # <<>> => executed # <<>>
    /\ executed = <<>> =>
          \A m \in Modules :
              /\ box[m] = FALSE /\ sendMessage[m] = FALSE /\ count[m] = 0
              /\ startSend[m] <=> type[m] = "PingModule"
    /\ \A m \in Modules : startSend[m] => type[m] = "PingModule"
    /\ \A m \in Modules : partner[m] # None =>
          Plays(m) /\ Begun(Send(m)) /\ Begun(Send(partner[m]))

(* The one message of a ping m and a pong q is where it is: not sent yet,  *)
(* in the ping's box, in the pong's hands, in the pong's box, or in the    *)
(* ping's hands.                                                           *)
Token(m, q) ==
    \/ startSend[m] /\ ~box[m] /\ ~box[q] /\ ~Sending(q) /\ count[m] = 0 /\ count[q] = 0
    \/ /\ ~startSend[m] /\ count[m] = count[q] + 1
       /\ \/ box[m] /\ ~box[q] /\ ~Sending(m) /\ ~Sending(q)
          \/ ~box[m] /\ ~box[q] /\ ~Sending(m) /\ Sending(q)
    \/ /\ ~startSend[m] /\ count[m] = count[q]
       /\ \/ ~box[m] /\ box[q] /\ ~Sending(m) /\ ~Sending(q)
          \/ ~box[m] /\ ~box[q] /\ Sending(m) /\ ~Sending(q)

Couple(m, q) == type[m] = "PingModule" /\ type[q] = "PongModule" /\ Pair(m, q)

TokenInv == \A m, q \in Modules : Couple(m, q) => Token(m, q)
StartInv == \A m \in Modules : Plays(m) /\ Loaded(m) /\ startSend[m] => sendMessage[m]

-----------------------------------------------------------------------------
(* The counts. *)

CountInv ==
    \A m \in Modules : Begun(Update(m)) /\ ~Plays(m) =>
        count[m] = Runs(Update(m)) + (IF Resuming(Update(m)) THEN 1 ELSE 0)

AloneInv ==
    \A m \in Modules : Begun(Send(m)) /\ Alone(m) =>
        /\ count[m] = IF type[m] = "PingModule" /\ Runs(Send(m)) > 0 THEN 1 ELSE 0
        /\ startSend[m] <=> type[m] = "PingModule" /\ Runs(Send(m)) = 0
        /\ Loaded(m) => (sendMessage[m] <=> startSend[m])

(* In step, a ping m sends in even rounds and its pong q in odd ones; i, j *)
(* say how often m and q have been asked to send, k, l to look.            *)
InRounds(m, q, i, j, k, l) ==
    /\ startSend[m] <=> i = 0
    /\ count[m] = (i + 1) \div 2 /\ count[q] = j \div 2
    /\ Loaded(m) => (sendMessage[m] <=> i % 2 = 0)
    /\ Loaded(q) => (sendMessage[q] <=> j % 2 = 1)
    /\ box[m] <=> i % 2 = 1 /\ l = i
    /\ box[q] <=> j % 2 = 0 /\ j > 0 /\ k = j

InStepInv ==
    \A m, q \in Modules : Couple(m, q) /\ period[m] = period[q] /\ Picoseconds(m) > 1 =>
        InRounds(m, q, Runs(Send(m)), Runs(Send(q)), Runs(Update(m)), Runs(Update(q)))

RunInv ==
    pc # "aborted" =>
        RoundsInv /\ TurnInv /\ TokenInv /\ StartInv /\ CountInv /\ AloneInv /\ InStepInv

-----------------------------------------------------------------------------
(* What a configuration gives. *)

(* A periodic module that passes its check has a period, whether or not    *)
(* the period is validated.                                                *)
LEMMA CheckFacts ==
    ASSUME TaskInv, NEW m \in Modules
    PROVE  /\ Check(m) \in BOOLEAN /\ (~Periodic(m) => Check(m))
           /\ Periodic(m) /\ Check(m) => period[m] # None
           /\ Check(m) /\ validated[m] => Picoseconds(m) > 1
<1>0. validated[m] \in BOOLEAN
  BY DEF TaskInv
<1>1. /\ Periodic(m) /\ ~validated[m] => period[m] # None
      /\ type[m] = "RootModule" => ~validated[m]
  BY Zenon DEF TaskInv
<1>2. Check(m) <=> (validated[m] => period[m] # None /\ Picoseconds(m) > 1)
  BY DEF Check
<1>3. Check(m) \in BOOLEAN
  BY DEF Check
<1>4. ~Periodic(m) => ~validated[m]
  BY <1>1 DEF Periodic
<1>5. QED BY <1>0, <1>1, <1>2, <1>3, <1>4

(* A period is a tick. *)
LEMMA PicosecondsFacts ==
    ASSUME TaskInv, NEW m \in Modules, period[m] # None
    PROVE  /\ Picoseconds(m) \in Times /\ Picoseconds(m) \in Nat /\ Picoseconds(m) < Pow2[NUM_BITS]
           /\ Meant(m) \in Nat /\ (Meant(m) < Pow2[NUM_BITS] => Picoseconds(m) = Meant(m))
<1>1. PICK a \in Nat, u \in T!Unit : period[m] = <<a, u>>
  <2>1. period[m] \in Periods
    BY DEF TaskInv
  <2>2. QED BY <2>1, ModulesAssumption
<1>2. T!Scale[u] \in Nat
  <2>1. Kilo \in Nat /\ Kilo * Kilo \in Nat /\ Kilo * Kilo * Kilo \in Nat /\ Kilo * Kilo * Kilo * Kilo \in Nat
    BY ModulesAssumption
  <2>2. u \in 0..4
    BY DEF T!Unit
  <2>3. QED BY <2>1, <2>2 DEF T!Scale, T!Unit
<1>3. PICK n \in Nat : n = a * T!Scale[u]
  BY <1>2
<1>4. Pow2[NUM_BITS] \in Nat \ {0} /\ Times = 0..(Pow2[NUM_BITS] - 1)
  BY Pow2Positive, NumBitsAssumption DEF Buckets, Times, Values
<1>5. Picoseconds(m) = n % Pow2[NUM_BITS] /\ Meant(m) = n
  BY <1>1, <1>3 DEF Picoseconds, Meant, T!Parsed, T!Of, T!Meant
<1>6. n % Pow2[NUM_BITS] \in 0..(Pow2[NUM_BITS] - 1) /\ (n < Pow2[NUM_BITS] => n % Pow2[NUM_BITS] = n)
  BY <1>4
<1>7. QED BY <1>4, <1>5, <1>6

(* The functions of the classes. *)
LEMMA CallsFacts ==
    ASSUME NEW m \in Modules
    PROVE  /\ Plays(m) => Calls(m) = <<Update(m), Send(m)>> /\ CallsOf(m) = {Update(m), Send(m)}
           /\ ~Plays(m) /\ Periodic(m) => Calls(m) = <<Update(m)>> /\ CallsOf(m) = {Update(m)}
           /\ ~Periodic(m) => Calls(m) = <<>> /\ CallsOf(m) = {} /\ ~Plays(m)
           /\ Update(m) \in Call /\ Send(m) \in Call /\ Update(m) # Send(m)
           /\ CallsOf(m) \subseteq Call
<1>1. Update(m) \in Call /\ Send(m) \in Call /\ Update(m) # Send(m)
  BY DEF Update, Send, Call, FunctionNames
<1>2. CASE Plays(m)
  <2>1. Functions(m) = <<"update_state", "try_send">> /\ Periodic(m)
    BY <1>2 DEF Functions, Plays, Players, Periodic
  <2>2. Calls(m) = <<Update(m), Send(m)>>
    BY <2>1 DEF Calls, Update, Send
  <2>3. CallsOf(m) = {Update(m), Send(m)}
    BY <2>2 DEF CallsOf
  <2>4. QED BY <1>1, <1>2, <2>1, <2>2, <2>3
<1>3. CASE ~Plays(m) /\ Periodic(m)
  <2>1. Functions(m) = <<"update_state">>
    BY <1>3 DEF Functions
  <2>2. Calls(m) = <<Update(m)>>
    BY <2>1 DEF Calls, Update
  <2>3. CallsOf(m) = {Update(m)}
    BY <2>2 DEF CallsOf
  <2>4. QED BY <1>1, <1>3, <2>2, <2>3
<1>4. CASE ~Periodic(m)
  <2>1. Functions(m) = <<>> /\ ~Plays(m)
    BY <1>4 DEF Functions, Plays, Players, Periodic
  <2>2. Calls(m) = <<>>
    BY <2>1 DEF Calls
  <2>3. CallsOf(m) = {}
    BY <2>2 DEF CallsOf
  <2>4. QED BY <1>1, <1>4, <2>1, <2>2, <2>3
<1>5. QED BY <1>2, <1>3, <1>4

LEMMA CallsOfFacts ==
    ASSUME NEW m \in Modules
    PROVE  /\ \A c \in CallsOf(m) : c[1] = m /\ Periodic(m) /\ (c = Update(m) \/ c = Send(m))
           /\ Update(m)[1] = m /\ Send(m)[1] = m
           /\ Update(m)[2] = "update_state" /\ Send(m)[2] = "try_send"
           /\ \A c \in Call : c[1] = m => c = Update(m) \/ c = Send(m)
<1>1. Update(m)[1] = m /\ Send(m)[1] = m /\ Update(m)[2] = "update_state" /\ Send(m)[2] = "try_send"
  BY DEF Update, Send
<1>2. \A c \in CallsOf(m) : Periodic(m) /\ (c = Update(m) \/ c = Send(m))
  BY CallsFacts DEF Periodic, Plays, Players
<1>3. \A c \in Call : c[1] = m => c = Update(m) \/ c = Send(m)
  BY DEF Call, FunctionNames, Update, Send
<1>4. QED BY <1>1, <1>2, <1>3

(* What is owed: one call, or the two of a player that initializes. *)
LEMMA OwedShape ==
    ASSUME OwedInv, owed # <<>>, pos \in Nat, pc = "module" => pos <= MaxModules
    PROVE  /\ pc \in {"module", "tick"}
           /\ Head(owed) \in Call /\ Begun(Head(owed)) /\ Owing(Head(owed))
           /\ pc = "module" => pos \in Modules /\ Head(owed)[1] = pos
           /\ \/ /\ owed = <<Head(owed)>> /\ Tail(owed) = <<>>
                 /\ \A c : Owing(c) <=> c = Head(owed)
              \/ /\ pc = "module" /\ Plays(pos) /\ Head(owed) = Update(pos)
                 /\ owed = <<Update(pos), Send(pos)>> /\ Tail(owed) = <<Send(pos)>>
                 /\ \A c : Owing(c) <=> c = Update(pos) \/ c = Send(pos)
<1>1. pc \in {"module", "tick"}
  BY DEF OwedInv
<1>2. ASSUME NEW c \in Call, owed = <<c>>, pc = "module" => pos \in Modules /\ c[1] = pos
      PROVE  /\ Head(owed) = c /\ Tail(owed) = <<>> /\ owed = <<Head(owed)>>
             /\ \A d : Owing(d) <=> d = Head(owed)
  BY <1>2 DEF Owing
<1>3. CASE pc = "module"
  <2>1. pos \in Modules
    BY <1>3, BoundsAssumption DEF Modules, OwedInv
  <2>2. \/ owed = <<Update(pos), Send(pos)>> /\ Plays(pos)
        \/ owed = <<Update(pos)>>
        \/ owed = <<Send(pos)>>
    BY <1>3, <2>1, CallsFacts DEF OwedInv, Send
  <2>3. Update(pos) \in Call /\ Send(pos) \in Call /\ Update(pos)[1] = pos /\ Send(pos)[1] = pos
    BY <2>1, CallsFacts DEF Update, Send
  <2>4. CASE owed = <<Update(pos), Send(pos)>> /\ Plays(pos)
    <3>1. Head(owed) = Update(pos) /\ Tail(owed) = <<Send(pos)>>
      BY <2>4
    <3>2. \A c : Owing(c) <=> c = Update(pos) \/ c = Send(pos)
      BY <2>4 DEF Owing
    <3>3. QED BY <1>3, <2>1, <2>3, <2>4, <3>1, <3>2 DEF Begun
  <2>5. CASE owed = <<Update(pos)>>
    BY <1>2, <1>3, <2>1, <2>3, <2>5 DEF Begun
  <2>6. CASE owed = <<Send(pos)>>
    BY <1>2, <1>3, <2>1, <2>3, <2>6 DEF Begun
  <2>7. QED BY <2>2, <2>4, <2>5, <2>6
<1>4. CASE pc = "tick"
  <2>1. PICK c \in Call : owed = <<c>>
    BY <1>4 DEF OwedInv
  <2>2. QED BY <1>2, <1>4, <2>1 DEF Begun
<1>5. QED BY <1>1, <1>3, <1>4

-----------------------------------------------------------------------------
(* The steps of the program are steps of the scheduler. *)

LEMMA PosFacts ==
    ASSUME SchedulerInv, ProgramInv
    PROVE  /\ pos \in Nat /\ modules \in Nat /\ (pc = "module" => pos <= MaxModules)
           /\ currentTime \in Times /\ currentTime \in Nat /\ TypeOK
           /\ pc \in {"module", "push"} => state = "INITIALIZATION"
           /\ pc \in {"start", "loop", "tick"} => state # "INITIALIZATION"
<1>1. TypeOK /\ InitializesFirst /\ Initialized
  BY DEF SchedulerInv, ClockInv, OnceInv, TickInv
<1>2. pos \in Nat /\ modules \in Nat /\ currentTime \in Times /\ currentTime \in Nat
  BY <1>1, TimesFacts DEF TypeOK
<1>3. pc = "module" => pos <= MaxModules
  BY <1>2, BoundsAssumption DEF ProgramInv
<1>4. QED BY <1>1, <1>2, <1>3 DEF InitializesFirst, Initialized

(* The module that schedules has a period. *)
LEMMA HeadFacts ==
    ASSUME SchedulerInv, BaseInv, owed # <<>>, NEW c, c = Head(owed)
    PROVE  /\ c \in Call /\ c[1] \in Modules /\ c = <<c[1], c[2]>> /\ c[2] \in FunctionNames
           /\ c \in CallsOf(c[1]) /\ Entered(c[1]) /\ Begun(c) /\ Owing(c)
           /\ period[c[1]] # None /\ Check(c[1]) /\ Periodic(c[1])
           /\ Picoseconds(c[1]) \in Times /\ Picoseconds(c[1]) \in Nat
           /\ Picoseconds(c[1]) < Pow2[NUM_BITS]
           /\ FirstAt(c) \in Times /\ FirstAt(c) \in Nat /\ FirstAt(c) <= Picoseconds(c[1])
<1>1. c \in Call /\ Begun(c) /\ Owing(c)
  BY PosFacts, OwedShape DEF BaseInv
<1>2. c[1] \in Modules /\ c = <<c[1], c[2]>> /\ c[2] \in FunctionNames
  BY <1>1 DEF Call
<1>3. c \in CallsOf(c[1]) /\ Entered(c[1]) /\ Check(c[1]) /\ Periodic(c[1])
  BY <1>1, <1>2 DEF BaseInv, BegunInv
<1>4. period[c[1]] # None
  BY <1>2, <1>3, CheckFacts DEF BaseInv
<1>5. /\ Picoseconds(c[1]) \in Times /\ Picoseconds(c[1]) \in Nat
      /\ Picoseconds(c[1]) < Pow2[NUM_BITS]
  BY <1>2, <1>4, PicosecondsFacts DEF BaseInv
<1>6. FirstAt(c) \in Nat /\ FirstAt(c) <= Picoseconds(c[1])
  BY <1>5 DEF FirstAt
<1>7. FirstAt(c) \in Times
  <2>1. Times = 0..(Pow2[NUM_BITS] - 1) /\ Pow2[NUM_BITS] \in Nat
    BY Pow2Positive, NumBitsAssumption DEF Buckets, Times, Values
  <2>2. QED BY <1>5, <1>6, <2>1
<1>8. QED BY <1>1, <1>2, <1>3, <1>4, <1>5, <1>6, <1>7

(* The first call of a function. *)
LEMMA SchedulesFirstFacts ==
    ASSUME SchedulerInv, BaseInv, SchedulesFirst, NEW c, c = Head(owed)
    PROVE  /\ pc = "module" /\ owed # <<>> /\ ScheduleAt(FirstAt(c)) /\ Future(FirstAt(c))
           /\ target' = Append(target, FirstAt(c))
           /\ task' = Append(task, c) /\ owed' = Tail(owed)
           /\ UNCHANGED <<state, currentTime, modules, control, executed>>
           /\ UNCHANGED <<configuration, setup, partner, reported, messages>>
<1>1. /\ pc = "module" /\ owed # <<>> /\ task' = Append(task, c) /\ owed' = Tail(owed)
      /\ UNCHANGED <<configuration, setup, partner, reported, messages>>
  BY DEF SchedulesFirst, Owes
<1>2. ScheduleAt(FirstAt(c))
  BY DEF SchedulesFirst, FirstAt
<1>3. FirstAt(c) \in Times
  BY <1>1, HeadFacts
<1>4. Future(FirstAt(c))
  BY <1>1, PosFacts DEF BaseInv, Future
<1>5. QED BY <1>1, <1>2, <1>3, <1>4, FutureEnqueues

(* A function that schedules itself again: a period later, if that is in   *)
(* the word.                                                               *)
LEMMA SchedulesNextFacts ==
    ASSUME SchedulerInv, BaseInv, SchedulesNext, Client = "ordered",
           NEW c, c = Head(owed), NEW p, p = Picoseconds(c[1])
    PROVE  /\ pc = "tick" /\ owed = <<c>> /\ owed # <<>>
           /\ task' = Append(task, c) /\ owed' = <<>>
           /\ UNCHANGED <<configuration, setup, partner>>
           /\ UNCHANGED <<state, currentTime, modules, pos, success, inRun, finalTime, returned, executed>>
           /\ \/ /\ pc' = "aborted" /\ ~Future(Plus(currentTime, p))
                 /\ UNCHANGED <<target, messages, reported>>
              \/ /\ pc' = pc /\ p > 0 /\ currentTime + p \in Times
                 /\ ScheduleAt(currentTime + p) /\ Future(currentTime + p)
                 /\ target' = Append(target, currentTime + p)
                 /\ Resumes(c[1], c[2])
<1>1. /\ pc = "tick" /\ owed # <<>> /\ task' = Append(task, c) /\ owed' = Tail(owed)
      /\ ScheduleAt(Plus(currentTime, p)) /\ Resumes(c[1], c[2])
      /\ UNCHANGED <<configuration, setup, partner>>
  BY DEF SchedulesNext, Owes, ScheduleIn
<1>2. owed = <<c>> /\ Tail(owed) = <<>>
  BY <1>1, PosFacts, OwedShape DEF BaseInv
<1>3. /\ p \in Times /\ p \in Nat /\ p < Pow2[NUM_BITS]
      /\ currentTime \in Times /\ currentTime \in Nat
  BY <1>1, HeadFacts, PosFacts DEF BaseInv
<1>4. Plus(currentTime, p) \in Times
  BY <1>3, TimesFacts
<1>5. CASE AssertionFails
  <2>1. /\ pc' = "aborted" /\ UNCHANGED <<members, pos, success, inRun, finalTime, returned, target, executed>>
    BY <1>5 DEF AssertionFails
  <2>2. ~Future(Plus(currentTime, p))
    <3>1. SUFFICES ASSUME Future(Plus(currentTime, p)) PROVE FALSE
      OBVIOUS
    <3>2. UNCHANGED control
      BY <1>1, <1>4, <3>1, FutureEnqueues
    <3>3. QED BY <1>1, <2>1, <3>2 DEF control
  <2>3. UNCHANGED <<messages, reported>>
    BY <1>1, <2>1 DEF Resumes
  <2>4. QED BY <1>1, <1>2, <2>1, <2>2, <2>3 DEF members
<1>6. CASE ~AssertionFails
  <2>1. Future(Plus(currentTime, p))
    BY <1>1, <1>4, <1>6, ScheduleOutcome
  <2>2. /\ target' = Append(target, Plus(currentTime, p))
        /\ UNCHANGED <<state, currentTime, modules, control, executed>>
    BY <1>1, <1>4, <2>1, FutureEnqueues
  <2>3. state # "INITIALIZATION"
    BY <1>1, PosFacts DEF BaseInv
  <2>4. currentTime < Plus(currentTime, p)
    BY <2>1, <2>3 DEF Future
  <2>5. Plus(currentTime, p) = currentTime + p /\ p > 0
    <3>1. Pow2[NUM_BITS] \in Nat \ {0} /\ Times = 0..(Pow2[NUM_BITS] - 1)
      BY Pow2Positive, NumBitsAssumption DEF Buckets, Times, Values
    <3>2. PICK S \in Nat \ {0} : S = Pow2[NUM_BITS]
      BY <3>1
    <3>3. currentTime < S /\ p < S
      BY <1>3, <3>1, <3>2
    <3>4. CASE currentTime + p < S
      <4>1. (currentTime + p) % S = currentTime + p
        BY <1>3, <3>2, <3>4
      <4>2. QED BY <1>3, <2>4, <3>2, <4>1 DEF Plus
    <3>5. CASE currentTime + p >= S
      <4>1. (currentTime + p) % S = currentTime + p - S
        BY <1>3, <3>2, <3>3, <3>5
      <4>2. QED BY <1>3, <2>4, <3>2, <3>3, <4>1 DEF Plus
    <3>6. QED BY <1>3, <3>2, <3>4, <3>5
  <2>6. QED BY <1>1, <1>2, <1>4, <2>1, <2>2, <2>5 DEF control
<1>7. QED BY <1>5, <1>6

LEMMA ModulesCalls ==
    BaseInv /\ SchedulerInv /\ [ModulesNext]_allVars => [Next]_vars
<1> SUFFICES ASSUME BaseInv, SchedulerInv, ModulesNext PROVE [Next]_vars
  BY DEF allVars
<1>1. CASE MainAdds \/ MainInitializes
  BY <1>1 DEF MainAdds, MainInitializes, Next, Callers
<1>2. CASE \E t \in Times : MainSchedules(t) \/ MainRuns(t)
  BY <1>2 DEF MainSchedules, MainRuns, Next, Callers
<1>3. ASSUME NEW m \in Modules, NEW q \in Modules, MainConnects(m, q) PROVE [Next]_vars
  BY <1>3 DEF MainConnects
<1>4. ASSUME NEW m \in Modules, ModuleInitializes(m) PROVE Next
  <2>0. Check(m) \in BOOLEAN
    BY CheckFacts DEF BaseInv
  <2>1. PICK ok \in BOOLEAN : InitializeModule(ok)
    BY <1>4, <2>0 DEF ModuleInitializes, FirstModuleInitializes, TestModuleInitializes,
                RootModuleInitializes, PlayerInitializes, Returns
  <2>2. QED BY <2>1 DEF Next, Library
<1>5. CASE SchedulesFirst
  <2>1. PICK t \in Times : ScheduleAt(t)
    BY <1>5, SchedulesFirstFacts, HeadFacts
  <2>2. QED BY <2>1 DEF Next, Callers
<1>6. CASE SchedulesNext
  <2>1. PICK t \in Times : ScheduleIn(t)
    BY <1>6, HeadFacts DEF SchedulesNext, Owes
  <2>2. QED BY <2>1 DEF Next, Callers
<1>7. CASE CallEvent \/ Schedules
  BY <1>7 DEF CallEvent, Schedules, Next, Library
<1>8. QED BY <1>1, <1>2, <1>3, <1>4, <1>5, <1>6, <1>7 DEF ModulesNext

-----------------------------------------------------------------------------
(* What a step of the program does to what has begun. *)

(* What the configuration says does not change. *)
LEMMA ConfigurationFrame ==
    ASSUME UNCHANGED configuration
    PROVE  /\ \A m \in Modules :
                /\ Check(m)' <=> Check(m)
                /\ Periodic(m)' <=> Periodic(m)
                /\ Plays(m)' <=> Plays(m)
                /\ Calls(m)' = Calls(m)
                /\ CallsOf(m)' = CallsOf(m)
                /\ Picoseconds(m)' = Picoseconds(m)
           /\ \A c \in Call : FirstAt(c)' = FirstAt(c)
<1>1. UNCHANGED <<type, period, validated, level>>
  BY DEF configuration
<1>2. \A m \in Modules : Picoseconds(m)' = Picoseconds(m)
  BY <1>1 DEF Picoseconds
<1>3. \A m \in Modules : (Periodic(m)' <=> Periodic(m)) /\ (Plays(m)' <=> Plays(m))
  BY <1>1 DEF Periodic, Plays
<1>4. \A m \in Modules : Check(m)' <=> Check(m)
  BY <1>1, <1>2, <1>3 DEF Check
<1>5. \A m \in Modules : Calls(m)' = Calls(m)
  BY <1>3 DEF Calls, Functions
<1>6. \A m \in Modules : CallsOf(m)' = CallsOf(m)
  BY <1>5 DEF CallsOf
<1>7. \A c \in Call : FirstAt(c)' = FirstAt(c)
  BY <1>2 DEF FirstAt, Call
<1>8. QED BY <1>2, <1>3, <1>4, <1>5, <1>6, <1>7

(* A call that is scheduled goes from what is owed to the tasks. *)
LEMMA OwedToTask ==
    ASSUME SchedulerInv, BaseInv, owed # <<>>, NEW h, h = Head(owed),
           task' = Append(task, h), owed' = Tail(owed)
    PROVE  /\ \A c \in Call : Begun(c)' <=> Begun(c)
           /\ \A c \in Call : Owing(c)' <=> Owing(c) /\ c # h
           /\ task' \in Seq(Call \cup {None}) /\ Len(task') = Len(task) + 1
           /\ task'[Len(task) + 1] = h /\ \A i \in 1..Len(task) : task'[i] = task[i]
           /\ Len(task) \in Nat
<1>1. task \in Seq(Call \cup {None}) /\ h \in Call
  BY HeadFacts DEF BaseInv, TaskInv
<1>2. /\ task' \in Seq(Call \cup {None}) /\ Len(task') = Len(task) + 1 /\ Len(task) \in Nat
      /\ task'[Len(task) + 1] = h /\ \A i \in 1..Len(task) : task'[i] = task[i]
  BY <1>1, AppendProperties, LenProperties
<1>3. \A c \in Call : (\E i \in 1..Len(task') : task'[i] = c) <=> c = h \/ (\E i \in 1..Len(task) : task[i] = c)
  BY <1>2
<1>4. \A c \in Call : (Owing(c) <=> c = h \/ Owing(c)') /\ (Owing(c)' <=> Owing(c) /\ c # h)
  <2>1. CASE Tail(owed) = <<>>
    <3>1. \A c \in Call : ~Owing(c)'
      BY <2>1 DEF Owing
    <3>2. \A c \in Call : Owing(c) <=> c = h
      BY <2>1, PosFacts, OwedShape DEF BaseInv
    <3>3. QED BY <3>1, <3>2
  <2>2. CASE Tail(owed) # <<>>
    <3>0. pos \in Modules /\ Update(pos) # Send(pos)
      BY <2>2, PosFacts, OwedShape, CallsFacts DEF BaseInv
    <3>1. /\ h = Update(pos) /\ Tail(owed) = <<Send(pos)>>
          /\ \A c \in Call : Owing(c) <=> c = Update(pos) \/ c = Send(pos)
      BY <2>2, PosFacts, OwedShape DEF BaseInv
    <3>2. ASSUME NEW x, NEW s, s = <<x>> PROVE \A c : (\E i \in 1..Len(s) : s[i] = c) <=> c = x
      BY <3>2
    <3>3. owed' = <<Send(pos)>>
      BY <3>1
    <3>4. \A c : (\E i \in 1..Len(owed') : owed'[i] = c) <=> c = Send(pos)
      BY <3>2, <3>3, Zenon
    <3>5. \A c \in Call : Owing(c)' <=> c = Send(pos)
      BY <3>4, Zenon DEF Owing
    <3>6. QED BY <3>0, <3>1, <3>5
  <2>3. QED BY <2>1, <2>2
<1>5. QED BY <1>2, <1>3, <1>4 DEF Begun

(* A function of main() is no call of a module's. *)
LEMMA MainTask ==
    ASSUME BaseInv, UNCHANGED owed, task' = Append(task, None)
    PROVE  /\ \A c \in Call : Begun(c)' <=> Begun(c)
           /\ task' \in Seq(Call \cup {None}) /\ Len(task') = Len(task) + 1
           /\ task'[Len(task) + 1] = None /\ \A i \in 1..Len(task) : task'[i] = task[i]
           /\ Len(task) \in Nat
<1>1. task \in Seq(Call \cup {None})
  BY DEF BaseInv, TaskInv
<1>2. /\ task' \in Seq(Call \cup {None}) /\ Len(task') = Len(task) + 1 /\ Len(task) \in Nat
      /\ task'[Len(task) + 1] = None /\ \A i \in 1..Len(task) : task'[i] = task[i]
  BY <1>1, AppendProperties, LenProperties
<1>3. None \notin Call
  BY NoneAssumption DEF Call, Modules, FunctionNames
<1>4. \A c \in Call : (\E i \in 1..Len(task') : task'[i] = c) <=> (\E i \in 1..Len(task) : task[i] = c)
  BY <1>2, <1>3
<1>5. \A c \in Call : Owing(c)' <=> Owing(c)
  BY DEF Owing
<1>6. QED BY <1>2, <1>4, <1>5 DEF Begun

(* The event that is called is one that waits, and has a task. *)
LEMMA CallEventFacts ==
    ASSUME SchedulerInv, BaseInv, CallEvent
    PROVE  \E e \in Issued \ Called :
              /\ e \in 1..Len(task) /\ e \in Nat
              /\ target[e] = currentTime /\ executed' = Append(executed, e)
              /\ \A f \in Issued \ Called : currentTime < target[f] \/ e <= f
              /\ task[e] \in Call \cup {None}
              /\ pc = "tick" /\ pc' = "tick" /\ owed = <<>>
              /\ owed' = IF task[e] = None THEN <<>> ELSE <<task[e]>>
              /\ IF task[e] # None /\ ~Plays(task[e][1]) THEN Reports(task[e][1]) ELSE UNCHANGED reported
              /\ UNCHANGED <<state, currentTime, modules, inRun, finalTime, returned, success, target>>
              /\ UNCHANGED <<configuration, setup, task, partner, messages>>
<1> DEFINE e == scheduledTasks[currentTime][pos + 1]
<1>1. CallTask /\ pc = "tick" /\ pc' = "tick" /\ owed = <<>>
  BY DEF CallEvent, CallTask
<1>2. UNCHANGED <<state, currentTime, modules, inRun, finalTime, returned, success, target>>
  BY <1>1 DEF CallTask, members
<1>3. e \in 1..Len(target) /\ ES!Fire(e) /\ target[e] = currentTime /\ executed' = Append(executed, e)
  BY <1>1, CallFires DEF SchedulerInv, EventsHeld
<1>4. e \in Issued \ Called /\ \A f \in Issued \ Called : currentTime < target[f] \/ e <= f
  BY <1>3, WaitingIs DEF ES!Fire
<1>5. e \in 1..Len(task) /\ task[e] \in Call \cup {None} /\ e \in Nat
  <2>1. Len(task) = Len(target) /\ task \in Seq(Call \cup {None})
    BY <1>1 DEF BaseInv, TaskInv
  <2>2. e \in 1..Len(task)
    BY <1>3, <2>1
  <2>3. task[e] \in Call \cup {None}
    BY <2>1, <2>2, ElementOfSeq
  <2>4. QED BY <2>2, <2>3
<1>6. /\ owed' = IF task[e] = None THEN <<>> ELSE <<task[e]>>
      /\ IF task[e] # None /\ ~Plays(task[e][1]) THEN Reports(task[e][1]) ELSE UNCHANGED reported
      /\ UNCHANGED <<configuration, setup, task, partner, messages>>
  BY DEF CallEvent
<1>7. QED BY <1>1, <1>2, <1>3, <1>4, <1>5, <1>6

(* What initialize() of the module may have done: what it returned, the    *)
(* status Context keeps of it, and the logger.                             *)
Opened(m) == [logger EXCEPT ![m] = Leveled(OpenLogger, level[m])]
Closed(m) == [logger EXCEPT ![m] = Leveled(NewLogger, level[m])]

Outcome(m, ok) ==
    /\ success' = (success /\ ok)
    /\ owed' = IF ok THEN Calls(m) ELSE <<>>
    /\ ok => Check(m)
    /\ \E names \in {None, Itself(m), Nested(m)} :
          /\ errors' = IF ok THEN errors ELSE Append(errors, names)
          /\ IF Periodic(m) THEN names # Nested(m) /\ UNCHANGED children
             ELSE names = Nested(m) /\ children' = [children EXCEPT ![m] = @ + 1]
    /\ IF ok /\ (type[m] = "FirstModule" \/ Plays(m))
       THEN logger' = Opened(m) \/ (Plays(m) /\ logger' = Closed(m))
       ELSE UNCHANGED logger

(* initialize() of the module at pos. *)
LEMMA ModuleInitializesFacts ==
    ASSUME BaseInv, NEW m \in Modules, ModuleInitializes(m)
    PROVE  /\ pc = "module" /\ pc' = "module" /\ pos + 1 = m /\ pos' = m /\ pos < modules
           /\ owed = <<>>
           /\ UNCHANGED <<state, currentTime, modules, inRun, finalTime, returned, target, executed>>
           /\ UNCHANGED <<configuration, task, reported, partner, messages>>
           /\ \E ok \in BOOLEAN : Outcome(m, ok)
<1>1. /\ None # Nested(m) /\ Itself(m) # Nested(m) /\ type[m] \in Classes
      /\ Check(m) \in BOOLEAN /\ (~Periodic(m) => Check(m))
  <2>1. Nested(m) \in Nat \X Nat
    BY DEF Nested, Modules
  <2>2. Check(m) \in BOOLEAN /\ (~Periodic(m) => Check(m))
    BY CheckFacts DEF BaseInv
  <2>3. QED BY <2>1, <2>2, NoneAssumption DEF Nested, Itself, BaseInv, TaskInv
<1>2. /\ owed = <<>> /\ pos + 1 = m
      /\ \E ok \in BOOLEAN, names \in {None, Itself(m), Nested(m)} : Returns(m, ok, names) /\ Outcome(m, ok)
  <2>1. ASSUME NEW opens \in BOOLEAN, FirstModuleInitializes(m, opens)
        PROVE  \E ok \in BOOLEAN, names \in {None, Itself(m), Nested(m)} : Returns(m, ok, names) /\ Outcome(m, ok)
    <3> DEFINE ok == Check(m) /\ opens
               names == IF Check(m) THEN None ELSE Itself(m)
    <3>1. Returns(m, ok, names) /\ ok \in BOOLEAN /\ names \in {None, Itself(m), Nested(m)} /\ type[m] = "FirstModule"
      BY <1>1, <2>1 DEF FirstModuleInitializes
    <3>2. /\ logger' = IF ok THEN Opened(m) ELSE logger
          /\ UNCHANGED children
      BY <2>1 DEF FirstModuleInitializes, Opened
    <3>3. Periodic(m) /\ names # Nested(m)
      BY <1>1, <3>1 DEF Periodic
    <3>4. Outcome(m, ok)
      <4> ok => Check(m)
        OBVIOUS
      <4> HIDE DEF ok, names
      <4> QED BY <3>1, <3>2, <3>3 DEF Outcome, Returns, InitializeModule
    <3>5. QED BY <3>1, <3>4
  <2>2. ASSUME NEW opens \in BOOLEAN, PlayerInitializes(m, opens)
        PROVE  \E ok \in BOOLEAN, names \in {None, Itself(m), Nested(m)} : Returns(m, ok, names) /\ Outcome(m, ok)
    <3> DEFINE ok == Check(m)
    <3>1. Returns(m, ok, Itself(m)) /\ ok \in BOOLEAN /\ Plays(m)
      BY <1>1, <2>2 DEF PlayerInitializes
    <3>2. /\ IF ok THEN logger' = Opened(m) \/ logger' = Closed(m) ELSE UNCHANGED logger
          /\ UNCHANGED children
      BY <2>2 DEF PlayerInitializes, Opened, Closed
    <3>3. Periodic(m) /\ Itself(m) # Nested(m)
      BY <1>1, <3>1 DEF Periodic, Plays, Players
    <3>4. Outcome(m, ok)
      <4> ok => Check(m)
        OBVIOUS
      <4> HIDE DEF ok
      <4> QED BY <3>1, <3>2, <3>3 DEF Outcome, Returns, InitializeModule
    <3>5. QED BY <3>1, <3>4
  <2>3. ASSUME TestModuleInitializes(m)
        PROVE  \E ok \in BOOLEAN, names \in {None, Itself(m), Nested(m)} : Returns(m, ok, names) /\ Outcome(m, ok)
    <3> DEFINE ok == Check(m)
    <3>1. Returns(m, ok, Itself(m)) /\ ok \in BOOLEAN /\ type[m] = "TestModule"
      BY <1>1, <2>3 DEF TestModuleInitializes
    <3>2. UNCHANGED <<logger, children>>
      BY <2>3 DEF TestModuleInitializes
    <3>3. Periodic(m) /\ Itself(m) # Nested(m) /\ ~Plays(m) /\ type[m] # "FirstModule"
      BY <1>1, <3>1 DEF Periodic, Plays, Players
    <3>4. Outcome(m, ok)
      <4> ok => Check(m)
        OBVIOUS
      <4> HIDE DEF ok
      <4> QED BY <3>1, <3>2, <3>3 DEF Outcome, Returns, InitializeModule
    <3>5. QED BY <3>1, <3>4
  <2>4. ASSUME NEW ok \in BOOLEAN, RootModuleInitializes(m, ok)
        PROVE  \E o \in BOOLEAN, names \in {None, Itself(m), Nested(m)} : Returns(m, o, names) /\ Outcome(m, o)
    <3>1. Returns(m, ok, Nested(m)) /\ type[m] = "RootModule"
      BY <2>4 DEF RootModuleInitializes
    <3>2. UNCHANGED logger /\ children' = [children EXCEPT ![m] = @ + 1]
      BY <2>4 DEF RootModuleInitializes
    <3>3. ~Periodic(m) /\ ~Plays(m) /\ Check(m)
      BY <1>1, <3>1 DEF Periodic, Plays, Players
    <3>4. Outcome(m, ok)
      BY <3>1, <3>2, <3>3 DEF Outcome, Returns, InitializeModule
    <3>5. QED BY <3>1, <3>4
  <2>5. QED BY <2>1, <2>2, <2>3, <2>4 DEF ModuleInitializes
<1>3. PICK ok \in BOOLEAN, names \in {None, Itself(m), Nested(m)} : Returns(m, ok, names) /\ Outcome(m, ok)
  BY <1>2
<1>4. /\ pc = "module" /\ pos < modules /\ pos' = pos + 1 /\ pc' = pc
      /\ UNCHANGED <<members, inRun, finalTime, returned, target, executed>>
      /\ UNCHANGED <<configuration, task, reported, partner, messages>>
  BY <1>3 DEF Returns, InitializeModule
<1>5. QED BY <1>2, <1>3, <1>4 DEF members

LEMMA InitializesBegun ==
    ASSUME SchedulerInv, BaseInv, NEW m \in Modules, ModuleInitializes(m)
    PROVE  /\ ~Entered(m) /\ \A r \in Modules : Entered(r)' <=> Entered(r) \/ r = m
           /\ \A c \in Call : Begun(c)' <=> Begun(c) \/ (owed' # <<>> /\ c \in CallsOf(m))
           /\ \A c \in Call : c[1] = m => ~Begun(c)
<1>1. /\ pc = "module" /\ pc' = "module" /\ pos + 1 = m /\ pos' = m /\ owed = <<>>
      /\ UNCHANGED <<state, task>> /\ pos \in Nat /\ state = "INITIALIZATION"
  BY ModuleInitializesFacts, PosFacts DEF BaseInv
<1>2. m \in Nat /\ \A r \in Modules : r \in Nat
  BY DEF Modules
<1>3. ~Entered(m) /\ \A r \in Modules : Entered(r)' <=> Entered(r) \/ r = m
  BY <1>1, <1>2 DEF Entered
<1>4. owed' \in {<<>>, Calls(m)} /\ (owed' # <<>> => owed' = Calls(m))
  BY ModuleInitializesFacts DEF Outcome
<1>5. \A c : ~Owing(c)
  BY <1>1 DEF Owing
<1>6. owed' = <<>> => \A c : ~Owing(c)'
  BY DEF Owing
<1>7. owed' # <<>> => \A c : Owing(c)' <=> c \in CallsOf(m)
  BY <1>4 DEF Owing, CallsOf
<1>8. \A c \in Call : c[1] = m => ~Begun(c)
  BY <1>3 DEF BaseInv, BegunInv, Call
<1>9. \A c \in Call : Begun(c)' <=> Begun(c) \/ (owed' # <<>> /\ c \in CallsOf(m))
  BY <1>1, <1>5, <1>6, <1>7 DEF Begun
<1>10. QED BY <1>3, <1>8, <1>9

(* Any other step leaves alone what is configured, set up, entered and     *)
(* begun.                                                                  *)
LEMMA SetupFrame ==
    ASSUME SchedulerInv, BaseInv, Client = "ordered", [ModulesNext]_allVars,
           ~ \E m \in Modules : ModuleInitializes(m)
    PROVE  /\ UNCHANGED <<configuration, setup>>
           /\ \A m \in Modules : Entered(m)' <=> Entered(m)
           /\ \A c \in Call : Begun(c)' <=> Begun(c)
<1>1. ASSUME UNCHANGED <<owed, task>> PROVE \A c \in Call : Begun(c)' <=> Begun(c)
  BY <1>1 DEF Begun, Owing
<1>2. ASSUME UNCHANGED <<pc, pos, state>> PROVE \A m \in Modules : Entered(m)' <=> Entered(m)
  BY <1>2 DEF Entered
<1>3. \A m \in Modules : m \in Nat /\ m > 0 /\ m <= MaxModules
  BY BoundsAssumption DEF Modules
<1>4. \A m \in Modules : state # "INITIALIZATION" \/ pc = "push" => Entered(m)
  BY DEF Entered
<1>5. pos \in Nat /\ modules \in Nat /\ ProgramInv /\ (pc \in {"start", "loop", "tick"} => state # "INITIALIZATION")
  BY PosFacts DEF BaseInv
<1>6. CASE MainAdds
  <2>1. UNCHANGED <<ours, pc, pos, state>>
    BY <1>6 DEF MainAdds, AddModule, control
  <2>2. QED BY <1>1, <1>2, <2>1 DEF ours
<1>7. CASE MainInitializes
  <2>1. /\ UNCHANGED <<ours, state>> /\ pc = "idle" /\ state = "INITIALIZATION" /\ pc' = "module" /\ pos' = 0
    BY <1>7 DEF MainInitializes, Initialize, EnterInitialize, members
  <2>2. \A m \in Modules : ~Entered(m) /\ ~Entered(m)'
    BY <1>3, <2>1 DEF Entered
  <2>3. QED BY <1>1, <2>1, <2>2 DEF ours
<1>8. ASSUME NEW t \in Times, MainSchedules(t)
      PROVE  /\ UNCHANGED <<configuration, setup>>
             /\ \A m \in Modules : Entered(m)' <=> Entered(m)
             /\ \A c \in Call : Begun(c)' <=> Begun(c)
  <2>1. /\ UNCHANGED <<configuration, setup, owed, state, control>> /\ task' = Append(task, None)
    BY <1>8, FutureEnqueues DEF MainSchedules
  <2>2. QED BY <1>2, <2>1, MainTask DEF control
<1>9. ASSUME NEW t \in Times, MainRuns(t)
      PROVE  /\ UNCHANGED <<configuration, setup>>
             /\ \A m \in Modules : Entered(m)' <=> Entered(m)
             /\ \A c \in Call : Begun(c)' <=> Begun(c)
  <2>1. /\ UNCHANGED <<ours, state>> /\ pc = "idle"
        /\ \/ state = "INITIALIZATION" /\ pc' = "module" /\ pos' = 0
           \/ state # "INITIALIZATION"
    BY <1>9 DEF MainRuns, RunAt, EnterInitialize, members
  <2>2. \A m \in Modules : Entered(m)' <=> Entered(m)
    BY <1>3, <2>1 DEF Entered
  <2>3. QED BY <1>1, <2>1, <2>2 DEF ours
<1>10. ASSUME NEW m \in Modules, NEW q \in Modules, MainConnects(m, q)
       PROVE  /\ UNCHANGED <<configuration, setup>>
              /\ \A r \in Modules : Entered(r)' <=> Entered(r)
              /\ \A c \in Call : Begun(c)' <=> Begun(c)
  BY <1>1, <1>2, <1>10 DEF MainConnects, vars, members, control
<1>11. CASE SchedulesFirst
  <2>1. PICK c : c = Head(owed)
    OBVIOUS
  <2>2. /\ owed # <<>> /\ task' = Append(task, c) /\ owed' = Tail(owed)
        /\ UNCHANGED <<configuration, setup, state, control>>
    BY <1>11, <2>1, SchedulesFirstFacts
  <2>3. QED BY <1>2, <2>1, <2>2, OwedToTask DEF control
<1>12. CASE SchedulesNext
  <2>1. PICK c, p : c = Head(owed) /\ p = Picoseconds(c[1])
    OBVIOUS
  <2>2. /\ owed # <<>> /\ task' = Append(task, c)
        /\ UNCHANGED <<configuration, setup, state>> /\ pc = "tick"
    BY <1>12, <2>1, SchedulesNextFacts
  <2>3. owed' = Tail(owed)
    BY <1>12 DEF SchedulesNext, Owes
  <2>4. \A m \in Modules : Entered(m) /\ Entered(m)'
    BY <1>5, <2>2 DEF Entered
  <2>5. QED BY <2>1, <2>2, <2>3, <2>4, OwedToTask
<1>13. CASE CallEvent
  <2>1. PICK e \in Issued \ Called :
              /\ e \in 1..Len(task) /\ task[e] \in Call \cup {None}
              /\ pc = "tick" /\ pc' = "tick" /\ owed = <<>>
              /\ owed' = IF task[e] = None THEN <<>> ELSE <<task[e]>>
              /\ UNCHANGED <<state, configuration, setup, task>>
    BY <1>13, CallEventFacts
  <2>2. \A m \in Modules : Entered(m) /\ Entered(m)'
    BY <1>5, <2>1 DEF Entered
  <2>3. \A c \in Call : Owing(c)' => \E i \in 1..Len(task) : task[i] = c
    BY <2>1 DEF Owing
  <2>4. \A c \in Call : ~Owing(c)
    BY <2>1 DEF Owing
  <2>5. QED BY <2>1, <2>2, <2>3, <2>4 DEF Begun
<1>14. CASE Schedules
  <2>1. UNCHANGED ours
    BY <1>14 DEF Schedules
  <2>2. \A m \in Modules : Entered(m)' <=> Entered(m)
    <3>1. CASE ModulesDone
      <4>1. pc = "module" /\ pos = modules /\ pc' = "push"
        BY <3>1 DEF ModulesDone
      <4>2. pos = MaxModules
        BY <1>5, <4>1 DEF ProgramInv
      <4>3. QED BY <1>3, <4>1, <4>2 DEF Entered
    <3>2. CASE PushTick
      BY <1>2, <3>2 DEF PushTick
    <3>3. CASE LeaveInitialize
      BY <3>3 DEF LeaveInitialize, Entered
    <3>4. CASE Start \/ QueueDrained \/ FinalTimeReached \/ NextTick \/ EndTick
      <4>1. pc \in {"start", "loop", "tick"}
        BY <3>4 DEF Start, QueueDrained, FinalTimeReached, NextTick, EndTick
      <4>2. state' # "INITIALIZATION" /\ state # "INITIALIZATION"
        BY <1>5, <3>4, <4>1 DEF Start, QueueDrained, FinalTimeReached, NextTick, EndTick
      <4>3. QED BY <4>2 DEF Entered
    <3>5. QED BY <1>14, <3>1, <3>2, <3>3, <3>4 DEF Schedules
  <2>3. QED BY <1>1, <2>1, <2>2 DEF ours
<1>15. CASE UNCHANGED allVars
  BY <1>1, <1>2, <1>15 DEF allVars, ours, vars, members, control
<1>16. QED
  BY <1>6, <1>7, <1>8, <1>9, <1>10, <1>11, <1>12, <1>13, <1>14, <1>15 DEF ModulesNext

-----------------------------------------------------------------------------
(* The program, the code that runs, and what has begun. *)

LEMMA BaseInit == ModulesInit => BaseInv
<1> SUFFICES ASSUME ModulesInit PROVE BaseInv
  OBVIOUS
<1>1. /\ modules = 0 /\ pc = "idle" /\ state = "INITIALIZATION" /\ target = <<>> /\ inRun = FALSE
      /\ owed = <<>> /\ task = <<>>
  BY DEF ModulesInit, Init
<1>2. ProgramInv /\ OwedInv
  BY <1>1, BoundsAssumption DEF ProgramInv, OwedInv
<1>3. TaskInv
  BY <1>1 DEF ModulesInit, TaskInv, Periodic
<1>4. \A c : ~Begun(c)
  BY <1>1 DEF Begun, Owing
<1>5. BegunInv
  BY <1>4 DEF BegunInv
<1>6. QED BY <1>2, <1>3, <1>5 DEF BaseInv

LEMMA ProgramStep ==
    ASSUME SchedulerInv, BaseInv, Client = "ordered", [ModulesNext]_allVars
    PROVE  ProgramInv'
<1> USE DEF members, control
<1>1. /\ ProgramInv /\ pos \in Nat /\ modules \in Nat /\ currentTime \in Nat
      /\ (pc \in {"start", "loop", "tick"} => state # "INITIALIZATION")
      /\ finalTime \in Nat /\ MaxModules \in Nat
  <2>1. TypeOK
    BY PosFacts DEF BaseInv
  <2>2. QED BY <2>1, PosFacts, TimesFacts, BoundsAssumption DEF BaseInv, TypeOK
<1>2. CASE MainAdds
  BY <1>1, <1>2 DEF MainAdds, AddModule, ProgramInv
<1>3. CASE MainInitializes
  BY <1>1, <1>3 DEF MainInitializes, Initialize, EnterInitialize, ProgramInv
<1>4. ASSUME NEW t \in Times, MainSchedules(t) PROVE ProgramInv'
  <2>1. UNCHANGED <<state, currentTime, modules, control>>
    BY <1>4, FutureEnqueues DEF MainSchedules
  <2>2. QED BY <1>1, <2>1 DEF ProgramInv
<1>5. ASSUME NEW t \in Times, MainRuns(t) PROVE ProgramInv'
  BY <1>1, <1>5 DEF MainRuns, RunAt, EnterInitialize, ProgramInv
<1>6. ASSUME NEW m \in Modules, NEW q \in Modules, MainConnects(m, q) PROVE ProgramInv'
  BY <1>1, <1>6 DEF MainConnects, ProgramInv, vars
<1>7. ASSUME NEW m \in Modules, ModuleInitializes(m) PROVE ProgramInv'
  <2>1. /\ pc = "module" /\ pc' = "module" /\ pos' = pos + 1 /\ pos < modules
        /\ UNCHANGED <<state, currentTime, modules, inRun, finalTime>>
    BY <1>7, ModuleInitializesFacts
  <2>2. QED BY <1>1, <2>1 DEF ProgramInv
<1>8. CASE SchedulesFirst
  <2>1. UNCHANGED <<state, currentTime, modules, control>>
    BY <1>8, SchedulesFirstFacts
  <2>2. QED BY <1>1, <2>1 DEF ProgramInv
<1>9. CASE SchedulesNext
  <2>1. /\ pc = "tick" /\ pc' \in {"tick", "aborted"}
        /\ UNCHANGED <<state, currentTime, modules, pos, inRun, finalTime>>
    BY <1>9, SchedulesNextFacts
  <2>2. QED BY <1>1, <2>1 DEF ProgramInv
<1>10. CASE CallEvent
  <2>1. /\ pc = "tick" /\ pc' = "tick"
        /\ UNCHANGED <<state, currentTime, modules, inRun, finalTime>>
    BY <1>10, CallEventFacts
  <2>2. QED BY <1>1, <2>1 DEF ProgramInv
<1>11. CASE Schedules
  <2>1. CASE ModulesDone
    BY <1>1, <2>1 DEF ModulesDone, ProgramInv
  <2>2. CASE PushTick
    BY <1>1, <2>2 DEF PushTick, ProgramInv
  <2>3. CASE LeaveInitialize
    BY <1>1, <2>3 DEF LeaveInitialize, ProgramInv
  <2>4. CASE Start
    BY <1>1, <2>4 DEF Start, ProgramInv
  <2>5. CASE QueueDrained \/ FinalTimeReached \/ NextTick \/ EndTick
    BY <1>1, <2>5 DEF QueueDrained, FinalTimeReached, NextTick, EndTick, Return, ProgramInv
  <2>6. QED BY <1>11, <2>1, <2>2, <2>3, <2>4, <2>5 DEF Schedules
<1>12. CASE UNCHANGED allVars
  BY <1>1, <1>12 DEF ProgramInv, allVars, vars
<1>13. QED
  BY <1>2, <1>3, <1>4, <1>5, <1>6, <1>7, <1>8, <1>9, <1>10, <1>11, <1>12 DEF ModulesNext

(* What each step does with what is owed and with the tasks. *)
LEMMA OwedStep ==
    ASSUME SchedulerInv, BaseInv, Client = "ordered", [ModulesNext]_allVars
    PROVE  OwedInv' /\ task' \in Seq(Call \cup {None}) /\ (pc' # "aborted" => Len(task') = Len(target'))
<1> USE DEF members, control
<1>1. /\ OwedInv /\ task \in Seq(Call \cup {None}) /\ (pc # "aborted" => Len(task) = Len(target))
      /\ pos \in Nat /\ target \in Seq(Times) /\ TypeOK
  <2>1. TypeOK
    BY PosFacts DEF BaseInv
  <2>2. QED BY <2>1, PosFacts DEF BaseInv, TaskInv, TypeOK
<1>2. ASSUME owed' = <<>> PROVE OwedInv'
  BY <1>2 DEF OwedInv
<1>3. ASSUME UNCHANGED <<task, target>>, pc # "aborted"
      PROVE  task' \in Seq(Call \cup {None}) /\ (pc' # "aborted" => Len(task') = Len(target'))
  BY <1>1, <1>3
<1>4. CASE MainAdds
  <2>1. pc = "idle" /\ UNCHANGED <<owed, task, target>>
    BY <1>4 DEF MainAdds, AddModule, ours
  <2>2. owed = <<>>
    BY <1>1, <2>1 DEF OwedInv
  <2>3. QED BY <1>2, <1>3, <2>1, <2>2
<1>5. CASE MainInitializes
  <2>1. pc = "idle" /\ UNCHANGED <<owed, task, target>>
    BY <1>5 DEF MainInitializes, Initialize, ours
  <2>2. owed = <<>>
    BY <1>1, <2>1 DEF OwedInv
  <2>3. QED BY <1>2, <1>3, <2>1, <2>2
<1>6. ASSUME NEW t \in Times, MainSchedules(t)
      PROVE  OwedInv' /\ task' \in Seq(Call \cup {None}) /\ (pc' # "aborted" => Len(task') = Len(target'))
  <2>1. /\ UNCHANGED <<state, currentTime, modules, control, owed>> /\ target' = Append(target, t)
        /\ task' = Append(task, None) /\ pc = "idle"
    BY <1>6, FutureEnqueues DEF MainSchedules
  <2>2. owed = <<>>
    BY <1>1, <2>1 DEF OwedInv
  <2>3. Len(target') = Len(target) + 1
    BY <1>1, <2>1, AppendProperties
  <2>4. Len(task') = Len(task) + 1 /\ task' \in Seq(Call \cup {None})
    BY <1>1, <2>1, AppendProperties
  <2>5. QED BY <1>1, <1>2, <2>1, <2>2, <2>3, <2>4
<1>7. ASSUME NEW t \in Times, MainRuns(t)
      PROVE  OwedInv' /\ task' \in Seq(Call \cup {None}) /\ (pc' # "aborted" => Len(task') = Len(target'))
  <2>1. pc = "idle" /\ UNCHANGED <<owed, task, target>>
    BY <1>7 DEF MainRuns, RunAt, ours
  <2>2. owed = <<>>
    BY <1>1, <2>1 DEF OwedInv
  <2>3. QED BY <1>2, <1>3, <2>1, <2>2
<1>8. ASSUME NEW m \in Modules, NEW q \in Modules, MainConnects(m, q)
      PROVE  OwedInv' /\ task' \in Seq(Call \cup {None}) /\ (pc' # "aborted" => Len(task') = Len(target'))
  <2>1. pc = "idle" /\ UNCHANGED <<owed, task, target>>
    BY <1>8 DEF MainConnects, vars
  <2>2. owed = <<>>
    BY <1>1, <2>1 DEF OwedInv
  <2>3. QED BY <1>2, <1>3, <2>1, <2>2
<1>9. ASSUME NEW m \in Modules, ModuleInitializes(m)
      PROVE  OwedInv' /\ task' \in Seq(Call \cup {None}) /\ (pc' # "aborted" => Len(task') = Len(target'))
  <2>1. /\ pc = "module" /\ pc' = "module" /\ pos' = m /\ UNCHANGED <<task, target>>
        /\ owed' \in {<<>>, Calls(m)} /\ UNCHANGED configuration
    BY <1>9, ModuleInitializesFacts DEF Outcome
  <2>2. Calls(m)' = Calls(m)
    BY <2>1, ConfigurationFrame
  <2>3. m > 0
    BY DEF Modules
  <2>4. OwedInv'
    <3>1. Calls(pos') = Calls(m)
      BY <2>1
    <3>2. Calls(pos)' = Calls(m)
      BY <2>1, <2>2 DEF Calls, Functions, Plays, Periodic
    <3>3. QED BY <2>1, <2>3, <3>2 DEF OwedInv
  <2>5. QED BY <1>3, <2>1, <2>4
<1>10. CASE SchedulesFirst
  <2>1. PICK c : c = Head(owed)
    OBVIOUS
  <2>2. /\ pc = "module" /\ owed # <<>> /\ owed' = Tail(owed) /\ task' = Append(task, c)
        /\ target' = Append(target, FirstAt(c)) /\ UNCHANGED <<configuration, control>>
    BY <1>10, <2>1, SchedulesFirstFacts
  <2>3. FirstAt(c) \in Times
    BY <2>1, <2>2, HeadFacts
  <2>4. Len(target') = Len(target) + 1
    BY <1>1, <2>2, <2>3, AppendProperties
  <2>5. Len(task') = Len(task) + 1 /\ task' \in Seq(Call \cup {None})
    BY <2>1, <2>2, OwedToTask
  <2>6. OwedInv'
    <3>1. pos \in Modules /\ 0 < pos
      <4>1. pos \in Modules
        BY <2>2, PosFacts, OwedShape DEF BaseInv
      <4>2. QED BY <4>1 DEF Modules
    <3>2. Tail(owed) = <<>> \/ (Plays(pos) /\ Tail(owed) = <<Send(pos)>>)
      BY <2>2, PosFacts, OwedShape DEF BaseInv
    <3>3. pc' = "module" /\ pos' = pos /\ Plays(pos)' = Plays(pos)
      BY <2>2 DEF Plays, configuration
    <3>4. CASE Tail(owed) = <<>>
      BY <1>2, <2>2, <3>4
    <3>5. CASE Plays(pos) /\ Tail(owed) = <<Send(pos)>>
      BY <2>2, <3>1, <3>3, <3>5 DEF OwedInv, Send
    <3>6. QED BY <3>2, <3>4, <3>5
  <2>7. QED BY <1>1, <2>2, <2>4, <2>5, <2>6
<1>11. CASE SchedulesNext
  <2>1. PICK c, p : c = Head(owed) /\ p = Picoseconds(c[1])
    OBVIOUS
  <2>2. /\ pc = "tick" /\ owed # <<>> /\ owed' = <<>> /\ task' = Append(task, c)
        /\ \/ pc' = "aborted"
           \/ target' = Append(target, currentTime + p) /\ currentTime + p \in Times
    BY <1>11, <2>1, SchedulesNextFacts
  <2>3. owed' = Tail(owed)
    BY <1>11 DEF SchedulesNext, Owes
  <2>4. Len(task') = Len(task) + 1 /\ task' \in Seq(Call \cup {None})
    BY <2>1, <2>2, <2>3, OwedToTask
  <2>5. pc' # "aborted" => Len(target') = Len(target) + 1
    BY <1>1, <2>2, AppendProperties
  <2>6. QED BY <1>1, <1>2, <2>2, <2>4, <2>5
<1>12. CASE CallEvent
  <2>1. PICK e \in Issued \ Called :
              /\ task[e] \in Call \cup {None} /\ pc = "tick" /\ pc' = "tick"
              /\ owed' = IF task[e] = None THEN <<>> ELSE <<task[e]>>
              /\ UNCHANGED <<task, target>>
    BY <1>12, CallEventFacts
  <2>2. owed' = <<>> \/ \E c \in Call : owed' = <<c>>
    BY <2>1
  <2>3. OwedInv'
    BY <2>1, <2>2 DEF OwedInv
  <2>4. QED BY <1>3, <2>1, <2>3
<1>13. CASE Schedules
  <2>1. owed = <<>> /\ UNCHANGED <<owed, task>>
    BY <1>13 DEF Schedules, ours
  <2>2. UNCHANGED target /\ pc # "aborted"
    BY <1>13 DEF Schedules, ModulesDone, PushTick, LeaveInitialize, Start, QueueDrained,
                 FinalTimeReached, NextTick, EndTick, Return
  <2>3. QED BY <1>2, <1>3, <2>1, <2>2
<1>14. CASE UNCHANGED allVars
  <2>1. UNCHANGED <<type, owed, task, target, pc, pos>>
    BY <1>14 DEF allVars, ours, vars, configuration
  <2>2. QED BY <1>1, <2>1 DEF OwedInv, Calls, Functions, Plays, Periodic
<1>15. QED
  BY <1>4, <1>5, <1>6, <1>7, <1>8, <1>9, <1>10, <1>11, <1>12, <1>13, <1>14 DEF ModulesNext

LEMMA BaseStep ==
    ASSUME SchedulerInv, BaseInv, Client = "ordered", [ModulesNext]_allVars
    PROVE  BaseInv'
<1>1. UNCHANGED configuration
  BY SetupFrame, ModuleInitializesFacts
<1>2. TaskInv'
  <2>1. /\ UNCHANGED <<type, period, validated, level>>
        /\ \A m \in Modules : Periodic(m)' <=> Periodic(m)
    BY <1>1, ConfigurationFrame DEF configuration
  <2>2. QED BY <2>1, OwedStep DEF BaseInv, TaskInv
<1>3. BegunInv'
  <2>1. /\ \A m \in Modules : (Check(m)' <=> Check(m)) /\ (Periodic(m)' <=> Periodic(m)) /\ CallsOf(m)' = CallsOf(m)
        /\ \A m \in Modules, f \in FunctionNames : <<m, f>> \in Call
        /\ \A m \in Modules : CallsOf(m) \subseteq Call
    BY <1>1, ConfigurationFrame, CallsFacts DEF Call
  <2>2. CASE ~ \E m \in Modules : ModuleInitializes(m)
    <3>1. /\ \A m \in Modules : Entered(m)' <=> Entered(m)
          /\ \A c \in Call : Begun(c)' <=> Begun(c)
      BY <2>2, SetupFrame
    <3>2. QED BY <2>1, <3>1 DEF BaseInv, BegunInv
  <2>3. ASSUME NEW m \in Modules, ModuleInitializes(m) PROVE BegunInv'
    <3>1. /\ \A r \in Modules : Entered(r)' <=> Entered(r) \/ r = m
          /\ \A c \in Call : Begun(c)' <=> Begun(c) \/ (owed' # <<>> /\ c \in CallsOf(m))
          /\ \A c \in Call : c[1] = m => ~Begun(c)
      BY <2>3, InitializesBegun
    <3>2. owed' # <<>> => Check(m) /\ owed' = Calls(m)
      BY <2>3, ModuleInitializesFacts DEF Outcome
    <3>3. \A c \in CallsOf(m) : c[1] = m /\ Periodic(m)
      BY CallsOfFacts
    <3>4. ASSUME NEW r \in Modules, NEW f \in FunctionNames, Begun(<<r, f>>)'
          PROVE  /\ Entered(r)' /\ Check(r) /\ Periodic(r)
                 /\ <<r, f>> \in CallsOf(r)
                 /\ \A c \in CallsOf(r) : Begun(c)'
      <4>1. CASE Begun(<<r, f>>)
        BY <2>1, <3>1, <4>1 DEF BaseInv, BegunInv
      <4>2. CASE owed' # <<>> /\ <<r, f>> \in CallsOf(m)
        <5>1. r = m
          BY <3>3, <4>2
        <5>2. QED BY <2>1, <3>1, <3>2, <3>3, <4>2, <5>1
      <4>3. QED BY <2>1, <3>1, <3>4, <4>1, <4>2
    <3>5. QED BY <2>1, <3>4 DEF BegunInv
  <2>4. QED BY <2>2, <2>3
<1>4. QED BY <1>2, <1>3, ProgramStep, OwedStep DEF BaseInv

(* The scheduler under the modules, and what they have begun. *)
LEMMA BaseAlways ==
    ASSUME Client = "ordered"
    PROVE  ModulesSpec => [](SchedulerInv /\ BaseInv)
<1>1. ModulesInit => SchedulerInv /\ BaseInv
  BY SchedulerInit, BaseInit DEF ModulesInit
<1>2. SchedulerInv /\ BaseInv /\ [ModulesNext]_allVars => (SchedulerInv /\ BaseInv)'
  BY ModulesCalls, SchedulerStep, BaseStep
<1>3. QED BY <1>1, <1>2, PTL DEF ModulesSpec

-----------------------------------------------------------------------------
(* The status. *)

LEMMA StatusInit == ModulesInit => StatusInv
<1> SUFFICES ASSUME ModulesInit PROVE StatusInv
  OBVIOUS
<1>1. /\ errors = <<>> /\ children = [m \in Modules |-> 0] /\ success = TRUE
      /\ pc = "idle" /\ state = "INITIALIZATION"
  BY DEF ModulesInit, Init
<1>2. Failed = {}
  BY <1>1 DEF Failed, Entered
<1>3. Cardinality(Failed) = 0
  BY <1>2, FS_EmptySet
<1>4. QED BY <1>1, <1>2, <1>3 DEF StatusInv

(* success is set when initialize() is entered, and at each module. *)
LEMMA SuccessFrame ==
    ASSUME SchedulerInv, BaseInv, Client = "ordered", [ModulesNext]_allVars,
           ~ \E m \in Modules : ModuleInitializes(m)
    PROVE  \/ UNCHANGED success
           \/ success' = TRUE /\ pc = "idle" /\ state = "INITIALIZATION"
<1> USE DEF members, control
<1>1. CASE MainAdds \/ MainInitializes \/ \E m, q \in Modules : MainConnects(m, q)
  BY <1>1 DEF MainAdds, AddModule, MainInitializes, Initialize, EnterInitialize, MainConnects, vars
<1>2. ASSUME NEW t \in Times, MainSchedules(t) PROVE UNCHANGED success
  BY <1>2, FutureEnqueues DEF MainSchedules
<1>3. ASSUME NEW t \in Times, MainRuns(t)
      PROVE  UNCHANGED success \/ (success' = TRUE /\ pc = "idle" /\ state = "INITIALIZATION")
  BY <1>3 DEF MainRuns, RunAt, EnterInitialize
<1>4. CASE SchedulesFirst
  BY <1>4, SchedulesFirstFacts
<1>5. CASE SchedulesNext
  BY <1>5, SchedulesNextFacts
<1>6. CASE CallEvent
  BY <1>6, CallEventFacts
<1>7. CASE Schedules
  BY <1>7 DEF Schedules, ModulesDone, PushTick, LeaveInitialize, Start, QueueDrained,
              FinalTimeReached, NextTick, EndTick, Return
<1>8. QED BY <1>1, <1>2, <1>3, <1>4, <1>5, <1>6, <1>7 DEF ModulesNext, allVars, vars

(* A module that returns a failure is one more that has failed, one that   *)
(* succeeds is not, and the others are what they were.                     *)
LEMMA StartsAfter ==
    ASSUME SchedulerInv, BaseInv, StatusInv, NEW m \in Modules, ModuleInitializes(m),
           NEW ok \in BOOLEAN, Outcome(m, ok)
    PROVE  /\ ~Entered(m) /\ Entered(m)' /\ (Starts(m)' <=> ok)
           /\ \A r \in Modules \ {m} : (Entered(r)' <=> Entered(r)) /\ (Starts(r)' <=> Starts(r))
           /\ children' \in [Modules -> 0..1]
           /\ errors' \in Seq((Modules \X {0, 1}) \cup {None})
           /\ Len(errors') = IF ok THEN Len(errors) ELSE Len(errors) + 1
           /\ \A r \in Modules : ~Entered(r)' =>
                children'[r] = 0 /\ \A i \in 1..Len(errors') : errors'[i] # Nested(r)
<1>1. PICK names \in {None, Itself(m), Nested(m)} :
          /\ errors' = IF ok THEN errors ELSE Append(errors, names)
          /\ IF Periodic(m) THEN names # Nested(m) /\ UNCHANGED children
             ELSE names = Nested(m) /\ children' = [children EXCEPT ![m] = @ + 1]
  BY DEF Outcome
<1>2. /\ errors \in Seq((Modules \X {0, 1}) \cup {None}) /\ Len(errors) \in Nat
      /\ children \in [Modules -> 0..1]
      /\ \A r \in Modules : ~Entered(r) => children[r] = 0 /\ \A i \in 1..Len(errors) : errors[i] # Nested(r)
  BY DEF StatusInv
<1>3. /\ ~Entered(m) /\ \A r \in Modules : Entered(r)' <=> Entered(r) \/ r = m
      /\ \A c \in Call : Begun(c)' <=> Begun(c) \/ (owed' # <<>> /\ c \in CallsOf(m))
      /\ \A c \in Call : c[1] = m => ~Begun(c)
  BY InitializesBegun
<1>4. /\ owed' = IF ok THEN Calls(m) ELSE <<>>
      /\ UNCHANGED configuration
  BY ModuleInitializesFacts DEF Outcome
<1>5. names \in (Modules \X {0, 1}) \cup {None} /\ \A r \in Modules \ {m} : names # Nested(r)
  <2>1. Itself(m) \in Modules \X {0, 1} /\ Nested(m) \in Modules \X {0, 1}
    BY DEF Itself, Nested
  <2>2. \A r \in Modules : Nested(r) \in Nat \X Nat
    BY DEF Nested, Modules
  <2>3. \A r \in Modules : Nested(r) # None
    BY <2>2, NoneAssumption
  <2>4. \A r \in Modules \ {m} : Itself(m) # Nested(r) /\ Nested(m) # Nested(r)
    BY DEF Itself, Nested
  <2>5. QED BY <2>1, <2>3, <2>4
<1>6. /\ errors' \in Seq((Modules \X {0, 1}) \cup {None})
      /\ Len(errors') = IF ok THEN Len(errors) ELSE Len(errors) + 1
      /\ \A i \in 1..Len(errors) : errors'[i] = errors[i]
      /\ ~ok => errors'[Len(errors) + 1] = names
  <2>1. CASE ok
    BY <1>1, <1>2, <2>1
  <2>2. CASE ~ok
    BY <1>1, <1>2, <1>5, <2>2, AppendProperties
  <2>3. QED BY <2>1, <2>2
<1>7. \A r \in Modules \ {m} :
        (\A i \in 1..Len(errors') : errors'[i] # Nested(r)) <=> \A i \in 1..Len(errors) : errors[i] # Nested(r)
  BY <1>2, <1>5, <1>6
<1>8. /\ children' \in [Modules -> 0..1] /\ \A r \in Modules \ {m} : children'[r] = children[r]
      /\ ~Periodic(m) => children'[m] = 1
  BY <1>1, <1>2, <1>3
<1>9. \A r \in Modules : CallsOf(r)' = CallsOf(r) /\ (Periodic(r)' <=> Periodic(r)) /\ CallsOf(r) \subseteq Call
  BY <1>4, ConfigurationFrame, CallsFacts
<1>10. ASSUME NEW r \in Modules \ {m} PROVE Starts(r)' <=> Starts(r)
  <2>1. \A c \in CallsOf(r) : c \in Call /\ c[1] = r
    BY CallsFacts, CallsOfFacts
  <2>2. \A c \in CallsOf(m) : c[1] = m
    BY CallsOfFacts
  <2>3. \A c \in CallsOf(r) : Begun(c)' <=> Begun(c)
    BY <1>3, <2>1, <2>2
  <2>4. QED BY <1>7, <1>8, <1>9, <2>3 DEF Starts
<1>11. Starts(m)' <=> ok
  <2>1. CASE Periodic(m)
    <3>1. CallsOf(m) # {} /\ CallsOf(m) \subseteq Call /\ Calls(m) # <<>>
      BY <2>1, CallsFacts
    <3>2. \A c \in CallsOf(m) : c \in Call /\ c[1] = m
      BY <3>1, CallsOfFacts
    <3>3. ok => \A c \in CallsOf(m) : Begun(c)'
      BY <1>3, <1>4, <3>1
    <3>4. ~ok => \A c \in CallsOf(m) : ~Begun(c)'
      BY <1>3, <1>4, <3>2
    <3>5. QED BY <1>9, <2>1, <3>1, <3>3, <3>4 DEF Starts
  <2>2. CASE ~Periodic(m)
    <3>1. ok <=> \A i \in 1..Len(errors') : errors'[i] # Nested(m)
      BY <1>1, <1>2, <1>3, <1>6, <2>2
    <3>2. QED BY <1>8, <1>9, <2>2, <3>1 DEF Starts
  <2>3. QED BY <2>1, <2>2
<1>12. QED BY <1>2, <1>3, <1>6, <1>7, <1>8, <1>10, <1>11

LEMMA StatusStep ==
    ASSUME SchedulerInv, BaseInv, StatusInv, Client = "ordered", [ModulesNext]_allVars
    PROVE  StatusInv'
<1>1. IsFiniteSet(Failed) /\ IsFiniteSet(Modules)
  <2>1. IsFiniteSet(Modules) /\ Failed \subseteq Modules
    BY FS_Interval, BoundsAssumption DEF Modules, Failed
  <2>2. QED BY <2>1, FS_Subset
<1>2. CASE ~ \E m \in Modules : ModuleInitializes(m)
  <2>1. /\ UNCHANGED <<configuration, setup>>
        /\ \A m \in Modules : Entered(m)' <=> Entered(m)
        /\ \A c \in Call : Begun(c)' <=> Begun(c)
    BY <1>2, SetupFrame
  <2>2. UNCHANGED <<errors, children>>
    BY <2>1 DEF setup
  <2>3. \A m \in Modules : CallsOf(m)' = CallsOf(m) /\ (Periodic(m)' <=> Periodic(m)) /\ CallsOf(m) \subseteq Call
    BY <2>1, ConfigurationFrame, CallsFacts
  <2>4. \A m \in Modules : Starts(m)' <=> Starts(m)
    BY <2>1, <2>2, <2>3 DEF Starts
  <2>5. Failed' = Failed
    BY <2>1, <2>4 DEF Failed
  <2>6. success' <=> success
    <3>1. pc = "idle" /\ state = "INITIALIZATION" => Failed = {}
      BY DEF Failed, Entered
    <3>2. success <=> Failed = {}
      BY DEF StatusInv
    <3>3. CASE success' = TRUE /\ pc = "idle" /\ state = "INITIALIZATION"
      BY <3>1, <3>2, <3>3
    <3>4. CASE UNCHANGED success
      BY <3>4
    <3>5. QED BY <1>2, <3>3, <3>4, SuccessFrame
  <2>7. QED BY <2>1, <2>2, <2>5, <2>6 DEF StatusInv
<1>3. ASSUME NEW m \in Modules, ModuleInitializes(m) PROVE StatusInv'
  <2>1. PICK ok \in BOOLEAN : Outcome(m, ok)
    BY <1>3, ModuleInitializesFacts
  <2>2. /\ ~Entered(m) /\ Entered(m)' /\ (Starts(m)' <=> ok)
        /\ \A r \in Modules \ {m} : (Entered(r)' <=> Entered(r)) /\ (Starts(r)' <=> Starts(r))
        /\ children' \in [Modules -> 0..1]
        /\ errors' \in Seq((Modules \X {0, 1}) \cup {None})
        /\ Len(errors') = IF ok THEN Len(errors) ELSE Len(errors) + 1
        /\ \A r \in Modules : ~Entered(r)' =>
             children'[r] = 0 /\ \A i \in 1..Len(errors') : errors'[i] # Nested(r)
    BY <1>3, <2>1, StartsAfter
  <2>3. m \notin Failed /\ Failed' = IF ok THEN Failed ELSE Failed \cup {m}
    BY <2>2 DEF Failed
  <2>4. Cardinality(Failed') = IF ok THEN Cardinality(Failed) ELSE Cardinality(Failed) + 1
    BY <1>1, <2>3, FS_AddElement
  <2>5. success' <=> success /\ ok
    BY <2>1 DEF Outcome
  <2>6. QED BY <2>2, <2>3, <2>4, <2>5 DEF StatusInv
<1>4. QED BY <1>2, <1>3

(* The status of Context::initialize() is a success exactly when every     *)
(* module works, and has one error for each that does not, for any number  *)
(* of modules, wherever and for whatever reason one fails.                 *)
THEOREM StatusExactAlways ==
    ASSUME Client = "ordered"
    PROVE  ModulesSpec => []StatusExact
<1>1. BaseInv /\ StatusInv => StatusExact
  <2>1. SUFFICES ASSUME BaseInv, StatusInv, state # "INITIALIZATION", owed = <<>>
                 PROVE  /\ success <=> \A m \in Modules : Works(m)
                        /\ Len(errors) = Cardinality({m \in Modules : ~Works(m)})
    BY DEF StatusExact, OnceInitialized
  <2>2. \A c : Begun(c) <=> \E i \in 1..Len(task) : task[i] = c
    BY <2>1 DEF Begun, Owing
  <2>3. \A m \in Modules : Works(m) <=> Starts(m)
    BY <2>2 DEF Works, Starts, CallsOf
  <2>4. Failed = {m \in Modules : ~Works(m)}
    BY <2>1, <2>3 DEF Failed, Entered
  <2>5. QED BY <2>1, <2>4 DEF StatusInv
<1>2. (SchedulerInv /\ BaseInv) /\ StatusInv /\ [ModulesNext]_allVars => StatusInv'
  BY StatusStep
<1>3. QED BY <1>1, <1>2, StatusInit, BaseAlways, PTL DEF ModulesSpec

-----------------------------------------------------------------------------
(* What the modules count, log and send. *)

(* Who reports: a module one of whose functions has begun. *)
LEMMA ReportingStep ==
    ASSUME SchedulerInv, BaseInv, Client = "ordered", [ModulesNext]_allVars
    PROVE  UNCHANGED reported \/ \E c \in Call : Begun(c) /\ c[1] \in Modules /\ Reports(c[1])
<1>1. CASE CallEvent
  <2>1. PICK e \in Issued \ Called :
              /\ e \in 1..Len(task) /\ task[e] \in Call \cup {None}
              /\ IF task[e] # None /\ ~Plays(task[e][1]) THEN Reports(task[e][1]) ELSE UNCHANGED reported
    BY <1>1, CallEventFacts
  <2>2. task[e] \in Call => Begun(task[e]) /\ task[e][1] \in Modules
    BY <2>1 DEF Begun, Call
  <2>3. QED BY <2>1, <2>2
<1>2. CASE SchedulesNext
  <2>1. PICK c, p : c = Head(owed) /\ p = Picoseconds(c[1])
    OBVIOUS
  <2>2. owed # <<>> /\ (UNCHANGED reported \/ Resumes(c[1], c[2]))
    BY <1>2, <2>1, SchedulesNextFacts
  <2>3. c \in Call /\ Begun(c) /\ c[1] \in Modules
    BY <2>1, <2>2, HeadFacts
  <2>4. Resumes(c[1], c[2]) => UNCHANGED reported \/ Reports(c[1])
    BY DEF Resumes, TrySend, UpdateState
  <2>5. QED BY <2>2, <2>3, <2>4
<1>3. CASE SchedulesFirst
  BY <1>3 DEF SchedulesFirst
<1>4. ASSUME NEW m \in Modules, ModuleInitializes(m) PROVE UNCHANGED reported
  BY <1>4, ModuleInitializesFacts
<1>5. CASE MainAdds \/ MainInitializes \/ Schedules \/ UNCHANGED allVars
  BY <1>5 DEF MainAdds, MainInitializes, Schedules, allVars, ours
<1>6. CASE (\E t \in Times : MainSchedules(t) \/ MainRuns(t)) \/ \E m, q \in Modules : MainConnects(m, q)
  BY <1>6 DEF MainSchedules, MainRuns, MainConnects, ours
<1>7. QED BY <1>1, <1>2, <1>3, <1>4, <1>5, <1>6 DEF ModulesNext

(* What a logger is once it has been set up. *)
LEMMA LeveledFacts ==
    ASSUME NEW name \in LevelNames
    PROVE  LET t == IF name <= WARNING THEN name ELSE WARNING
               open == Leveled(OpenLogger, name)
               closed == Leveled(NewLogger, name)
           IN  /\ open = [enabled |-> TRUE, names |-> WARNING + 1, threshold |-> t]
               /\ closed = [enabled |-> FALSE, names |-> WARNING + 1, threshold |-> t]
               /\ NewLogger = [enabled |-> FALSE, names |-> 0, threshold |-> 0]
               /\ t \in LogLevel /\ 0 \in LogLevel /\ closed # NewLogger
               /\ INFO >= t <=> name <= INFO
<1>1. name \in Nat
  BY ModulesAssumption
<1> DEFINE t == IF name <= WARNING THEN name ELSE WARNING
           R == [enabled : BOOLEAN, names : Nat, threshold : Nat]
<1>0. ASSUME NEW l \in R, NEW d \in R, l.enabled = d.enabled, l.names = d.names, l.threshold = d.threshold
      PROVE  l = d
  BY <1>0
<1>2. ASSUME NEW e \in BOOLEAN, NEW l, l = [enabled |-> e, names |-> 0, threshold |-> 0]
      PROVE  Leveled(l, name) = [enabled |-> e, names |-> WARNING + 1, threshold |-> t]
  <2>1. Populated(l) = [enabled |-> e, names |-> 4, threshold |-> 3]
    <3>1. l \in R /\ l.enabled = e
      BY <1>2
    <3>2. PICK n : n = [l EXCEPT !.names = WARNING + 1]
      OBVIOUS
    <3>3. n \in R /\ n.enabled = e /\ n.names = 4
      BY <3>1, <3>2 DEF WARNING
    <3>4. Populated(l) = [n EXCEPT !.threshold = WARNING]
      BY <3>2, Zenon DEF Populated
    <3>5. /\ Populated(l) \in R /\ Populated(l).enabled = e /\ Populated(l).names = 4
          /\ Populated(l).threshold = 3
      BY <3>3, <3>4 DEF WARNING
    <3>6. QED BY <1>0, <3>5
  <2>2. CASE name < 4
    BY <1>1, <2>1, <2>2 DEF Leveled, SetLevel, WARNING
  <2>3. CASE ~(name < 4)
    BY <1>1, <2>1, <2>3 DEF Leveled, SetLevel, WARNING
  <2>4. QED BY <2>2, <2>3
<1>3. NewLogger = [enabled |-> FALSE, names |-> 0, threshold |-> 0]
  BY DEF NewLogger
<1>4. OpenLogger = [enabled |-> TRUE, names |-> 0, threshold |-> 0]
  <2>1. OpenLogger \in R /\ OpenLogger.enabled = TRUE /\ OpenLogger.names = 0 /\ OpenLogger.threshold = 0
    BY DEF OpenLogger, NewLogger
  <2>2. QED BY <1>0, <2>1
<1>5. /\ Leveled(OpenLogger, name) = [enabled |-> TRUE, names |-> WARNING + 1, threshold |-> t]
      /\ Leveled(NewLogger, name) = [enabled |-> FALSE, names |-> WARNING + 1, threshold |-> t]
  BY <1>2, <1>3, <1>4
<1>6. t \in LogLevel /\ 0 \in LogLevel /\ (INFO >= t <=> name <= INFO)
  BY <1>1 DEF WARNING, INFO, LogLevel
<1>7. Leveled(NewLogger, name) # NewLogger
  <2>1. Leveled(NewLogger, name).names = 4 /\ NewLogger.names = 0
    BY <1>3, <1>5 DEF WARNING
  <2>2. QED BY <2>1
<1>8. QED BY <1>3, <1>5, <1>6, <1>7

LEMMA LoggerInit == ModulesInit => LoggerInv /\ CountTypes /\ LoggedExact
<1> SUFFICES ASSUME ModulesInit PROVE LoggerInv /\ CountTypes /\ LoggedExact
  OBVIOUS
<1>1. /\ logger = [m \in Modules |-> NewLogger] /\ owed = <<>> /\ task = <<>>
      /\ count = [m \in Modules |-> 0] /\ lines = [m \in Modules |-> 0]
      /\ partner = [m \in Modules |-> None] /\ box = [m \in Modules |-> FALSE]
      /\ startSend = [m \in Modules |-> type[m] = "PingModule"]
      /\ sendMessage = [m \in Modules |-> FALSE]
  BY DEF ModulesInit
<1>2. LoggerInv
  BY <1>1 DEF LoggerInv, Begun, Owing
<1>3. CountTypes
  BY <1>1 DEF CountTypes, NewLogger, LogLevel, WARNING
<1>4. LoggedExact
  BY <1>1 DEF LoggedExact
<1>5. QED BY <1>2, <1>3, <1>4

LEMMA LoggerStep ==
    ASSUME SchedulerInv, BaseInv, CountTypes, LoggerInv, Client = "ordered", [ModulesNext]_allVars
    PROVE  LoggerInv'
<1> DEFINE HasBegun(m) == \E f \in FunctionNames : Begun(<<m, f>>)
<1>1. \A m \in Modules, f \in FunctionNames : <<m, f>> \in Call
  BY DEF Call
<1>2. \A m \in Modules : ~Entered(m) => count'[m] = count[m]
  <2>1. SUFFICES ASSUME NEW m \in Modules, ~Entered(m) PROVE count'[m] = count[m]
    OBVIOUS
  <2>2. \A c \in Call : Begun(c) => Entered(c[1])
    BY DEF BaseInv, BegunInv, Call
  <2>3. \A r \in Modules : Reports(r) /\ r # m => count'[m] = count[m]
    BY DEF Reports, CountTypes
  <2>4. QED BY <2>1, <2>2, <2>3, ReportingStep DEF reported
<1>3. CASE ~ \E m \in Modules : ModuleInitializes(m)
  <2>1. /\ UNCHANGED <<type, level, logger>>
        /\ \A m \in Modules : Entered(m)' <=> Entered(m)
        /\ \A c \in Call : Begun(c)' <=> Begun(c)
    BY <1>3, SetupFrame DEF configuration, setup
  <2>2. QED BY <1>1, <1>2, <2>1 DEF LoggerInv, Plays, Leveled, Populated, SetLevel, OpenLogger, NewLogger
<1>4. ASSUME NEW m \in Modules, ModuleInitializes(m) PROVE LoggerInv'
  <2>1. PICK ok \in BOOLEAN : Outcome(m, ok)
    BY <1>4, ModuleInitializesFacts
  <2>2. UNCHANGED <<type, level, count>>
    BY <1>4, ModuleInitializesFacts DEF configuration, reported
  <2>3. /\ ~Entered(m) /\ \A r \in Modules : Entered(r)' <=> Entered(r) \/ r = m
        /\ \A c \in Call : Begun(c)' <=> Begun(c) \/ (owed' # <<>> /\ c \in CallsOf(m))
        /\ \A c \in Call : c[1] = m => ~Begun(c)
        /\ \A c \in CallsOf(m) : c[1] = m
    BY <1>4, InitializesBegun, CallsOfFacts
  <2>4. \A r \in Modules \ {m} : HasBegun(r)' <=> HasBegun(r)
    BY <1>1, <2>3
  <2>5. HasBegun(m)' => ok
    BY <1>1, <2>1, <2>3 DEF Outcome
  <2>6. \A r \in Modules \ {m} : logger'[r] = logger[r]
    BY <2>1 DEF Outcome, Opened, Closed, CountTypes
  <2>7. /\ logger[m] \in {NewLogger, Leveled(OpenLogger, level[m]), Leveled(NewLogger, level[m])}
        /\ ~Plays(m) /\ type[m] # "FirstModule" => logger[m] = NewLogger
        /\ level[m] \in LevelNames /\ m \in DOMAIN logger
    BY DEF LoggerInv, CountTypes, BaseInv, TaskInv
  <2>8. Leveled(OpenLogger, level[m]) # NewLogger /\ Leveled(NewLogger, level[m]) # NewLogger
    BY <2>7, LeveledFacts
  <2>9. type[m] = "FirstModule" => ~Plays(m)
    BY DEF Plays, Players
  <2>10. /\ logger'[m] \in {NewLogger, Leveled(OpenLogger, level[m]), Leveled(NewLogger, level[m])}
         /\ ok /\ type[m] = "FirstModule" => logger'[m] = Leveled(OpenLogger, level[m])
         /\ ok /\ Plays(m) => logger'[m] # NewLogger
         /\ ~Plays(m) /\ type[m] # "FirstModule" => logger'[m] = NewLogger
    <3>1. CASE ok /\ (type[m] = "FirstModule" \/ Plays(m))
      <4>1. logger' = Opened(m) \/ (Plays(m) /\ logger' = Closed(m))
        BY <2>1, <3>1 DEF Outcome
      <4>2. Opened(m)[m] = Leveled(OpenLogger, level[m]) /\ Closed(m)[m] = Leveled(NewLogger, level[m])
        BY <2>7 DEF Opened, Closed
      <4>3. QED BY <2>8, <2>9, <3>1, <4>1, <4>2
    <3>2. CASE ~(ok /\ (type[m] = "FirstModule" \/ Plays(m)))
      BY <2>1, <2>7, <3>2 DEF Outcome
    <3>3. QED BY <3>1, <3>2
  <2>11. ASSUME NEW r \in Modules
         PROVE  /\ logger'[r] \in {NewLogger, Leveled(OpenLogger, level[r]), Leveled(NewLogger, level[r])}
                /\ HasBegun(r)' =>
                      /\ type[r] = "FirstModule" => logger'[r] = Leveled(OpenLogger, level[r])
                      /\ Plays(r) => logger'[r] # NewLogger
                /\ ~Entered(r)' => count'[r] = 0
                /\ ~Plays(r) /\ type[r] # "FirstModule" => logger'[r] = NewLogger
    <3>1. CASE r = m
      BY <2>3, <2>5, <2>10, <3>1
    <3>2. CASE r # m
      <4>1. logger'[r] = logger[r] /\ (HasBegun(r)' <=> HasBegun(r)) /\ (Entered(r)' <=> Entered(r)) /\ count'[r] = count[r]
        BY <2>2, <2>3, <2>4, <2>6, <3>2
      <4>2. QED BY <4>1 DEF LoggerInv
    <3>3. QED BY <3>1, <3>2
  <2>12. QED
    <3> HIDE DEF HasBegun
    <3>1. \A r \in Modules : HasBegun(r)' <=> \E f \in FunctionNames : Begun(<<r, f>>)'
      BY DEF HasBegun
    <3>2. QED BY <2>2, <2>11, <3>1
              DEF LoggerInv, Plays, Leveled, Populated, SetLevel, OpenLogger, NewLogger
<1>5. QED BY <1>3, <1>4

(* What each step does to the messages: a function that resumes sends or   *)
(* looks for one.                                                          *)
LEMMA ResumingStep ==
    ASSUME SchedulerInv, BaseInv, Client = "ordered", [ModulesNext]_allVars
    PROVE  /\ UNCHANGED messages \/ \E m \in Modules : TrySend(m) \/ UpdateState(m)
           /\ UNCHANGED partner \/ \E m, q \in Modules : partner' = Link(partner, m, q)
<1>1. CASE SchedulesNext
  <2>1. PICK c, p : c = Head(owed) /\ p = Picoseconds(c[1])
    OBVIOUS
  <2>2. owed # <<>> /\ UNCHANGED partner /\ (UNCHANGED messages \/ Resumes(c[1], c[2]))
    BY <1>1, <2>1, SchedulesNextFacts
  <2>3. c[1] \in Modules
    BY <2>1, <2>2, HeadFacts
  <2>4. QED BY <2>2, <2>3 DEF Resumes
<1>2. CASE CallEvent
  BY <1>2, CallEventFacts
<1>3. CASE SchedulesFirst
  BY <1>3 DEF SchedulesFirst, Owes
<1>4. ASSUME NEW m \in Modules, ModuleInitializes(m) PROVE UNCHANGED <<messages, partner>>
  BY <1>4, ModuleInitializesFacts
<1>5. CASE MainAdds \/ MainInitializes \/ Schedules \/ UNCHANGED allVars
  BY <1>5 DEF MainAdds, MainInitializes, Schedules, allVars, ours
<1>6. CASE \E t \in Times : MainSchedules(t) \/ MainRuns(t)
  BY <1>6 DEF MainSchedules, MainRuns, ours
<1>7. CASE \E m, q \in Modules : MainConnects(m, q)
  BY <1>7 DEF MainConnects
<1>8. QED BY <1>1, <1>2, <1>3, <1>4, <1>5, <1>6, <1>7 DEF ModulesNext

LEMMA CountTypesStep ==
    ASSUME SchedulerInv, BaseInv, CountTypes, Client = "ordered", [ModulesNext]_allVars
    PROVE  CountTypes'
<1> DEFINE Loggers == [enabled : BOOLEAN, names : 0..WARNING + 1, threshold : LogLevel]
<1>1. count' \in [Modules -> Nat] /\ lines' \in [Modules -> Nat]
  BY ReportingStep DEF Reports, reported, CountTypes
<1>2. /\ box' \in [Modules -> BOOLEAN] /\ startSend' \in [Modules -> BOOLEAN]
      /\ sendMessage' \in [Modules -> BOOLEAN]
  <2>1. CASE UNCHANGED messages
    BY <2>1 DEF messages, CountTypes
  <2>2. ASSUME NEW m \in Modules, TrySend(m)
        PROVE  /\ box' \in [Modules -> BOOLEAN] /\ startSend' \in [Modules -> BOOLEAN]
               /\ sendMessage' \in [Modules -> BOOLEAN]
    BY <2>2 DEF TrySend, messages, CountTypes
  <2>3. ASSUME NEW m \in Modules, UpdateState(m)
        PROVE  /\ box' \in [Modules -> BOOLEAN] /\ startSend' \in [Modules -> BOOLEAN]
               /\ sendMessage' \in [Modules -> BOOLEAN]
    <3>1. (startSend[m] \/ Arrived(m)) \in BOOLEAN
      BY DEF CountTypes, Arrived
    <3>2. QED BY <2>3, <3>1 DEF UpdateState, CountTypes
  <2>4. QED BY <2>1, <2>2, <2>3, ResumingStep
<1>3. partner' \in [Modules -> Modules \cup {None}]
  BY ResumingStep DEF Link, CountTypes
<1>4. logger' \in [Modules -> Loggers]
  <2>1. CASE UNCHANGED logger
    BY <2>1 DEF CountTypes
  <2>2. ASSUME NEW m \in Modules, logger' = Opened(m) \/ logger' = Closed(m)
        PROVE  logger' \in [Modules -> Loggers]
    <3>1. level[m] \in LevelNames
      BY DEF BaseInv, TaskInv
    <3>2. Leveled(OpenLogger, level[m]) \in Loggers /\ Leveled(NewLogger, level[m]) \in Loggers
      <4>1. ASSUME NEW e \in BOOLEAN, NEW t \in LogLevel
            PROVE  [enabled |-> e, names |-> WARNING + 1, threshold |-> t] \in Loggers
        BY DEF WARNING
      <4> HIDE DEF Loggers
      <4>2. QED BY <3>1, <4>1, LeveledFacts
    <3>3. logger \in [Modules -> Loggers]
      BY DEF CountTypes
    <3> HIDE DEF Loggers
    <3>4. QED BY <2>2, <3>2, <3>3 DEF Opened, Closed
  <2>3. QED BY <2>1, <2>2, SetupFrame, ModuleInitializesFacts DEF Outcome, setup
<1>5. QED BY <1>1, <1>2, <1>3, <1>4 DEF CountTypes

(* The members of the modules keep their types, for any modules and ports, *)
(* and each owns at most one nested module.                                *)
THEOREM ModulesTypeCorrect ==
    ASSUME Client = "ordered"
    PROVE  ModulesSpec => []ModulesTypeOK
<1>1. SchedulerInv /\ BaseInv /\ StatusInv /\ CountTypes => ModulesTypeOK
  <2>1. SUFFICES ASSUME SchedulerInv, BaseInv, StatusInv, CountTypes PROVE ModulesTypeOK
    OBVIOUS
  <2>2. Call = Modules \X {"update_state", "try_send"}
    BY DEF Call, FunctionNames
  <2>3. owed \in Seq(Call)
    <3>1. owed = <<>> \/ (\E c \in Call : owed = <<c>>) \/ \E m \in Modules : owed \in {Calls(m), <<Send(m)>>}
      <4>1. pc = "module" /\ 0 < pos => pos \in Modules
        BY <2>1, PosFacts, BoundsAssumption DEF BaseInv, Modules
      <4>2. QED BY <2>1, <4>1 DEF BaseInv, OwedInv, Send
    <3>2. /\ <<>> \in Seq(Call) /\ \A c \in Call : <<c>> \in Seq(Call)
          /\ \A c, d \in Call : <<c, d>> \in Seq(Call)
      OBVIOUS
    <3>3. \A m \in Modules : Calls(m) \in Seq(Call) /\ <<Send(m)>> \in Seq(Call)
      <4>1. ASSUME NEW m \in Modules PROVE Calls(m) \in Seq(Call) /\ <<Send(m)>> \in Seq(Call)
        <5>1. /\ Update(m) \in Call /\ Send(m) \in Call
              /\ Calls(m) = <<Update(m), Send(m)>> \/ Calls(m) = <<Update(m)>> \/ Calls(m) = <<>>
          BY CallsFacts
        <5>2. QED BY <3>2, <5>1
      <4>2. QED BY <4>1
    <3>4. QED BY <3>1, <3>2, <3>3
  <2>4. QED BY <2>1, <2>2, <2>3 DEF BaseInv, TaskInv, StatusInv, CountTypes, ModulesTypeOK, messages
<1>2. (SchedulerInv /\ BaseInv) /\ StatusInv /\ [ModulesNext]_allVars => StatusInv'
  BY StatusStep
<1>3. (SchedulerInv /\ BaseInv) /\ CountTypes /\ [ModulesNext]_allVars => CountTypes'
  BY CountTypesStep
<1>4. QED BY <1>1, <1>2, <1>3, StatusInit, LoggerInit, BaseAlways, PTL DEF ModulesSpec

(* The log follows the count from the first event of the module on.        *)
LEMMA LoggedStep ==
    ASSUME SchedulerInv, BaseInv, CountTypes, LoggerInv, LoggedExact, Client = "ordered",
           [ModulesNext]_allVars
    PROVE  LoggedExact'
<1> DEFINE Shows(m) == /\ type[m] \in {"FirstModule"} \cup Players /\ level[m] <= INFO
                       /\ Plays(m) => logger[m].enabled
<1>1. ASSUME NEW m \in Modules PROVE lines[m] = IF Shows(m) THEN count[m] ELSE 0
  BY DEF LoggedExact
<1>2. UNCHANGED <<type, level>> /\ \A m \in Modules : Plays(m)' <=> Plays(m)
  BY SetupFrame, ModuleInitializesFacts DEF configuration, Plays
<1>3. CASE UNCHANGED reported
  <2>1. UNCHANGED <<count, lines>>
    BY <1>3 DEF reported
  <2>2. CASE ~ \E m \in Modules : ModuleInitializes(m)
    <3>1. UNCHANGED logger
      BY <2>2, SetupFrame DEF setup
    <3>2. QED BY <1>2, <2>1, <3>1 DEF LoggedExact
  <2>3. ASSUME NEW m \in Modules, ModuleInitializes(m) PROVE LoggedExact'
    <3>1. PICK ok \in BOOLEAN : Outcome(m, ok)
      BY <2>3, ModuleInitializesFacts
    <3>2. \A r \in Modules \ {m} : logger'[r] = logger[r]
      BY <3>1 DEF Outcome, Opened, Closed, CountTypes
    <3>3. count[m] = 0 /\ lines[m] = 0
      BY <1>1, <2>3, InitializesBegun DEF LoggerInv
    <3>4. ASSUME NEW r \in Modules
          PROVE  lines'[r] = IF /\ type'[r] \in {"FirstModule"} \cup Players /\ level'[r] <= INFO
                                /\ Plays(r)' => logger'[r].enabled
                             THEN count'[r] ELSE 0
      <4>1. CASE r = m
        BY <2>1, <3>3, <4>1
      <4>2. CASE r # m
        BY <1>1, <1>2, <2>1, <3>2, <4>2
      <4>3. QED BY <4>1, <4>2
    <3>5. QED BY <3>4 DEF LoggedExact
  <2>4. QED BY <2>2, <2>3
<1>4. ASSUME NEW c \in Call, Begun(c), c[1] \in Modules, Reports(c[1]), ~UNCHANGED reported
      PROVE  LoggedExact'
  <2>1. PICK m \in Modules : m = c[1] /\ \E f \in FunctionNames : Begun(<<m, f>>)
    BY <1>4 DEF Call
  <2>2. UNCHANGED logger
    BY <1>4, SetupFrame, ModuleInitializesFacts DEF setup
  <2>3. Logs(m) /\ Named(m) <=> Shows(m)
    <3>1. /\ level[m] \in LevelNames /\ level[m] \in Nat
          /\ logger[m] \in {NewLogger, Leveled(OpenLogger, level[m]), Leveled(NewLogger, level[m])}
          /\ type[m] = "FirstModule" => logger[m] = Leveled(OpenLogger, level[m])
          /\ Plays(m) => logger[m] # NewLogger
          /\ ~Plays(m) /\ type[m] # "FirstModule" => logger[m] = NewLogger
      BY <2>1, ModulesAssumption DEF BaseInv, TaskInv, LoggerInv
    <3>2. Plays(m) <=> type[m] \in Players
      BY DEF Plays
    <3>3. INFO < WARNING + 1
      BY DEF INFO, WARNING
    <3>4. CASE logger[m] = NewLogger
      BY <3>1, <3>2, <3>4, LeveledFacts DEF Logs
    <3>5. CASE logger[m] = Leveled(OpenLogger, level[m])
      <4>1. /\ logger[m].enabled = TRUE /\ logger[m].names = WARNING + 1
            /\ INFO >= logger[m].threshold <=> level[m] <= INFO
        BY <3>1, <3>5, LeveledFacts
      <4>2. logger[m] # NewLogger
        BY <4>1 DEF NewLogger
      <4>3. QED BY <3>1, <3>2, <3>3, <4>1, <4>2 DEF Logs, Named
    <3>6. CASE logger[m] = Leveled(NewLogger, level[m])
      <4>1. logger[m].enabled = FALSE /\ logger[m] # NewLogger
        BY <3>1, <3>6, LeveledFacts
      <4>2. Plays(m)
        <5>1. Leveled(OpenLogger, level[m]).enabled = TRUE
          BY <3>1, LeveledFacts
        <5>2. QED BY <3>1, <4>1, <5>1
      <4>3. QED BY <4>1, <4>2 DEF Logs
    <3>7. QED BY <3>1, <3>4, <3>5, <3>6
  <2>4. /\ count'[m] = count[m] + 1 /\ lines'[m] = IF Shows(m) THEN lines[m] + 1 ELSE lines[m]
        /\ \A r \in Modules \ {m} : count'[r] = count[r] /\ lines'[r] = lines[r]
        /\ count[m] \in Nat
    BY <1>4, <2>1, <2>3 DEF Reports, CountTypes
  <2>5. ASSUME NEW r \in Modules
        PROVE  lines'[r] = IF /\ type'[r] \in {"FirstModule"} \cup Players /\ level'[r] <= INFO
                              /\ Plays(r)' => logger'[r].enabled
                           THEN count'[r] ELSE 0
    <3>1. CASE r = m
      BY <1>1, <1>2, <2>2, <2>4, <3>1
    <3>2. CASE r # m
      BY <1>1, <1>2, <2>2, <2>4, <3>2
    <3>3. QED BY <3>1, <3>2
  <2>6. QED BY <2>5 DEF LoggedExact
<1>5. QED BY <1>3, <1>4, ReportingStep

(* The log holds a line for each thing counted when the configured level   *)
(* lets it through, and none otherwise, for any levels and any order in    *)
(* which the modules and their loggers are set up.                         *)
THEOREM LoggedExactAlways ==
    ASSUME Client = "ordered"
    PROVE  ModulesSpec => []LoggedExact
<1> DEFINE Inv == CountTypes /\ LoggerInv /\ LoggedExact
<1>1. ModulesInit => Inv
  BY LoggerInit
<1>2. (SchedulerInv /\ BaseInv) /\ Inv /\ [ModulesNext]_allVars => Inv'
  BY CountTypesStep, LoggerStep, LoggedStep
<1>3. QED BY <1>1, <1>2, BaseAlways, PTL DEF ModulesSpec

(* What aborts is a schedule call of an event of a module. *)
LEMMA AbortingStep ==
    ASSUME SchedulerInv, BaseInv, Client = "ordered", [ModulesNext]_allVars,
           pc # "aborted", pc' = "aborted"
    PROVE  SchedulesNext
<1> USE DEF members, control
<1>1. ~(MainAdds \/ MainInitializes)
  BY DEF MainAdds, AddModule, MainInitializes, Initialize, EnterInitialize
<1>2. ~ \E t \in Times : MainSchedules(t) \/ MainRuns(t)
  BY FutureEnqueues DEF MainSchedules, MainRuns, RunAt, EnterInitialize
<1>3. ~ \E m, q \in Modules : MainConnects(m, q)
  BY DEF MainConnects, vars
<1>4. ~ \E m \in Modules : ModuleInitializes(m)
  BY ModuleInitializesFacts
<1>5. ~SchedulesFirst
  BY SchedulesFirstFacts
<1>6. ~CallEvent
  BY CallEventFacts
<1>7. ~Schedules
  <2>1. ~Start
    <3>1. pc = "start" => currentTime < finalTime
      BY DEF BaseInv, ProgramInv
    <3>2. QED BY <3>1 DEF Start
  <2>2. QED BY <2>1 DEF Schedules, ModulesDone, PushTick, LeaveInitialize,
               QueueDrained, FinalTimeReached, NextTick, EndTick, Return
<1>8. ~UNCHANGED allVars
  BY DEF allVars, vars
<1>9. QED BY <1>1, <1>2, <1>3, <1>4, <1>5, <1>6, <1>7, <1>8 DEF ModulesNext

(* Once it has failed, nothing is scheduled. *)
LEMMA AbortedTask ==
    ASSUME SchedulerInv, BaseInv, Client = "ordered", [ModulesNext]_allVars, pc = "aborted"
    PROVE  UNCHANGED task
<1>1. ~SchedulesFirst /\ ~SchedulesNext /\ ~ \E t \in Times : MainSchedules(t)
  BY DEF SchedulesFirst, SchedulesNext, MainSchedules
<1>2. (\E m \in Modules : ModuleInitializes(m)) \/ CallEvent => UNCHANGED task
  BY ModuleInitializesFacts DEF CallEvent
<1>3. MainAdds \/ MainInitializes \/ (\E t \in Times : MainRuns(t)) \/ Schedules => UNCHANGED task
  BY DEF MainAdds, MainInitializes, MainRuns, Schedules, ours
<1>4. (\E m, q \in Modules : MainConnects(m, q)) => UNCHANGED task
  BY DEF MainConnects
<1>5. UNCHANGED allVars => UNCHANGED task
  BY DEF allVars, ours
<1>6. QED BY <1>1, <1>2, <1>3, <1>4, <1>5 DEF ModulesNext

(* An assertion fails in no other way than for a schedule call that passes *)
(* the end of time, or one with a period of zero that Parameters::set()    *)
(* has put in the place of a validated one: the module that calls is the   *)
(* one whose period it is.                                                 *)
THEOREM AbortsOnlyAtEndAlways ==
    ASSUME Client = "ordered"
    PROVE  ModulesSpec => []AbortsOnlyAtEnd
<1>1. ModulesInit => AbortsOnlyAtEnd
  BY DEF ModulesInit, Init, AbortsOnlyAtEnd
<1>2. (SchedulerInv /\ BaseInv) /\ AbortsOnlyAtEnd /\ [ModulesNext]_allVars => AbortsOnlyAtEnd'
  <2>1. SUFFICES ASSUME SchedulerInv, BaseInv, AbortsOnlyAtEnd, [ModulesNext]_allVars, pc' = "aborted"
                 PROVE  AbortsOnlyAtEnd'
    BY DEF AbortsOnlyAtEnd
  <2> USE DEF members, control
  <2>2. CASE pc = "aborted"
    <3>1. UNCHANGED <<vars, configuration>>
      BY <2>1, <2>2, ModulesCalls, AbortedStays, SetupFrame, ModuleInitializesFacts DEF vars
    <3>2. UNCHANGED task
      BY <2>1, <2>2, AbortedTask
    <3>3. QED BY <2>1, <2>2, <3>1, <3>2 DEF AbortsOnlyAtEnd, Picoseconds, vars, configuration
  <2>3. CASE pc # "aborted"
    <3>1. SchedulesNext
      BY <2>1, <2>3, AbortingStep
    <3>2. PICK c, p : c = Head(owed) /\ p = Picoseconds(c[1])
      OBVIOUS
    <3>3. PICK m \in Modules : m = c[1]
      BY <2>1, <3>1, <3>2, SchedulesNextFacts, HeadFacts
    <3>4. /\ UNCHANGED <<configuration, state, currentTime>> /\ pc = "tick"
          /\ ~Future(Plus(currentTime, p)) /\ owed # <<>>
          /\ task' = Append(task, c) /\ c \in Call
      BY <2>1, <2>3, <3>1, <3>2, SchedulesNextFacts, HeadFacts
    <3>5. /\ Check(m) /\ p \in Nat /\ p < Pow2[NUM_BITS]
      BY <2>1, <3>2, <3>3, <3>4, HeadFacts
    <3>6. currentTime + p >= Pow2[NUM_BITS] \/ p = 0
      <4>1. /\ Pow2[NUM_BITS] \in Nat \ {0} /\ currentTime \in Nat
        BY <2>1, PosFacts, Pow2Positive, NumBitsAssumption DEF BaseInv, Buckets
      <4>2. ~(currentTime < Plus(currentTime, p))
        BY <3>4 DEF Future
      <4>3. PICK S \in Nat \ {0} : S = Pow2[NUM_BITS]
        BY <4>1
      <4>4. currentTime + p < S => (currentTime + p) % S = currentTime + p
        BY <3>5, <4>1, <4>3
      <4>5. QED BY <3>5, <4>1, <4>2, <4>3, <4>4 DEF Plus
    <3>7. p = 0 => ~validated[m]
      BY <2>1, <3>2, <3>3, <3>5, CheckFacts DEF BaseInv
    <3>8. /\ Picoseconds(m)' = p /\ UNCHANGED currentTime
          /\ validated'[m] = validated[m] /\ task'[Len(task')] = c
      <4>1. Len(task') = Len(task) + 1 /\ task'[Len(task) + 1] = c
        BY <2>1, <3>4, AppendProperties DEF BaseInv, TaskInv
      <4>2. QED BY <3>2, <3>3, <3>4, <4>1, ConfigurationFrame DEF configuration
    <3>9. \/ currentTime' + Picoseconds(m)' >= Pow2[NUM_BITS]
          \/ Picoseconds(m)' = 0 /\ ~validated'[m]
      BY <3>6, <3>7, <3>8
    <3>10. task'[Len(task')][1] = m
      BY <3>3, <3>8
    <3>11. Picoseconds(m)' = T!Parsed(period'[m])
      BY DEF Picoseconds
    <3>12. QED BY <3>9, <3>10, <3>11 DEF AbortsOnlyAtEnd, Picoseconds
  <2>4. QED BY <2>2, <2>3
<1>3. QED BY <1>1, <1>2, BaseAlways, PTL DEF ModulesSpec

-----------------------------------------------------------------------------
(* The rounds of a function. *)

LEMMA NoAbort ==
    ASSUME SchedulerInv, BaseInv, Client = "ordered", [ModulesNext]_allVars, pc' # "aborted"
    PROVE  pc # "aborted"
<1>1. CASE pc = "aborted"
  <2>1. UNCHANGED vars
    BY <1>1, ModulesCalls, AbortedStays
  <2>2. QED BY <1>1, <2>1 DEF vars, control
<1>2. QED BY <1>1

(* The clock moves when nothing is owed. *)
LEMMA TimeStep ==
    ASSUME SchedulerInv, BaseInv, Client = "ordered", [ModulesNext]_allVars
    PROVE  /\ currentTime <= currentTime' /\ currentTime \in Nat
           /\ currentTime' # currentTime => owed = <<>> /\ owed' = <<>>
<1>1. currentTime \in Nat
  BY PosFacts DEF BaseInv
<1>2. currentTime <= currentTime'
  <2>1. ES!Next \/ UNCHANGED <<currentTime, target, executed>>
    BY ModulesCalls, ScheduleStep DEF SchedulerInv
  <2>2. QED BY <1>1, <2>1 DEF ES!Next, ES!Submit, ES!Advance, ES!Fire
<1>3. ASSUME currentTime' # currentTime PROVE owed = <<>> /\ owed' = <<>>
  <2> USE DEF members, control
  <2>1. ~(MainAdds \/ MainInitializes \/ \E t \in Times : MainSchedules(t) \/ MainRuns(t))
    BY <1>3, FutureEnqueues DEF MainAdds, AddModule, MainInitializes, Initialize, MainSchedules, MainRuns, RunAt
  <2>2. ~ \E m, q \in Modules : MainConnects(m, q)
    BY <1>3 DEF MainConnects, vars
  <2>3. ~(\E m \in Modules : ModuleInitializes(m)) /\ ~SchedulesFirst /\ ~SchedulesNext /\ ~CallEvent
    BY <1>3, ModuleInitializesFacts, SchedulesFirstFacts, SchedulesNextFacts, CallEventFacts
  <2>4. Schedules \/ UNCHANGED allVars
    BY <2>1, <2>2, <2>3 DEF ModulesNext
  <2>5. QED BY <1>3, <2>4 DEF Schedules, ours, allVars, vars
<1>4. QED BY <1>1, <1>2, <1>3

(* The copies of a function that have run, and those that have not. *)
Undisturbed(c) ==
    /\ UNCHANGED <<Copies(c), Done(c), Left(c)>> /\ Issued \subseteq Issued'
    /\ \A e \in Issued : target'[e] = target[e]
    /\ Resuming(c)' <=> Resuming(c)
    /\ Beginning(c)' <=> Beginning(c)

LEMMA CopiesFrame ==
    ASSUME UNCHANGED <<task, target>>
    PROVE  \A c : UNCHANGED Copies(c) /\ UNCHANGED Issued
  BY DEF Copies, Issued

(* The new event of a schedule call is one more copy of its function. *)
LEMMA CopiesAppend ==
    ASSUME SchedulerInv, BaseInv, pc # "aborted", NEW t \in Times, target' = Append(target, t),
           NEW h \in Call \cup {None}, task' = Append(task, h), UNCHANGED executed
    PROVE  LET n == Len(target) + 1
           IN  /\ n \notin Issued /\ n \notin Called /\ n \in Issued' /\ target'[n] = t
               /\ Issued \subseteq Issued' /\ \A e \in Issued : target'[e] = target[e]
               /\ UNCHANGED Called
               /\ \A c : Copies(c)' = IF c = h THEN Copies(c) \cup {n} ELSE Copies(c)
<1> DEFINE n == Len(target) + 1
<1>1. TypeOK /\ task \in Seq(Call \cup {None}) /\ Len(task) = Len(target)
  BY PosFacts DEF BaseInv, TaskInv
<1>2. /\ Issued' = Issued \cup {n} /\ n \in Nat /\ n \notin Issued /\ Issued \subseteq Nat
      /\ Len(target') = n /\ target'[n] = t
      /\ \A e \in Issued : target'[e] = target[e]
  BY <1>1, IssuedAfter
<1>3. /\ task'[n] = h /\ \A e \in Issued : task'[e] = task[e]
  BY <1>1, AppendProperties DEF Issued
<1>4. UNCHANGED Called /\ n \notin Called
  <2>1. Called \subseteq Issued
    BY CalledFirst DEF SchedulerInv
  <2>2. QED BY <1>2, <2>1 DEF Called
<1>5. \A c : Copies(c)' = IF c = h THEN Copies(c) \cup {n} ELSE Copies(c)
  BY <1>2, <1>3 DEF Copies
<1>6. QED BY <1>2, <1>4, <1>5

(* A step leaves a function that has begun alone, unless it is the one it  *)
(* schedules or calls.                                                     *)
LEMMA UndisturbedStep ==
    ASSUME SchedulerInv, BaseInv, Client = "ordered", [ModulesNext]_allVars, pc' # "aborted",
           NEW c \in Call, Begun(c)
    PROVE  \/ Undisturbed(c)
           \/ (SchedulesFirst \/ SchedulesNext) /\ c = Head(owed)
           \/ CallEvent /\ owed' = <<c>>
<1>0. pc # "aborted"
  BY NoAbort
<1>1. ASSUME owed = <<>> PROVE ~Resuming(c) /\ ~Beginning(c)
  BY <1>1 DEF Resuming, Beginning, Owing
<1>2. ASSUME owed' = <<>> PROVE ~Resuming(c)' /\ ~Beginning(c)'
  BY <1>2 DEF Resuming, Beginning, Owing
<1>3. ASSUME UNCHANGED <<task, target, executed>>, owed = <<>>, owed' = <<>> PROVE Undisturbed(c)
  BY <1>1, <1>2, <1>3, CopiesFrame DEF Undisturbed, Done, Left, Called, Issued
<1>4. CASE MainAdds \/ MainInitializes \/ \E t \in Times : MainRuns(t)
  <2>1. pc = "idle" /\ UNCHANGED <<task, target, executed, owed>>
    BY <1>4 DEF MainAdds, AddModule, MainInitializes, Initialize, MainRuns, RunAt, ours
  <2>2. owed = <<>>
    BY <2>1 DEF BaseInv, OwedInv
  <2>3. QED BY <1>3, <2>1, <2>2
<1>5. ASSUME NEW t \in Times, MainSchedules(t) PROVE Undisturbed(c)
  <2>1. /\ UNCHANGED <<executed, owed>> /\ target' = Append(target, t) /\ task' = Append(task, None) /\ pc = "idle"
    BY <1>5, FutureEnqueues DEF MainSchedules
  <2>2. owed = <<>> /\ c # None
    BY <2>1, NoneAssumption DEF BaseInv, OwedInv, Call, Modules, FunctionNames
  <2>3. QED BY <1>0, <1>1, <1>2, <2>1, <2>2, CopiesAppend DEF Undisturbed, Done, Left
<1>6. CASE \E m, q \in Modules : MainConnects(m, q)
  <2>1. pc = "idle" /\ UNCHANGED <<task, target, executed, owed>>
    BY <1>6 DEF MainConnects, vars
  <2>2. owed = <<>>
    BY <2>1 DEF BaseInv, OwedInv
  <2>3. QED BY <1>3, <2>1, <2>2
<1>7. ASSUME NEW m \in Modules, ModuleInitializes(m) PROVE Undisturbed(c)
  <2>1. UNCHANGED <<task, target, executed>> /\ owed = <<>> /\ pc' = "module" /\ owed' \in {<<>>, Calls(m)}
    BY <1>7, ModuleInitializesFacts DEF Outcome
  <2>2. c \notin CallsOf(m)
    BY <1>7, InitializesBegun, CallsOfFacts
  <2>3. ~Owing(c)'
    BY <2>1, <2>2 DEF Owing, CallsOf
  <2>4. ~Resuming(c)' /\ ~Beginning(c)'
    BY <2>1, <2>3 DEF Resuming, Beginning
  <2>5. QED BY <1>1, <2>1, <2>4, CopiesFrame DEF Undisturbed, Done, Left, Called, Issued
<1>8. CASE SchedulesFirst
  <2>1. PICK h : h = Head(owed)
    OBVIOUS
  <2>2. /\ pc = "module" /\ pc' = pc /\ owed # <<>> /\ target' = Append(target, FirstAt(h))
        /\ task' = Append(task, h) /\ owed' = Tail(owed) /\ UNCHANGED executed
    BY <1>8, <2>1, SchedulesFirstFacts DEF control
  <2>3. h \in Call /\ FirstAt(h) \in Times
    BY <2>1, <2>2, HeadFacts
  <2>4. Owing(c)' <=> Owing(c) /\ c # h
    BY <2>1, <2>2, OwedToTask
  <2>5. CASE c # h
    BY <1>0, <2>2, <2>3, <2>4, <2>5, CopiesAppend DEF Undisturbed, Done, Left, Resuming, Beginning
  <2>6. QED BY <1>8, <2>1, <2>5
<1>9. CASE SchedulesNext
  <2>1. PICK h, p : h = Head(owed) /\ p = Picoseconds(h[1])
    OBVIOUS
  <2>2. /\ pc = "tick" /\ owed = <<h>> /\ owed' = <<>> /\ owed # <<>> /\ task' = Append(task, h)
        /\ target' = Append(target, currentTime + p) /\ currentTime + p \in Times /\ UNCHANGED executed
        /\ pc' = pc
    BY <1>9, <2>1, SchedulesNextFacts
  <2>3. h \in Call
    BY <2>1, <2>2, HeadFacts
  <2>4. CASE c # h
    <3>1. ~Resuming(c) /\ ~Beginning(c) /\ ~Resuming(c)' /\ ~Beginning(c)'
      BY <1>2, <2>2, <2>4 DEF Resuming, Beginning
    <3>2. QED BY <1>0, <2>2, <2>3, <2>4, <3>1, CopiesAppend DEF Undisturbed, Done, Left
  <2>5. QED BY <1>9, <2>1, <2>4
<1>10. CASE CallEvent
  <2>1. PICK e \in Issued \ Called :
              /\ executed' = Append(executed, e) /\ pc' = "tick" /\ owed = <<>>
              /\ owed' = IF task[e] = None THEN <<>> ELSE <<task[e]>>
              /\ UNCHANGED <<task, target>>
    BY <1>10, CallEventFacts
  <2>2. QED
    <3>1. CASE owed' = <<c>>
      BY <1>10, <3>1
    <3>2. CASE owed' # <<c>>
      <4>1. e \notin Copies(c)
        <5>1. c # None
          BY NoneAssumption DEF Call, Modules, FunctionNames
        <5>2. QED BY <2>1, <3>2, <5>1 DEF Copies
      <4>2. Called' = Called \cup {e}
        BY <2>1, PosFacts, CalledAfter DEF BaseInv
      <4>3. ~Resuming(c)' /\ ~Beginning(c)'
        BY <2>1, <3>2 DEF Resuming, Beginning
      <4>4. UNCHANGED Copies(c) /\ UNCHANGED Issued
        BY <2>1, CopiesFrame
      <4>5. QED BY <1>1, <2>1, <4>1, <4>2, <4>3, <4>4 DEF Undisturbed, Done, Left
    <3>3. QED BY <3>1, <3>2
<1>11. CASE Schedules
  <2>1. owed = <<>> /\ UNCHANGED <<owed, task>>
    BY <1>11 DEF Schedules, ours
  <2>2. UNCHANGED <<target, executed>>
    BY <1>11 DEF Schedules, ModulesDone, PushTick, LeaveInitialize, Start, QueueDrained,
                 FinalTimeReached, NextTick, EndTick, Return
  <2>3. QED BY <1>3, <2>1, <2>2
<1>12. CASE UNCHANGED allVars
  <2>1. UNCHANGED <<task, target, executed, owed, pc>>
    BY <1>12 DEF allVars, ours, vars, control
  <2>2. QED BY <2>1, CopiesFrame DEF Undisturbed, Done, Left, Called, Issued, Resuming, Beginning, Owing
<1>13. QED
  BY <1>4, <1>5, <1>6, <1>7, <1>8, <1>9, <1>10, <1>11, <1>12 DEF ModulesNext

LEMMA DoneFacts ==
    ASSUME SchedulerInv, BaseInv, NEW c
    PROVE  IsFiniteSet(Done(c)) /\ Cardinality(Done(c)) \in Nat
<1>1. Done(c) \subseteq 1..Len(target) /\ Len(target) \in Nat
  BY PosFacts, EventTypes DEF Done, Copies, Issued, BaseInv
<1>2. IsFiniteSet(1..Len(target))
  BY <1>1, FS_Interval
<1>3. QED BY <1>1, <1>2, FS_Subset, FS_CardinalityType

(* The event is numbered above all there have been.                        *)
Newest(n) == \A e \in Issued : e < n

(* What the function that is scheduled or called goes through. *)
LEMMA DisturbedStep ==
    ASSUME SchedulerInv, BaseInv, Client = "ordered", [ModulesNext]_allVars, pc' # "aborted",
           NEW c \in Call, Begun(c)
    PROVE  /\ SchedulesFirst /\ c = Head(owed) =>
                /\ Beginning(c) /\ ~Beginning(c)' /\ ~Resuming(c) /\ ~Resuming(c)' /\ UNCHANGED Done(c)
                /\ \E n \in Issued' : Newest(n) /\ Left(c)' = Left(c) \cup {n} /\ target'[n] = FirstAt(c)
           /\ SchedulesNext /\ c = Head(owed) =>
                /\ ~Beginning(c) /\ ~Beginning(c)' /\ Resuming(c) /\ ~Resuming(c)' /\ UNCHANGED Done(c)
                /\ \E n \in Issued' : Newest(n) /\ Left(c)' = Left(c) \cup {n} /\ target'[n] = currentTime + Picoseconds(c[1])
           /\ CallEvent /\ owed' = <<c>> =>
                /\ ~Beginning(c) /\ ~Beginning(c)' /\ ~Resuming(c) /\ Resuming(c)'
                /\ \E e \in Left(c) : /\ Done(c)' = Done(c) \cup {e} /\ e \notin Done(c)
                                      /\ Left(c)' = Left(c) \ {e} /\ target[e] = currentTime
<1>0. pc # "aborted" /\ Newest(Len(target) + 1)
  BY NoAbort, PosFacts, EventTypes DEF BaseInv, Newest, Issued
<1>1. ASSUME SchedulesFirst, c = Head(owed)
      PROVE  /\ Beginning(c) /\ ~Beginning(c)' /\ ~Resuming(c) /\ ~Resuming(c)' /\ UNCHANGED Done(c)
             /\ \E n \in Issued' : Newest(n) /\ Left(c)' = Left(c) \cup {n} /\ target'[n] = FirstAt(c)
  <2>1. /\ pc = "module" /\ pc' = pc /\ owed # <<>> /\ target' = Append(target, FirstAt(c))
        /\ task' = Append(task, c) /\ owed' = Tail(owed) /\ UNCHANGED executed
    BY <1>1, SchedulesFirstFacts DEF control
  <2>2. FirstAt(c) \in Times /\ Owing(c)
    BY <1>1, <2>1, HeadFacts
  <2>3. ~Owing(c)'
    BY <1>1, <2>1, OwedToTask
  <2>4. Copies(c)' = Copies(c) \cup {Len(target) + 1}
    BY <1>0, <2>1, <2>2, CopiesAppend
  <2>5. /\ Len(target) + 1 \notin Called /\ Len(target) + 1 \in Issued' /\ UNCHANGED Called
        /\ target'[Len(target) + 1] = FirstAt(c)
    BY <1>0, <2>1, <2>2, CopiesAppend
  <2>6. QED BY <1>0, <2>1, <2>2, <2>3, <2>4, <2>5 DEF Resuming, Beginning, Done, Left
<1>2. ASSUME SchedulesNext, c = Head(owed)
      PROVE  /\ ~Beginning(c) /\ ~Beginning(c)' /\ Resuming(c) /\ ~Resuming(c)' /\ UNCHANGED Done(c)
             /\ \E n \in Issued' : Newest(n) /\ Left(c)' = Left(c) \cup {n} /\ target'[n] = currentTime + Picoseconds(c[1])
  <2>1. PICK p : p = Picoseconds(c[1])
    OBVIOUS
  <2>2. /\ pc = "tick" /\ owed = <<c>> /\ owed' = <<>> /\ task' = Append(task, c)
        /\ target' = Append(target, currentTime + p) /\ currentTime + p \in Times /\ UNCHANGED executed
        /\ pc' = pc
    BY <1>2, <2>1, SchedulesNextFacts
  <2>3. Copies(c)' = Copies(c) \cup {Len(target) + 1}
    BY <1>0, <2>2, CopiesAppend
  <2>4. /\ Len(target) + 1 \notin Called /\ Len(target) + 1 \in Issued' /\ UNCHANGED Called
        /\ target'[Len(target) + 1] = currentTime + p
    BY <1>0, <2>2, CopiesAppend
  <2>5. QED BY <1>0, <2>1, <2>2, <2>3, <2>4 DEF Resuming, Beginning, Done, Left
<1>3. ASSUME CallEvent, owed' = <<c>>
      PROVE  /\ ~Beginning(c) /\ ~Beginning(c)' /\ ~Resuming(c) /\ Resuming(c)'
             /\ \E e \in Left(c) : /\ Done(c)' = Done(c) \cup {e} /\ e \notin Done(c)
                                   /\ Left(c)' = Left(c) \ {e} /\ target[e] = currentTime
  <2>1. PICK e \in Issued \ Called :
              /\ executed' = Append(executed, e) /\ pc = "tick" /\ pc' = "tick" /\ owed = <<>>
              /\ owed' = IF task[e] = None THEN <<>> ELSE <<task[e]>>
              /\ UNCHANGED <<task, target>> /\ target[e] = currentTime
    BY <1>3, CallEventFacts
  <2>2. e \in Left(c)
    BY <1>3, <2>1 DEF Left, Copies
  <2>3. Called' = Called \cup {e}
    BY <2>1, PosFacts, CalledAfter DEF BaseInv
  <2>4. UNCHANGED Copies(c)
    BY <2>1, CopiesFrame
  <2>5. ~Resuming(c) /\ Resuming(c)' /\ ~Beginning(c) /\ ~Beginning(c)'
    BY <1>3, <2>1 DEF Resuming, Beginning, Owing
  <2>6. QED BY <2>1, <2>2, <2>3, <2>4, <2>5 DEF Done, Left
<1>4. QED BY <1>1, <1>2, <1>3

(* A round ends when the function schedules itself again. *)
LEMMA RunsStep ==
    ASSUME SchedulerInv, BaseInv, Client = "ordered", [ModulesNext]_allVars, pc' # "aborted",
           NEW c \in Call, Begun(c), Runs(c) \in Nat
    PROVE  /\ Runs(c)' = IF SchedulesNext /\ c = Head(owed) THEN Runs(c) + 1 ELSE Runs(c)
           /\ NextAt(c)' = FirstAt(c) + Runs(c)' * Picoseconds(c[1])
<1>0. NextAt(c)' = FirstAt(c) + Runs(c)' * Picoseconds(c[1])
  <2>1. UNCHANGED configuration
    BY SetupFrame, ModuleInitializesFacts
  <2>2. FirstAt(c)' = FirstAt(c) /\ c[1] \in Modules
    BY <2>1, ConfigurationFrame DEF Call
  <2>3. Picoseconds(c[1])' = Picoseconds(c[1])
    BY <2>1, <2>2, ConfigurationFrame
  <2>4. QED BY <2>2, <2>3 DEF NextAt
<1>1. IsFiniteSet(Done(c)) /\ Cardinality(Done(c)) \in Nat
  BY DoneFacts
<1>2. CASE Undisturbed(c)
  <2>1. Runs(c)' = Runs(c)
    BY <1>2 DEF Undisturbed, Runs
  <2>2. ~(SchedulesNext /\ c = Head(owed))
    BY <1>2, DisturbedStep DEF Undisturbed
  <2>3. QED BY <1>0, <2>1, <2>2
<1>3. CASE SchedulesFirst /\ c = Head(owed)
  <2>1. Runs(c)' = Runs(c)
    BY <1>3, DisturbedStep DEF Runs
  <2>2. ~SchedulesNext
    BY <1>3 DEF SchedulesFirst, SchedulesNext
  <2>3. QED BY <1>0, <2>1, <2>2
<1>4. CASE SchedulesNext /\ c = Head(owed)
  <2>1. Resuming(c) /\ ~Resuming(c)' /\ UNCHANGED Done(c)
    BY <1>4, DisturbedStep
  <2>2. Runs(c)' = Cardinality(Done(c)) - 0
    BY <2>1 DEF Runs
  <2>3. Runs(c) = Cardinality(Done(c)) - 1
    BY <2>1 DEF Runs
  <2>4. QED BY <1>0, <1>1, <1>4, <2>2, <2>3
<1>5. CASE CallEvent /\ owed' = <<c>>
  <2>1. PICK e \in Left(c) : Done(c)' = Done(c) \cup {e} /\ e \notin Done(c)
    BY <1>5, DisturbedStep
  <2>2. Cardinality(Done(c)') = Cardinality(Done(c)) + 1
    BY <1>1, <2>1, FS_AddElement
  <2>3. ~Resuming(c) /\ Resuming(c)'
    BY <1>5, DisturbedStep
  <2>4. Runs(c)' = Cardinality(Done(c)') - 1
    BY <2>3 DEF Runs
  <2>5. Runs(c) = Cardinality(Done(c)) - 0
    BY <2>3 DEF Runs
  <2>6. ~SchedulesNext
    BY <1>5, CallEventFacts DEF SchedulesNext, Owes
  <2>7. QED BY <1>0, <1>1, <2>2, <2>4, <2>5, <2>6
<1>6. QED BY <1>2, <1>3, <1>4, <1>5, UndisturbedStep

(* The functions of a module that has just been initialized have not run.  *)
LEMMA RunsBegin ==
    ASSUME SchedulerInv, BaseInv, NEW m \in Modules, ModuleInitializes(m), NEW c \in Call,
           ~Begun(c), Begun(c)'
    PROVE  /\ c \in CallsOf(m) /\ owed' = Calls(m) /\ Check(m)
           /\ Copies(c)' = {} /\ Runs(c)' = 0 /\ Beginning(c)' /\ ~Resuming(c)'
<1>1. c \in CallsOf(m) /\ owed' = Calls(m) /\ Check(m) /\ pc' = "module" /\ UNCHANGED <<task, target>>
  BY InitializesBegun, ModuleInitializesFacts DEF Outcome
<1>2. Owing(c)'
  BY <1>1 DEF CallsOf, Owing
<1>3. Copies(c)' = {}
  <2>1. Len(task) = Len(target)
    BY ModuleInitializesFacts DEF BaseInv, TaskInv
  <2>2. QED BY <1>1, <2>1 DEF Begun, Copies, Issued
<1>4. Beginning(c)' /\ ~Resuming(c)'
  BY <1>1, <1>2 DEF Beginning, Resuming
<1>5. Runs(c)' = 0
  <2>1. Done(c)' = {}
    BY <1>3 DEF Done
  <2>2. Cardinality(Done(c)') = 0
    BY <2>1, FS_EmptySet
  <2>3. Runs(c)' = Cardinality(Done(c)') - 0
    BY <1>4 DEF Runs
  <2>4. QED BY <2>2, <2>3
<1>6. QED BY <1>1, <1>3, <1>4, <1>5

(* What has begun has a period. *)
LEMMA BegunFacts ==
    ASSUME BaseInv, NEW c \in Call, Begun(c)
    PROVE  /\ c[1] \in Modules /\ c = <<c[1], c[2]>> /\ c[2] \in FunctionNames
           /\ Check(c[1]) /\ Periodic(c[1]) /\ Entered(c[1]) /\ c \in CallsOf(c[1])
           /\ period[c[1]] # None
           /\ Picoseconds(c[1]) \in Nat /\ FirstAt(c) \in Nat /\ FirstAt(c) <= Picoseconds(c[1])
<1>1. c[1] \in Modules /\ c = <<c[1], c[2]>> /\ c[2] \in FunctionNames
  BY DEF Call
<1>2. Check(c[1]) /\ Periodic(c[1]) /\ Entered(c[1]) /\ c \in CallsOf(c[1])
  BY <1>1 DEF BaseInv, BegunInv
<1>3. period[c[1]] # None
  BY <1>1, <1>2, CheckFacts DEF BaseInv
<1>4. Picoseconds(c[1]) \in Nat
  BY <1>1, <1>3, PicosecondsFacts DEF BaseInv
<1>5. FirstAt(c) \in Nat /\ FirstAt(c) <= Picoseconds(c[1])
  BY <1>4 DEF FirstAt
<1>6. QED BY <1>1, <1>2, <1>3, <1>4, <1>5

LEMMA MulStep == \A a, p \in Nat : (a + 1) * p = a * p + p /\ a * p \in Nat
  OBVIOUS

LEMMA RoundsStep ==
    ASSUME SchedulerInv, BaseInv, RoundsInv, SchedulerInv', BaseInv', Client = "ordered",
           [ModulesNext]_allVars, pc' # "aborted"
    PROVE  RoundsInv'
<1>1. SUFFICES ASSUME NEW c \in Call, Begun(c)'
               PROVE  /\ Runs(c)' \in Nat
                      /\ Beginning(c)' => Copies(c)' = {}
                      /\ Resuming(c)'  => Left(c)' = {} /\ NextAt(c)' = currentTime'
                      /\ ~Beginning(c)' /\ ~Resuming(c)' =>
                            \E e \in Issued' : Left(c)' = {e} /\ target'[e] = NextAt(c)'
                      /\ currentTime' <= NextAt(c)' /\ NextAt(c)' <= currentTime' + Picoseconds(c[1])'
  BY DEF RoundsInv
<1>2. UNCHANGED configuration
  BY SetupFrame, ModuleInitializesFacts
<1>3. /\ c[1] \in Modules /\ Picoseconds(c[1])' = Picoseconds(c[1]) /\ FirstAt(c)' = FirstAt(c)
      /\ \A e \in Issued' \ Called' : currentTime' <= target'[e]
  <2>1. c[1] \in Modules
    BY DEF Call
  <2>2. ES!Waiting' = Issued' \ Called'
    BY DEF ES!Waiting, Issued, Called
  <2>3. QED BY <1>2, <2>1, <2>2, ConfigurationFrame DEF SchedulerInv, OrderInv, ClockBetween
<1>4. PICK p, f, now, later :
        /\ p = Picoseconds(c[1]) /\ f = FirstAt(c) /\ now = currentTime /\ later = currentTime'
        /\ now \in Nat /\ later \in Nat /\ now <= later
  <2>1. currentTime \in Nat /\ currentTime <= currentTime'
    BY TimeStep
  <2>2. currentTime' \in Nat
    BY TimesFacts DEF SchedulerInv, ClockInv, OnceInv, TickInv, TypeOK
  <2>3. QED BY <2>1, <2>2
<1>5. CASE Begun(c)
  <2>1. p \in Nat /\ f \in Nat /\ f <= p
    BY <1>4, <1>5, BegunFacts
  <2>2. PICK k \in Nat :
          /\ k = Runs(c) /\ k * p \in Nat
          /\ Beginning(c) => Copies(c) = {}
          /\ Resuming(c)  => Left(c) = {} /\ f + k * p = now
          /\ ~Beginning(c) /\ ~Resuming(c) => \E e \in Issued : Left(c) = {e} /\ target[e] = f + k * p
          /\ now <= f + k * p /\ f + k * p <= now + p
    <3>1. Runs(c) \in Nat
      BY <1>5 DEF RoundsInv
    <3>2. Runs(c) * p \in Nat
      BY <2>1, <3>1, MulStep
    <3>3. NextAt(c) = f + Runs(c) * p
      BY <1>4 DEF NextAt
    <3>4. QED BY <1>4, <1>5, <3>1, <3>2, <3>3 DEF RoundsInv
  <2>3. /\ Runs(c)' = IF SchedulesNext /\ c = Head(owed) THEN k + 1 ELSE k
        /\ NextAt(c)' = f + Runs(c)' * p
    BY <1>4, <1>5, <2>2, RunsStep
  <2>4. CASE Undisturbed(c)
    <3>1. ~(SchedulesNext /\ c = Head(owed))
      BY <1>5, <2>4, DisturbedStep DEF Undisturbed
    <3>2. Runs(c)' = k /\ NextAt(c)' = f + k * p
      BY <2>3, <3>1
    <3>3. /\ UNCHANGED <<Copies(c), Done(c), Left(c)>> /\ Issued \subseteq Issued'
          /\ \A e \in Issued : target'[e] = target[e]
          /\ Resuming(c)' <=> Resuming(c)
          /\ Beginning(c)' <=> Beginning(c)
      BY <2>4 DEF Undisturbed
    <3>4. ~Beginning(c) /\ ~Resuming(c) => \E e \in Issued' : Left(c)' = {e} /\ target'[e] = f + k * p
      BY <2>2, <3>3
    <3>5. later # now => ~Resuming(c) /\ ~Beginning(c)
      <4>1. later # now => owed = <<>>
        BY <1>4, TimeStep
      <4>2. owed = <<>> => ~Resuming(c) /\ ~Beginning(c)
        BY DEF Resuming, Beginning, Owing
      <4>3. QED BY <4>1, <4>2
    <3>6. later <= f + k * p
      <4>1. CASE later = now
        BY <2>2, <4>1
      <4>2. CASE later # now
        <5>1. PICK e \in Issued' : Left(c)' = {e} /\ target'[e] = f + k * p
          BY <3>4, <3>5, <4>2
        <5>2. e \notin Called'
          BY <5>1 DEF Left
        <5>3. QED BY <1>3, <1>4, <5>1, <5>2
      <4>3. QED BY <4>1, <4>2
    <3>7. f + k * p <= later + p
      BY <1>4, <2>1, <2>2
    <3>8. Resuming(c)' => later = now
      BY <3>3, <3>5
    <3>9. QED BY <1>3, <1>4, <2>2, <3>2, <3>3, <3>4, <3>6, <3>7, <3>8
  <2>5. CASE SchedulesFirst /\ c = Head(owed)
    <3>1. Beginning(c) /\ ~Beginning(c)' /\ ~Resuming(c) /\ ~Resuming(c)' /\ UNCHANGED Done(c)
      BY <1>5, <2>5, DisturbedStep
    <3>2. PICK n \in Issued' : Left(c)' = Left(c) \cup {n} /\ target'[n] = f
      BY <1>4, <1>5, <2>5, DisturbedStep
    <3>3. ~SchedulesNext /\ later = now
      BY <1>4, <2>5, SchedulesFirstFacts DEF SchedulesNext
    <3>4. Left(c) = {} /\ k = 0
      <4>1. Copies(c) = {}
        BY <2>2, <3>1
      <4>2. Done(c) = {} /\ Left(c) = {}
        BY <4>1 DEF Done, Left
      <4>3. Cardinality(Done(c)) = 0
        BY <4>2, FS_EmptySet
      <4>4. QED BY <2>2, <3>1, <4>2, <4>3 DEF Runs
    <3>5. Runs(c)' = 0 /\ NextAt(c)' = f /\ f + k * p = f
      BY <2>1, <2>2, <2>3, <3>3, <3>4
    <3>6. QED BY <1>3, <1>4, <2>2, <3>1, <3>2, <3>3, <3>4, <3>5
  <2>6. CASE SchedulesNext /\ c = Head(owed)
    <3>1. ~Beginning(c) /\ ~Beginning(c)' /\ Resuming(c) /\ ~Resuming(c)' /\ UNCHANGED Done(c)
      BY <1>5, <2>6, DisturbedStep
    <3>2. PICK n \in Issued' : Left(c)' = Left(c) \cup {n} /\ target'[n] = now + p
      BY <1>4, <1>5, <2>6, DisturbedStep
    <3>3. later = now
      BY <1>4, <2>6, SchedulesNextFacts
    <3>4. Runs(c)' = k + 1 /\ NextAt(c)' = now + p
      <4>1. (k + 1) * p = k * p + p
        BY <2>1, <2>2, MulStep
      <4>2. QED BY <1>4, <2>1, <2>2, <2>3, <2>6, <3>1, <4>1
    <3>5. QED BY <1>3, <1>4, <2>1, <2>2, <3>1, <3>2, <3>3, <3>4
  <2>7. CASE CallEvent /\ owed' = <<c>>
    <3>1. ~Beginning(c) /\ ~Beginning(c)' /\ ~Resuming(c) /\ Resuming(c)'
      BY <1>5, <2>7, DisturbedStep
    <3>2. PICK e \in Left(c) : Left(c)' = Left(c) \ {e} /\ target[e] = now
      BY <1>4, <1>5, <2>7, DisturbedStep
    <3>3. later = now
      BY <1>4, <2>7, CallEventFacts
    <3>4. Runs(c)' = k /\ NextAt(c)' = f + k * p
      <4>1. ~SchedulesNext
        BY <2>7, CallEventFacts DEF SchedulesNext, Owes
      <4>2. QED BY <2>3, <4>1
    <3>5. Left(c)' = {} /\ f + k * p = now
      BY <2>2, <3>1, <3>2
    <3>6. QED BY <1>3, <1>4, <2>1, <2>2, <3>1, <3>3, <3>4, <3>5
  <2>8. QED BY <1>5, <2>4, <2>5, <2>6, <2>7, UndisturbedStep
<1>6. CASE ~Begun(c)
  <2>1. PICK m \in Modules : ModuleInitializes(m)
    BY <1>1, <1>6, SetupFrame
  <2>2. /\ c \in CallsOf(m) /\ Copies(c)' = {} /\ Runs(c)' = 0 /\ Beginning(c)' /\ ~Resuming(c)'
    BY <1>1, <1>6, <2>1, RunsBegin
  <2>3. p \in Nat /\ f \in Nat /\ f <= p
    <3>1. Picoseconds(c[1])' \in Nat /\ FirstAt(c)' \in Nat /\ FirstAt(c)' <= Picoseconds(c[1])'
      <4>1. Check(c[1])' /\ Periodic(c[1])'
        BY <1>1, <1>3 DEF BaseInv, BegunInv, Call
      <4>2. period'[c[1]] # None
        BY <1>3, <4>1 DEF Check, BaseInv, TaskInv
      <4>3. period[c[1]] # None
        BY <1>2, <4>2 DEF configuration
      <4>4. Picoseconds(c[1]) \in Nat
        BY <1>3, <4>3, PicosecondsFacts DEF BaseInv
      <4>5. FirstAt(c) \in Nat /\ FirstAt(c) <= Picoseconds(c[1])
        BY <4>4 DEF FirstAt
      <4>6. QED BY <1>3, <4>4, <4>5
    <3>2. QED BY <1>3, <1>4, <3>1
  <2>4. later = 0
    <3>1. state = "INITIALIZATION" /\ UNCHANGED currentTime
      BY <2>1, ModuleInitializesFacts, PosFacts DEF BaseInv
    <3>2. QED BY <1>4, <3>1 DEF SchedulerInv, ClockInv, BeforeRun
  <2>5. NextAt(c)' = f
    <3>1. NextAt(c)' = f + 0 * p
      BY <1>3, <1>4, <2>2 DEF NextAt
    <3>2. QED BY <2>3, <3>1
  <2>6. QED BY <1>3, <1>4, <2>2, <2>3, <2>4, <2>5
<1>7. QED BY <1>5, <1>6

-----------------------------------------------------------------------------
(* Before the first event. *)

LEMMA QuietInit == ModulesInit => QuietInv
<1> SUFFICES ASSUME ModulesInit PROVE QuietInv
  OBVIOUS
<1>1. /\ executed = <<>> /\ pc = "idle"
      /\ count = [m \in Modules |-> 0] /\ partner = [m \in Modules |-> None]
      /\ box = [m \in Modules |-> FALSE] /\ sendMessage = [m \in Modules |-> FALSE]
      /\ startSend = [m \in Modules |-> type[m] = "PingModule"]
  BY DEF ModulesInit, Init
<1>2. QED BY <1>1 DEF QuietInv

LEMMA BegunStays ==
    ASSUME SchedulerInv, BaseInv, Client = "ordered", [ModulesNext]_allVars, NEW c \in Call, Begun(c)
    PROVE  Begun(c)'
BY SetupFrame, InitializesBegun

(* Events are called one by one, in a run. *)
LEMMA ExecutedStep ==
    ASSUME SchedulerInv, BaseInv, Client = "ordered", [ModulesNext]_allVars
    PROVE  /\ ~CallEvent => UNCHANGED executed
           /\ CallEvent => executed' # <<>> /\ state # "INITIALIZATION" /\ UNCHANGED state
           /\ state' = "INITIALIZATION" => state = "INITIALIZATION"
           /\ pc' = "tick" /\ owed' # <<>> => CallEvent \/ (pc = "tick" /\ owed # <<>>)
<1> USE DEF members, control
<1>1. CASE MainAdds \/ MainInitializes \/ (\E t \in Times : MainRuns(t)) \/ \E m, q \in Modules : MainConnects(m, q)
  <2>1. UNCHANGED <<executed, state>> /\ pc' # "tick" /\ pc # "tick"
    BY <1>1 DEF MainAdds, AddModule, MainInitializes, Initialize, MainRuns, RunAt, EnterInitialize,
                MainConnects, vars
  <2>2. ~CallEvent
    BY <2>1, CallEventFacts
  <2>3. QED BY <2>1, <2>2
<1>2. ASSUME NEW t \in Times, MainSchedules(t)
      PROVE  ~CallEvent /\ UNCHANGED <<executed, state>> /\ pc' # "tick"
  <2>1. pc = "idle" /\ UNCHANGED <<executed, state, pc>>
    BY <1>2, FutureEnqueues DEF MainSchedules
  <2>2. QED BY <2>1, CallEventFacts
<1>3. ASSUME NEW m \in Modules, ModuleInitializes(m)
      PROVE  ~CallEvent /\ UNCHANGED <<executed, state>> /\ pc' # "tick"
  BY <1>3, ModuleInitializesFacts, CallEventFacts
<1>4. CASE SchedulesFirst
  <2>1. pc = "module" /\ UNCHANGED <<executed, state, pc>>
    BY <1>4, SchedulesFirstFacts
  <2>2. QED BY <2>1, CallEventFacts
<1>5. CASE SchedulesNext
  <2>1. pc = "tick" /\ UNCHANGED <<executed, state>> /\ owed # <<>>
    BY <1>5, SchedulesNextFacts
  <2>2. QED BY <2>1, CallEventFacts
<1>6. CASE CallEvent
  <2>1. PICK e \in Issued \ Called : executed' = Append(executed, e) /\ pc = "tick" /\ UNCHANGED state
    BY <1>6, CallEventFacts
  <2>2. executed \in Seq(Events) /\ state # "INITIALIZATION"
    BY <2>1, PosFacts DEF BaseInv, TypeOK
  <2>3. executed' # <<>>
    BY <2>1, <2>2
  <2>4. QED BY <1>6, <2>1, <2>2, <2>3
<1>7. CASE Schedules
  <2>1. UNCHANGED executed /\ owed' = <<>> /\ owed = <<>>
    BY <1>7 DEF Schedules, ModulesDone, PushTick, LeaveInitialize, Start, QueueDrained,
                FinalTimeReached, NextTick, EndTick, Return, ours
  <2>2. state' = "INITIALIZATION" => state = "INITIALIZATION"
    BY <1>7 DEF Schedules, ModulesDone, PushTick, LeaveInitialize, Start, QueueDrained,
                FinalTimeReached, NextTick, EndTick, Return
  <2>3. ~CallEvent
    <3>1. CASE CallEvent
      <4>1. pos' = pos + 1 /\ pc = "tick" /\ pc' = "tick" /\ pos \in Nat
        BY <3>1, PosFacts DEF CallEvent, CallTask, BaseInv
      <4>2. QED BY <1>7, <4>1 DEF Schedules, ModulesDone, PushTick, LeaveInitialize, Start,
                                QueueDrained, FinalTimeReached, NextTick, EndTick, Return
    <3>2. QED BY <3>1
  <2>4. QED BY <2>1, <2>2, <2>3
<1>8. CASE UNCHANGED allVars
  <2>1. UNCHANGED <<executed, state, pc, owed, pos>>
    BY <1>8 DEF allVars, vars, ours
  <2>2. ~CallEvent
    <3>1. pos' = pos /\ pos \in Nat
      BY <2>1, PosFacts DEF BaseInv
    <3>2. QED BY <3>1 DEF CallEvent, CallTask
  <2>3. QED BY <2>1, <2>2
<1>9. QED BY <1>1, <1>2, <1>3, <1>4, <1>5, <1>6, <1>7, <1>8 DEF ModulesNext

(* Only the functions of the modules touch the messages and the counts.    *)
LEMMA MessageFrame ==
    ASSUME SchedulerInv, BaseInv, Client = "ordered", [ModulesNext]_allVars
    PROVE  /\ ~SchedulesNext => UNCHANGED messages
           /\ ~SchedulesNext /\ ~CallEvent => UNCHANGED reported
           /\ (~ \E m, q \in Modules : MainConnects(m, q)) => UNCHANGED partner
<1>1. CASE SchedulesNext \/ CallEvent
  BY <1>1, SchedulesNextFacts, CallEventFacts
<1>2. CASE SchedulesFirst
  BY <1>2 DEF SchedulesFirst, Owes
<1>3. ASSUME NEW m \in Modules, ModuleInitializes(m) PROVE UNCHANGED <<messages, reported, partner>>
  BY <1>3, ModuleInitializesFacts
<1>4. CASE MainAdds \/ MainInitializes \/ Schedules \/ UNCHANGED allVars
  BY <1>4 DEF MainAdds, MainInitializes, Schedules, allVars, ours
<1>5. CASE (\E t \in Times : MainSchedules(t) \/ MainRuns(t)) \/ \E m, q \in Modules : MainConnects(m, q)
  BY <1>5 DEF MainSchedules, MainRuns, MainConnects, ours
<1>6. QED BY <1>1, <1>2, <1>3, <1>4, <1>5 DEF ModulesNext

LEMMA QuietStep ==
    ASSUME SchedulerInv, BaseInv, CountTypes, QuietInv, Client = "ordered", [ModulesNext]_allVars
    PROVE  QuietInv'
<1>1. /\ state' = "INITIALIZATION" => executed' = <<>>
      /\ pc' = "tick" /\ owed' # <<>> => executed' # <<>>
  BY ExecutedStep DEF QuietInv
<1>2. UNCHANGED <<type>> /\ \A m \in Modules : Plays(m)' <=> Plays(m)
  BY SetupFrame, ModuleInitializesFacts DEF configuration, Plays
<1>3. ASSUME executed' = <<>>
      PROVE  UNCHANGED <<messages, reported>> /\ executed = <<>>
  <2>1. ~CallEvent /\ UNCHANGED executed
    BY <1>3, ExecutedStep
  <2>2. ~SchedulesNext
    BY <1>3, <2>1, SchedulesNextFacts DEF QuietInv
  <2>3. QED BY <1>3, <2>1, <2>2, MessageFrame
<1>4. executed' = <<>> =>
          \A m \in Modules :
              /\ box'[m] = FALSE /\ sendMessage'[m] = FALSE /\ count'[m] = 0
              /\ startSend'[m] <=> type'[m] = "PingModule"
  BY <1>2, <1>3 DEF QuietInv, messages, reported
<1>5. \A m \in Modules : startSend'[m] => type'[m] = "PingModule"
  <2>1. \A m \in Modules : startSend'[m] => startSend[m]
    <3>1. CASE UNCHANGED messages
      BY <3>1 DEF messages
    <3>2. ASSUME NEW r \in Modules, TrySend(r) PROVE \A m \in Modules : startSend'[m] => startSend[m]
      BY <3>2 DEF TrySend, messages, CountTypes
    <3>3. ASSUME NEW r \in Modules, UpdateState(r) PROVE \A m \in Modules : startSend'[m] => startSend[m]
      BY <3>3 DEF UpdateState
    <3>4. QED BY <3>1, <3>2, <3>3, ResumingStep
  <2>2. QED BY <1>2, <2>1 DEF QuietInv
<1>6. ASSUME NEW m \in Modules, partner'[m] # None
      PROVE  Plays(m)' /\ Begun(Send(m))' /\ Begun(Send(partner[m]))'
  <2>1. \A r \in Modules : Send(r) \in Call /\ (Begun(Send(r)) => Begun(Send(r))')
    BY CallsFacts, BegunStays
  <2>2. CASE UNCHANGED partner
    <3>1. Plays(m) /\ Begun(Send(m)) /\ Begun(Send(partner[m])) /\ partner[m] \in Modules
      BY <1>6, <2>2 DEF QuietInv, CountTypes
    <3>2. PICK q \in Modules : q = partner[m] /\ Begun(Send(q))
      BY <3>1
    <3>3. Begun(Send(q))' /\ q = partner'[m]
      BY <2>1, <2>2, <3>2
    <3>4. QED BY <1>2, <2>1, <2>2, <3>1, <3>2, <3>3 DEF Begun, Owing, Send
  <2>3. ASSUME NEW a \in Modules, NEW b \in Modules, MainConnects(a, b)
        PROVE  Plays(m)' /\ Begun(Send(m))' /\ Begun(Send(partner[m]))'
    <3>1. /\ Ported(a) /\ Ported(b) /\ a # b /\ partner' = Link(partner, a, b)
          /\ UNCHANGED <<type, owed, task>>
      BY <2>3 DEF MainConnects, configuration
    <3>2. \A r \in {a, b} : Begun(Send(r)) /\ Plays(r)
      <4>1. ASSUME NEW r \in {a, b} PROVE Begun(Send(r)) /\ Plays(r)
        <5>1. Begun(<<r, "try_send">>)
          BY <3>1 DEF Ported, Begun
        <5>2. <<r, "try_send">> \in CallsOf(r)
          BY <5>1 DEF BaseInv, BegunInv, FunctionNames
        <5>3. QED BY <5>1, <5>2, CallsFacts DEF Send, Update
      <4>2. QED BY <4>1
    <3>3. /\ partner'[m] \in Modules \cup {None}
          /\ partner'[m] = IF m = b THEN a ELSE IF m = a THEN b ELSE partner[m]
      BY <3>1 DEF Link, CountTypes
    <3>4. /\ Plays(m) /\ Begun(Send(m)) /\ partner'[m] \in Modules
          /\ \E q \in Modules : q = partner'[m] /\ Begun(Send(q))
      BY <1>6, <3>2, <3>3 DEF QuietInv, CountTypes
    <3>5. PICK q \in Modules : q = partner'[m] /\ Begun(Send(q))
      BY <3>4
    <3>6. Begun(Send(q))'
      BY <2>1, <3>5
    <3>7. QED BY <1>2, <2>1, <3>4, <3>5, <3>6 DEF Begun, Owing, Send
  <2>4. QED BY <2>2, <2>3, MessageFrame
<1>7. QED BY <1>1, <1>4, <1>5, <1>6 DEF QuietInv

-----------------------------------------------------------------------------
(* Two functions of the same period take turns. *)

LEMMA MulMono == \A a, b, p \in Nat : a < b => a * p + p <= b * p
  OBVIOUS

LEMMA HalfFacts == \A p \in Nat : p > 1 => p \div 2 \in Nat /\ 0 < p \div 2 /\ p \div 2 < p
  OBVIOUS

(* A number of periods, and one of periods and a half, within a period.    *)
LEMMA RoundsMeet ==
    ASSUME NEW p \in Nat, NEW h \in Nat, 0 < h, h < p, NEW t \in Nat, NEW k \in Nat, NEW j \in Nat,
           t <= k * p, k * p <= t + p, t <= h + j * p, h + j * p <= t + p
    PROVE  /\ k * p = t => k = j
           /\ h + j * p = t => k = j + 1
<1>1. PICK kp \in Nat, jp \in Nat : kp = k * p /\ jp = j * p
  BY MulStep
<1>2. k < j => kp + p <= jp
  BY <1>1, MulMono
<1>3. j < k => jp + p <= kp
  BY <1>1, MulMono
<1>4. j + 1 < k => jp + p + p <= kp
  <2>1. (j + 1) * p = jp + p
    BY <1>1, MulStep
  <2>2. j + 1 < k => (j + 1) * p + p <= k * p
    BY MulMono
  <2>3. QED BY <1>1, <2>1, <2>2
<1>5. kp = t => k = j
  BY <1>1, <1>2, <1>3
<1>6. h + jp = t => k = j + 1
  <2>1. SUFFICES ASSUME h + jp = t PROVE k = j + 1
    OBVIOUS
  <2>2. ~(k < j) /\ k # j /\ ~(j + 1 < k)
    BY <1>1, <1>2, <1>4, <2>1
  <2>3. QED BY <2>2
<1>7. QED BY <1>1, <1>5, <1>6

(* Who has begun to send has begun to look. *)
LEMMA PlayerFacts ==
    ASSUME BaseInv, NEW m \in Modules, Begun(Send(m))
    PROVE  /\ Plays(m) /\ Check(m) /\ Begun(Update(m)) /\ Send(m) \in Call /\ Update(m) \in Call
           /\ Picoseconds(m) \in Nat
           /\ FirstAt(Update(m)) = 0 /\ FirstAt(Send(m)) = Picoseconds(m) \div 2
           /\ Send(m)[1] = m /\ Update(m)[1] = m
<1>1. Send(m) \in Call /\ Update(m) \in Call /\ Send(m) = <<m, "try_send">>
  BY CallsFacts DEF Send
<1>2. Send(m) \in CallsOf(m) /\ Check(m) /\ \A c \in CallsOf(m) : Begun(c)
  BY <1>1 DEF BaseInv, BegunInv, FunctionNames
<1>3. Plays(m)
  BY <1>2, CallsFacts DEF Send, Update
<1>4. Begun(Update(m))
  BY <1>2, <1>3, CallsFacts
<1>5. Send(m)[1] = m /\ Update(m)[1] = m /\ Send(m)[2] = "try_send" /\ Update(m)[2] = "update_state"
  BY CallsOfFacts
<1>6. Picoseconds(m) \in Nat
  BY <1>1, <1>4, <1>5, BegunFacts
<1>7. FirstAt(Update(m)) = 0 /\ FirstAt(Send(m)) = Picoseconds(m) \div 2
  BY <1>5 DEF FirstAt
<1>8. QED BY <1>1, <1>2, <1>3, <1>4, <1>5, <1>6, <1>7

(* When one of two players of the same period, longer than one, looks,     *)
(* they have sent as often as it has looked; when one sends, they have     *)
(* looked once more.                                                       *)
LEMMA InRound ==
    ASSUME BaseInv, RoundsInv, NEW m \in Modules, NEW q \in Modules, Begun(Send(m)), Begun(Send(q)),
           period[m] = period[q], Picoseconds(m) > 1, currentTime \in Nat
    PROVE  /\ Runs(Update(m)) \in Nat /\ Runs(Send(q)) \in Nat
           /\ Resuming(Update(m)) => Runs(Update(m)) = Runs(Send(q))
           /\ Resuming(Send(q)) => Runs(Update(m)) = Runs(Send(q)) + 1
<1>1. PICK p : p = Picoseconds(m) /\ p = Picoseconds(q)
  BY DEF Picoseconds
<1>2. /\ p \in Nat /\ p > 1 /\ FirstAt(Update(m)) = 0 /\ FirstAt(Send(q)) = p \div 2
      /\ Update(m) \in Call /\ Send(q) \in Call /\ Begun(Update(m)) /\ Send(q)[1] = q /\ Update(m)[1] = m
  BY <1>1, PlayerFacts
<1>3. PICK h \in Nat : h = p \div 2 /\ 0 < h /\ h < p
  BY <1>2, HalfFacts
<1>4. PICK k \in Nat, j \in Nat : k = Runs(Update(m)) /\ j = Runs(Send(q))
  BY <1>2 DEF RoundsInv
<1>5. NextAt(Update(m)) = k * p /\ NextAt(Send(q)) = h + j * p /\ k * p \in Nat /\ j * p \in Nat
  <2>1. k * p \in Nat /\ j * p \in Nat
    BY <1>2, MulStep
  <2>2. NextAt(Update(m)) = 0 + k * p /\ NextAt(Send(q)) = h + j * p
    BY <1>1, <1>2, <1>3, <1>4 DEF NextAt
  <2>3. QED BY <2>1, <2>2
<1>6. /\ currentTime <= k * p /\ k * p <= currentTime + p
      /\ currentTime <= h + j * p /\ h + j * p <= currentTime + p
      /\ Resuming(Update(m)) => k * p = currentTime
      /\ Resuming(Send(q)) => h + j * p = currentTime
  BY <1>1, <1>2, <1>5 DEF RoundsInv
<1>7. /\ k * p = currentTime => k = j
      /\ h + j * p = currentTime => k = j + 1
  <2>1. p \in Nat /\ h \in Nat /\ 0 < h /\ h < p /\ currentTime \in Nat /\ k \in Nat /\ j \in Nat
    BY <1>2, <1>3
  <2>2. PICK t \in Nat : t = currentTime
    BY <2>1
  <2>3. t <= k * p /\ k * p <= t + p /\ t <= h + j * p /\ h + j * p <= t + p
    BY <1>6, <2>2
  <2>4. (k * p = t => k = j) /\ (h + j * p = t => k = j + 1)
    BY <2>1, <2>2, <2>3, RoundsMeet
  <2>5. QED BY <2>2, <2>4
<1>8. QED BY <1>4, <1>6, <1>7

(* What a player has begun, it has begun whole: the event that sends is    *)
(* owed for as long as the one that looks is.                              *)
LEMMA BeginTogether ==
    ASSUME SchedulerInv, BaseInv, NEW m \in Modules, Begun(Send(m)), Beginning(Update(m))
    PROVE  Beginning(Send(m))
<1>1. /\ Update(m) \in Call /\ Send(m) \in Call /\ Update(m)[1] = m /\ Update(m)[2] = "update_state"
      /\ Update(m) # Send(m) /\ Plays(m)
  BY PlayerFacts, CallsFacts, CallsOfFacts
<1>2. pc = "module" /\ Owing(Update(m)) /\ owed # <<>>
  BY DEF Beginning, Owing
<1>3. pos \in Modules
  BY <1>2, PosFacts, OwedShape DEF BaseInv
<1>4. owed = Calls(pos)
  <2>1. owed # <<Send(pos)>>
    BY <1>1, <1>2 DEF Owing, Send
  <2>2. QED BY <1>2, <2>1 DEF BaseInv, OwedInv, Send
<1>5. \A c : Owing(c) <=> c \in CallsOf(pos)
  BY <1>4 DEF Owing, CallsOf
<1>6. pos = m
  BY <1>1, <1>2, <1>3, <1>5, CallsOfFacts
<1>7. QED BY <1>1, <1>2, <1>5, <1>6, CallsFacts DEF Beginning

(* Looking and sending take turns: the event that looks is scheduled       *)
(* first, by initialize() and in every round.                              *)
LEMMA TurnStep ==
    ASSUME SchedulerInv, BaseInv, RoundsInv, TurnInv, SchedulerInv', BaseInv', Client = "ordered",
           [ModulesNext]_allVars, pc' # "aborted"
    PROVE  TurnInv'
<1>1. SUFFICES ASSUME NEW m \in Modules, Begun(Send(m))'
               PROVE  /\ Runs(Update(m))' = Runs(Send(m))' \/ Runs(Update(m))' = Runs(Send(m))' + 1
                      /\ Resuming(Update(m))' => Runs(Update(m))' = Runs(Send(m))'
                      /\ Resuming(Send(m))' => Runs(Update(m))' = Runs(Send(m))' + 1
                      /\ \A e \in Left(Update(m))', f \in Left(Send(m))' : target'[e] = target'[f] => e < f
                      /\ Picoseconds(m)' = 0 => Runs(Update(m))' = 0
  BY DEF TurnInv
<1>2. PICK u \in Call, s \in Call :
        /\ u = Update(m) /\ s = Send(m) /\ u # s /\ u[1] = m /\ s[1] = m
        /\ u[2] = "update_state" /\ s[2] = "try_send"
  BY CallsFacts, CallsOfFacts
<1>3. Picoseconds(m)' = Picoseconds(m)
  BY SetupFrame, ModuleInitializesFacts, ConfigurationFrame
<1>4. CASE ~Begun(s)
  <2>1. PICK r \in Modules : ModuleInitializes(r)
    BY <1>1, <1>2, <1>4, SetupFrame
  <2>2. Copies(s)' = {} /\ Runs(s)' = 0 /\ ~Resuming(s)' /\ s \in CallsOf(r)
    BY <1>1, <1>2, <1>4, <2>1, RunsBegin
  <2>3. r = m
    BY <1>2, <2>2, CallsOfFacts
  <2>4. ~Begun(u)
    BY <1>2, <2>1, <2>3, InitializesBegun
  <2>5. Begun(u)'
    <3>1. owed' # <<>> /\ s \in CallsOf(m)
      BY <1>1, <1>2, <1>4, <2>1, <2>2, <2>3, InitializesBegun
    <3>2. u \in CallsOf(m)
      BY <1>2, <3>1, CallsFacts
    <3>3. QED BY <2>1, <2>3, <3>1, <3>2, InitializesBegun
  <2>6. Runs(u)' = 0 /\ ~Resuming(u)'
    BY <2>1, <2>4, <2>5, RunsBegin
  <2>7. Left(s)' = {}
    BY <2>2 DEF Left
  <2>8. QED BY <1>2, <2>2, <2>6, <2>7
<1>5. CASE Begun(s)
  <2>1. PICK p \in Nat, h \in Nat, now \in Nat :
          /\ p = Picoseconds(m) /\ h = p \div 2 /\ h <= p /\ (p > 0 => h < p)
          /\ now = currentTime
          /\ Begun(u) /\ FirstAt(u) = 0 /\ FirstAt(s) = h
    BY <1>2, <1>5, PlayerFacts, PosFacts DEF BaseInv
  <2>2. PICK k \in Nat, j \in Nat :
          /\ k = Runs(u) /\ j = Runs(s) /\ NextAt(u) = k * p /\ NextAt(s) = h + j * p
          /\ now <= k * p /\ now <= h + j * p /\ k * p \in Nat /\ j * p \in Nat
    <3>1. PICK k \in Nat, j \in Nat : k = Runs(u) /\ j = Runs(s)
      BY <1>2, <1>5, <2>1 DEF RoundsInv
    <3>2. k * p \in Nat /\ j * p \in Nat
      BY MulStep
    <3>3. NextAt(u) = 0 + k * p /\ NextAt(s) = h + j * p
      BY <1>2, <2>1, <3>1 DEF NextAt
    <3>4. QED BY <1>2, <1>5, <2>1, <3>1, <3>2, <3>3 DEF RoundsInv
  <2>3. /\ k = j \/ k = j + 1
        /\ Resuming(u) => k = j
        /\ Resuming(s) => k = j + 1
        /\ \A e \in Left(u), f \in Left(s) : target[e] = target[f] => e < f
        /\ p = 0 => k = 0
    BY <1>2, <1>5, <2>1, <2>2 DEF TurnInv
  <2>4. k = j + 1 => k * p = j * p + p
    BY MulStep
  <2>5. /\ Runs(u)' = IF SchedulesNext /\ u = Head(owed) THEN k + 1 ELSE k
        /\ Runs(s)' = IF SchedulesNext /\ s = Head(owed) THEN j + 1 ELSE j
    BY <1>2, <1>5, <2>1, <2>2, RunsStep
  <2>6. Left(u) \subseteq Issued /\ Left(s) \subseteq Issued /\ Issued \subseteq Nat
    BY DEF Left, Copies, Issued
  <2>7. CASE Undisturbed(u) /\ Undisturbed(s)
    <3>1. ~(SchedulesNext /\ (u = Head(owed) \/ s = Head(owed)))
      BY <1>5, <2>1, <2>7, DisturbedStep DEF Undisturbed
    <3>2. /\ (Resuming(u)' <=> Resuming(u)) /\ (Resuming(s)' <=> Resuming(s))
          /\ Left(u)' = Left(u) /\ Left(s)' = Left(s)
          /\ \A e \in Issued : target'[e] = target[e]
      BY <2>7 DEF Undisturbed
    <3>3. QED BY <1>2, <1>3, <2>1, <2>3, <2>5, <2>6, <3>1, <3>2
  <2>8. CASE SchedulesFirst /\ (u = Head(owed) \/ s = Head(owed))
    <3>1. ~SchedulesNext /\ pc = "module" /\ pc' = "module"
      BY <2>8, SchedulesFirstFacts DEF SchedulesNext, control
    <3>2. ~Resuming(u)' /\ ~Resuming(s)'
      BY <3>1 DEF Resuming
    <3>3. \A e \in Left(u)', f \in Left(s)' : target'[e] = target'[f] => e < f
      <4>1. CASE u = Head(owed)
        <5>1. Beginning(u)
          BY <2>1, <2>8, <4>1, DisturbedStep
        <5>2. Beginning(s)
          BY <1>2, <1>5, <5>1, BeginTogether
        <5>3. Left(s) = {}
          BY <1>5, <5>2 DEF RoundsInv, Left
        <5>4. Undisturbed(s)
          BY <1>2, <1>5, <2>8, <4>1, UndisturbedStep, CallEventFacts, SchedulesFirstFacts
        <5>5. QED BY <5>3, <5>4 DEF Undisturbed
      <4>2. CASE s = Head(owed)
        <5>1. PICK n \in Issued' : Newest(n) /\ Left(s)' = Left(s) \cup {n}
          BY <1>5, <2>8, <4>2, DisturbedStep
        <5>2. Beginning(s)
          BY <1>5, <2>8, <4>2, DisturbedStep
        <5>3. Left(s) = {}
          BY <1>5, <5>2 DEF RoundsInv, Left
        <5>4. Undisturbed(u)
          BY <1>2, <2>1, <2>8, <4>2, UndisturbedStep, CallEventFacts, SchedulesFirstFacts
        <5>5. QED BY <2>6, <5>1, <5>3, <5>4 DEF Undisturbed, Newest
      <4>3. QED BY <2>8, <4>1, <4>2
    <3>4. QED BY <1>2, <1>3, <2>1, <2>3, <2>5, <3>1, <3>2, <3>3
  <2>9. CASE SchedulesNext /\ u = Head(owed)
    <3>1. /\ Resuming(u) /\ ~Resuming(u)' /\ p > 0 /\ ~CallEvent /\ ~SchedulesFirst /\ owed = <<u>> /\ pc = "tick"
          /\ \E n \in Issued' : Newest(n) /\ Left(u)' = Left(u) \cup {n} /\ target'[n] = now + p
      BY <1>2, <2>1, <2>9, DisturbedStep, SchedulesNextFacts DEF SchedulesFirst, CallEvent
    <3>2. Undisturbed(s) /\ ~Resuming(s) /\ ~Beginning(s)
      <4>1. Undisturbed(s)
        BY <1>2, <1>5, <2>9, <3>1, UndisturbedStep
      <4>2. s # u
        BY <1>2
      <4>3. QED BY <3>1, <4>1, <4>2 DEF Resuming, Beginning
    <3>3. Left(u) = {} /\ k * p = now /\ \E f \in Issued : Left(s) = {f} /\ target[f] = h + j * p
      BY <1>5, <2>1, <2>2, <3>1, <3>2 DEF RoundsInv
    <3>4. k = j /\ h + j * p # now + p
      BY <2>1, <2>2, <2>3, <3>1, <3>3
    <3>5. \A e \in Left(u)', f \in Left(s)' : target'[e] # target'[f]
      BY <2>6, <3>1, <3>2, <3>3, <3>4 DEF Undisturbed
    <3>6. ~Resuming(s)'
      BY <3>2 DEF Undisturbed
    <3>7. Runs(u)' = k + 1 /\ Runs(s)' = j
      BY <1>2, <2>5, <2>9
    <3>8. QED BY <1>2, <1>3, <2>1, <3>1, <3>4, <3>5, <3>6, <3>7
  <2>10. CASE SchedulesNext /\ s = Head(owed)
    <3>1. /\ Resuming(s) /\ ~Resuming(s)' /\ ~CallEvent /\ ~SchedulesFirst /\ owed = <<s>> /\ pc = "tick"
          /\ \E n \in Issued' : Newest(n) /\ Left(s)' = Left(s) \cup {n}
      BY <1>2, <1>5, <2>10, DisturbedStep, SchedulesNextFacts DEF SchedulesFirst, CallEvent
    <3>2. Undisturbed(u) /\ ~Resuming(u)
      <4>1. Undisturbed(u)
        BY <1>2, <2>1, <2>10, <3>1, UndisturbedStep
      <4>2. s # u
        BY <1>2
      <4>3. QED BY <3>1, <4>1, <4>2 DEF Resuming
    <3>3. Left(s) = {} /\ k = j + 1
      BY <1>5, <2>3, <3>1 DEF RoundsInv
    <3>4. \A e \in Left(u)', f \in Left(s)' : e < f
      BY <2>6, <3>1, <3>2, <3>3 DEF Undisturbed, Newest
    <3>5. ~Resuming(u)'
      BY <3>2 DEF Undisturbed
    <3>6. Runs(u)' = k /\ Runs(s)' = j + 1
      BY <1>2, <2>5, <2>10
    <3>7. QED BY <1>2, <1>3, <2>1, <2>3, <3>1, <3>3, <3>4, <3>5, <3>6
  <2>11. CASE CallEvent /\ (owed' = <<u>> \/ owed' = <<s>>)
    <3>1. PICK e \in Issued \ Called :
            /\ target[e] = now /\ owed = <<>> /\ pc = "tick" /\ pc' = "tick" /\ UNCHANGED <<task, target>>
            /\ \A f \in Issued \ Called : now < target[f] \/ e <= f
            /\ owed' = IF task[e] = None THEN <<>> ELSE <<task[e]>>
            /\ executed' = Append(executed, e)
      BY <2>1, <2>11, CallEventFacts
    <3>2. ~SchedulesNext /\ ~Resuming(u) /\ ~Resuming(s) /\ ~Beginning(u) /\ ~Beginning(s)
      BY <3>1 DEF SchedulesNext, Owes, Resuming, Beginning
    <3>3. PICK x, y : /\ x \in Issued /\ Left(u) = {x} /\ target[x] = k * p
                      /\ y \in Issued /\ Left(s) = {y} /\ target[y] = h + j * p
      BY <1>5, <2>1, <2>2, <3>2 DEF RoundsInv
    <3>4. Left(u)' \subseteq Left(u) /\ Left(s)' \subseteq Left(s)
      <4>1. Called' = Called \cup {e}
        BY <3>1, PosFacts, CalledAfter DEF BaseInv
      <4>2. UNCHANGED <<Copies(u), Copies(s)>>
        BY <3>1, CopiesFrame
      <4>3. QED BY <4>1, <4>2 DEF Left
    <3>5. Runs(u)' = k /\ Runs(s)' = j
      BY <2>5, <3>2
    <3>6. Resuming(u)' => k = j
      <4>1. SUFFICES ASSUME Resuming(u)', k = j + 1 PROVE FALSE
        BY <2>3
      <4>2. task[e] = u
        <5>1. owed' = <<u>>
          BY <4>1 DEF Resuming
        <5>2. task[e] # None /\ owed' = <<task[e]>>
          BY <3>1, <5>1
        <5>3. QED BY <5>1, <5>2
      <4>3. e \in Left(u)
        BY <3>1, <4>2 DEF Left, Copies
      <4>4. k * p = now
        BY <3>1, <3>3, <4>3
      <4>5. p > 0
        BY <2>3, <4>1
      <4>6. QED BY <2>1, <2>2, <2>4, <4>1, <4>4, <4>5
    <3>7. Resuming(s)' => k = j + 1
      <4>1. SUFFICES ASSUME Resuming(s)', k = j PROVE FALSE
        BY <2>3
      <4>2. task[e] = s
        <5>1. owed' = <<s>>
          BY <4>1 DEF Resuming
        <5>2. task[e] # None /\ owed' = <<task[e]>>
          BY <3>1, <5>1
        <5>3. QED BY <5>1, <5>2
      <4>3. e \in Left(s)
        BY <3>1, <4>2 DEF Left, Copies
      <4>4. h + k * p = now /\ e = y
        BY <3>1, <3>3, <4>1, <4>3
      <4>5. k * p = now /\ target[x] = target[y]
        BY <2>2, <3>1, <3>3, <4>4
      <4>6. x < y
        BY <2>3, <3>3, <4>5
      <4>7. x \in Issued \ Called
        BY <3>3 DEF Left
      <4>8. e <= x
        BY <2>1, <3>1, <3>3, <4>5, <4>7
      <4>9. QED BY <2>6, <3>3, <4>4, <4>6, <4>8
    <3>8. \A d \in Left(u)', f \in Left(s)' : target'[d] = target'[f] => d < f
      BY <2>3, <3>1, <3>4
    <3>9. QED BY <1>2, <1>3, <2>1, <2>3, <3>5, <3>6, <3>7, <3>8
  <2>12. QED BY <1>2, <1>5, <2>1, <2>7, <2>8, <2>9, <2>10, <2>11, UndisturbedStep
<1>6. QED BY <1>4, <1>5

(* A function that goes on after it has scheduled itself again. *)
LEMMA ResumeFacts ==
    ASSUME SchedulerInv, BaseInv, Client = "ordered", [ModulesNext]_allVars, pc' # "aborted", SchedulesNext
    PROVE  /\ UNCHANGED <<type, period, partner, executed>>
           /\ \E m \in Modules :
                 \/ /\ Head(owed) = Update(m) /\ Resuming(Update(m)) /\ Begun(Update(m))
                    /\ IF Plays(m) THEN UpdateState(m) ELSE UNCHANGED <<messages, reported>>
                 \/ /\ Head(owed) = Send(m) /\ Resuming(Send(m)) /\ Begun(Send(m))
                    /\ Plays(m) /\ TrySend(m)
<1>1. PICK c, p : c = Head(owed) /\ p = Picoseconds(c[1])
  OBVIOUS
<1>2. /\ pc = "tick" /\ owed = <<c>> /\ owed # <<>> /\ pc' = pc /\ Resumes(c[1], c[2])
      /\ UNCHANGED <<configuration, partner, executed>>
  BY <1>1, SchedulesNextFacts
<1>3. c \in Call /\ c[1] \in Modules /\ Begun(c) /\ c = <<c[1], c[2]>> /\ c[2] \in FunctionNames
  BY <1>1, <1>2, HeadFacts
<1>4. Resuming(c)
  BY <1>2 DEF Resuming
<1>5. CASE c[2] = "update_state"
  <2>1. c = Update(c[1])
    BY <1>3, <1>5 DEF Update
  <2>2. IF Plays(c[1]) THEN UpdateState(c[1]) ELSE UNCHANGED <<messages, reported>>
    BY <1>2, <1>5 DEF Resumes
  <2>3. QED BY <1>1, <1>2, <1>3, <1>4, <2>1, <2>2 DEF configuration
<1>6. CASE c[2] = "try_send"
  <2>1. c = Send(c[1])
    BY <1>3, <1>6 DEF Send
  <2>2. Plays(c[1])
    BY <1>3, <2>1, PlayerFacts
  <2>3. TrySend(c[1])
    BY <1>2, <1>6, <2>2 DEF Resumes
  <2>4. QED BY <1>1, <1>2, <1>3, <1>4, <2>1, <2>2, <2>3 DEF configuration
<1>7. QED BY <1>3, <1>5, <1>6 DEF FunctionNames

(* The event that goes on is the one of the module and function owed. *)
LEMMA ResumesAs ==
    ASSUME SchedulerInv, BaseInv, Client = "ordered", [ModulesNext]_allVars, pc' # "aborted", SchedulesNext,
           NEW m \in Modules
    PROVE  /\ Head(owed) = Update(m) =>
                IF Plays(m) THEN UpdateState(m) ELSE UNCHANGED <<messages, reported>>
           /\ Head(owed) = Send(m) => Plays(m) /\ TrySend(m)
<1>1. PICK r \in Modules :
         \/ /\ Head(owed) = Update(r)
            /\ IF Plays(r) THEN UpdateState(r) ELSE UNCHANGED <<messages, reported>>
         \/ Head(owed) = Send(r) /\ Plays(r) /\ TrySend(r)
  BY ResumeFacts
<1>2. /\ Update(r)[1] = r /\ Send(r)[1] = r /\ Update(m)[1] = m /\ Send(m)[1] = m
      /\ Update(r)[2] = "update_state" /\ Update(m)[2] = "update_state"
      /\ Send(r)[2] = "try_send" /\ Send(m)[2] = "try_send"
  BY CallsOfFacts
<1>3. CASE Head(owed) = Update(m)
  <2>1. Head(owed) = Update(r) /\ r = m
    BY <1>1, <1>2, <1>3
  <2>2. QED BY <1>1, <1>2, <1>3, <2>1
<1>4. CASE Head(owed) = Send(m)
  <2>1. Head(owed) = Send(r) /\ r = m
    BY <1>1, <1>2, <1>4
  <2>2. QED BY <1>1, <1>2, <1>4, <2>1
<1>5. QED BY <1>3, <1>4

(* A player is loaded when it has looked, and no longer when it has sent.  *)
LEMMA LoadedStep ==
    ASSUME SchedulerInv, BaseInv, RoundsInv, TurnInv, Client = "ordered", [ModulesNext]_allVars,
           pc' # "aborted", NEW m \in Modules, Begun(Send(m))
    PROVE  /\ SchedulesNext /\ Head(owed) = Update(m) => ~Loaded(m) /\ Loaded(m)'
           /\ SchedulesNext /\ Head(owed) = Send(m) => Loaded(m) /\ ~Loaded(m)'
           /\ ~(SchedulesNext /\ Head(owed) \in {Update(m), Send(m)}) => (Loaded(m)' <=> Loaded(m))
<1>1. /\ Begun(Update(m)) /\ Send(m) \in Call /\ Update(m) \in Call /\ Send(m) # Update(m)
      /\ Begun(Send(m))'
  BY PlayerFacts, CallsFacts, BegunStays
<1>2. PICK k \in Nat, j \in Nat : k = Runs(Update(m)) /\ j = Runs(Send(m))
  BY <1>1 DEF RoundsInv
<1>3. /\ Runs(Update(m))' = IF SchedulesNext /\ Update(m) = Head(owed) THEN k + 1 ELSE k
      /\ Runs(Send(m))' = IF SchedulesNext /\ Send(m) = Head(owed) THEN j + 1 ELSE j
  BY <1>1, <1>2, RunsStep
<1>4. /\ Resuming(Update(m)) => k = j
      /\ Resuming(Send(m)) => k = j + 1
  BY <1>2 DEF TurnInv
<1>5. SchedulesNext /\ Head(owed) = Update(m) => Resuming(Update(m))
  BY <1>1, DisturbedStep
<1>6. SchedulesNext /\ Head(owed) = Send(m) => Resuming(Send(m))
  BY <1>1, DisturbedStep
<1>7. (Loaded(m) <=> k = j + 1) /\ (Loaded(m)' <=> Runs(Update(m))' = Runs(Send(m))' + 1)
  BY <1>1, <1>2 DEF Loaded
<1>8. CASE SchedulesNext /\ Head(owed) = Update(m)
  BY <1>1, <1>2, <1>3, <1>4, <1>5, <1>7, <1>8
<1>9. CASE SchedulesNext /\ Head(owed) = Send(m)
  BY <1>1, <1>2, <1>3, <1>4, <1>6, <1>7, <1>9
<1>10. CASE ~(SchedulesNext /\ Head(owed) \in {Update(m), Send(m)})
  BY <1>1, <1>2, <1>3, <1>7, <1>10
<1>11. QED BY <1>8, <1>9, <1>10

-----------------------------------------------------------------------------
(* The messages, and the counts of the players. *)

(* Before the first event no function has run. *)
LEMMA NoRuns ==
    ASSUME QuietInv', executed' = <<>>, NEW c \in Call
    PROVE  Runs(c)' = 0
<1>1. ~Resuming(c)'
  BY DEF QuietInv, Resuming
<1>2. Done(c)' = {}
  BY DEF Done, Called
<1>3. Cardinality(Done(c)') = 0
  BY <1>2, FS_EmptySet
<1>4. Runs(c)' = Cardinality(Done(c)') - 0
  BY <1>1 DEF Runs
<1>5. QED BY <1>3, <1>4

LEMMA NotLoaded ==
    ASSUME QuietInv', executed' = <<>>, NEW m \in Modules
    PROVE  ~Loaded(m)'
<1>1. Runs(Update(m))' = 0 /\ Runs(Send(m))' = 0
  BY NoRuns, CallsFacts
<1>2. QED BY <1>1 DEF Loaded

(* From the first event on nothing is connected and nothing begins. *)
LEMMA PlayerFrame ==
    ASSUME SchedulerInv, BaseInv, CountTypes, QuietInv, Client = "ordered", [ModulesNext]_allVars,
           pc' # "aborted", executed' # <<>>
    PROVE  /\ UNCHANGED <<type, period, partner>>
           /\ \A c \in Call : Begun(c)' <=> Begun(c)
           /\ ~SchedulesNext =>
                UNCHANGED messages /\ \A m \in Modules : Plays(m) => count'[m] = count[m]
<1>1. ~ \E m, q \in Modules : MainConnects(m, q)
  BY DEF MainConnects, vars
<1>2. ~ \E m \in Modules : ModuleInitializes(m)
  BY ModuleInitializesFacts, PosFacts DEF QuietInv, BaseInv
<1>3. ~SchedulesNext => \A m \in Modules : Plays(m) => count'[m] = count[m]
  <2>1. CASE CallEvent
    <3>1. PICK e \in Issued \ Called :
              /\ task[e] \in Call \cup {None}
              /\ IF task[e] # None /\ ~Plays(task[e][1]) THEN Reports(task[e][1]) ELSE UNCHANGED reported
      BY <2>1, CallEventFacts
    <3>2. CASE UNCHANGED reported
      BY <3>2 DEF reported
    <3>3. CASE ~Plays(task[e][1]) /\ Reports(task[e][1])
      BY <3>3 DEF Reports, CountTypes
    <3>4. QED BY <3>1, <3>2, <3>3
  <2>2. CASE ~CallEvent /\ ~SchedulesNext
    BY <2>2, MessageFrame DEF reported
  <2>3. QED BY <2>1, <2>2
<1>4. QED BY <1>1, <1>2, <1>3, SetupFrame, MessageFrame DEF configuration

LEMMA CoupleFacts ==
    ASSUME BaseInv, CountTypes, QuietInv, NEW m \in Modules, NEW q \in Modules, Couple(m, q)
    PROVE  /\ Begun(Send(m)) /\ Begun(Send(q)) /\ Plays(m) /\ Plays(q) /\ m # q
           /\ Arrived(m) = box[q] /\ Arrived(q) = box[m] /\ ~startSend[q]
           /\ \A r \in Modules \ {m, q} : partner[r] \notin {m, q}
           /\ partner[m] = q /\ partner[q] = m
<1>1. /\ partner[m] = q /\ partner[q] = m /\ type[m] = "PingModule" /\ type[q] = "PongModule"
      /\ \A r \in Modules \ {m, q} : partner[r] \notin {m, q}
  BY DEF Couple, Pair
<1>2. m # None /\ q # None
  BY NoneAssumption DEF Modules
<1>3. Plays(m) /\ Begun(Send(m)) /\ Plays(q) /\ Begun(Send(q))
  BY <1>1, <1>2 DEF QuietInv
<1>4. Arrived(m) = box[q] /\ Arrived(q) = box[m] /\ ~startSend[q]
  BY <1>1, <1>2 DEF Arrived, QuietInv, CountTypes
<1>5. QED BY <1>1, <1>3, <1>4

(* A function of another player leaves the boxes and hands of two alone.   *)
LEMMA OthersResume ==
    ASSUME CountTypes, NEW r \in Modules, TrySend(r) \/ UpdateState(r), NEW m \in Modules, m # r
    PROVE  /\ startSend'[m] = startSend[m] /\ sendMessage'[m] = sendMessage[m]
           /\ count'[m] = count[m]
           /\ partner[r] # m => box'[m] = box[m]
<1>1. CASE TrySend(r)
  BY <1>1 DEF TrySend, Reports, messages, reported, CountTypes
<1>2. CASE UpdateState(r)
  BY <1>2 DEF UpdateState, reported, CountTypes
<1>3. QED BY <1>1, <1>2

(* What update_state() and try_send() do to their own player. *)
LEMMA OwnResume ==
    ASSUME CountTypes, NEW m \in Modules
    PROVE  /\ UpdateState(m) =>
                /\ sendMessage'[m] = (startSend[m] \/ Arrived(m))
                /\ UNCHANGED <<startSend, count>>
                /\ \A q \in Modules : box'[q] = IF Arrived(m) /\ q = partner[m] THEN FALSE ELSE box[q]
           /\ TrySend(m) /\ sendMessage[m] =>
                /\ box'[m] = TRUE /\ startSend'[m] = FALSE /\ count'[m] = count[m] + 1
                /\ UNCHANGED sendMessage
           /\ TrySend(m) /\ ~sendMessage[m] => UNCHANGED <<messages, reported>>
<1>1. UpdateState(m) =>
         /\ sendMessage'[m] = (startSend[m] \/ Arrived(m))
         /\ UNCHANGED <<startSend, count>>
         /\ \A q \in Modules : box'[q] = IF Arrived(m) /\ q = partner[m] THEN FALSE ELSE box[q]
  <2>1. SUFFICES ASSUME UpdateState(m)
                 PROVE  /\ sendMessage'[m] = (startSend[m] \/ Arrived(m))
                        /\ UNCHANGED <<startSend, count>>
                        /\ \A q \in Modules : box'[q] = IF Arrived(m) /\ q = partner[m] THEN FALSE ELSE box[q]
    OBVIOUS
  <2>2. sendMessage'[m] = (startSend[m] \/ Arrived(m))
    BY <2>1 DEF UpdateState, CountTypes
  <2>3. UNCHANGED <<startSend, count>>
    BY <2>1 DEF UpdateState, reported
  <2>4. ASSUME NEW q \in Modules PROVE box'[q] = IF Arrived(m) /\ q = partner[m] THEN FALSE ELSE box[q]
    BY <2>1 DEF UpdateState, CountTypes
  <2>5. QED BY <2>2, <2>3, <2>4
<1>2. TrySend(m) /\ sendMessage[m] =>
         /\ box'[m] = TRUE /\ startSend'[m] = FALSE /\ count'[m] = count[m] + 1
         /\ UNCHANGED sendMessage
  BY DEF TrySend, Reports, CountTypes
<1>3. TrySend(m) /\ ~sendMessage[m] => UNCHANGED <<messages, reported>>
  BY DEF TrySend
<1>4. QED BY <1>1, <1>2, <1>3

(* The message of a ping and a pong is never lost, doubled or replaced. *)
LEMMA TokenStep ==
    ASSUME SchedulerInv, BaseInv, CountTypes, QuietInv, QuietInv', RoundsInv, TurnInv, StartInv, TokenInv,
           Client = "ordered", [ModulesNext]_allVars, pc' # "aborted"
    PROVE  TokenInv'
<1>1. SUFFICES ASSUME NEW m \in Modules, NEW q \in Modules, Couple(m, q)' PROVE Token(m, q)'
  BY DEF TokenInv
<1>2. CASE executed' = <<>>
  <2>1. /\ startSend'[m] /\ ~box'[m] /\ ~box'[q] /\ ~sendMessage'[q] /\ count'[m] = 0 /\ count'[q] = 0
    BY <1>1, <1>2 DEF QuietInv, Couple
  <2>2. QED BY <2>1 DEF Token, Sending
<1>3. CASE executed' # <<>>
  <2>1. /\ UNCHANGED <<type, period, partner>>
        /\ ~SchedulesNext =>
             UNCHANGED messages /\ \A r \in Modules : Plays(r) => count'[r] = count[r]
    BY <1>3, PlayerFrame
  <2>2. Couple(m, q) /\ Token(m, q)
    BY <1>1, <2>1 DEF Couple, Pair, TokenInv
  <2>3. /\ Begun(Send(m)) /\ Begun(Send(q)) /\ Plays(m) /\ Plays(q) /\ m # q
        /\ Arrived(m) = box[q] /\ Arrived(q) = box[m] /\ ~startSend[q]
        /\ \A r \in Modules \ {m, q} : partner[r] \notin {m, q}
        /\ partner[m] = q /\ partner[q] = m
    BY <2>2, CoupleFacts
  <2>4. /\ box[m] \in BOOLEAN /\ box[q] \in BOOLEAN /\ startSend[m] \in BOOLEAN
        /\ sendMessage[m] \in BOOLEAN /\ sendMessage[q] \in BOOLEAN
        /\ count[m] \in Nat /\ count[q] \in Nat
    BY DEF CountTypes
  <2>5. ASSUME NEW r \in {m, q}
        PROVE  /\ SchedulesNext /\ Head(owed) = Update(r) => ~Loaded(r) /\ Loaded(r)'
               /\ SchedulesNext /\ Head(owed) = Send(r) => Loaded(r) /\ ~Loaded(r)'
               /\ ~(SchedulesNext /\ Head(owed) \in {Update(r), Send(r)}) => (Loaded(r)' <=> Loaded(r))
    BY <2>3, LoadedStep
  <2>6. Loaded(m) /\ startSend[m] => sendMessage[m]
    BY <2>3 DEF StartInv
  <2>7. CASE ~SchedulesNext
    <3>1. /\ UNCHANGED <<box, startSend, sendMessage>> /\ count'[m] = count[m] /\ count'[q] = count[q]
          /\ (Loaded(m)' <=> Loaded(m)) /\ (Loaded(q)' <=> Loaded(q))
      BY <2>1, <2>3, <2>5, <2>7 DEF messages
    <3>2. QED BY <2>2, <3>1 DEF Token, Sending
  <2>8. ASSUME SchedulesNext, NEW r \in Modules, Head(owed) = Update(r) \/ Head(owed) = Send(r),
               r \notin {m, q} PROVE Token(m, q)'
    <3>1. TrySend(r) \/ UpdateState(r) \/ UNCHANGED <<messages, reported>>
      BY <2>8, ResumesAs
    <3>2. /\ startSend'[m] = startSend[m] /\ sendMessage'[m] = sendMessage[m] /\ box'[m] = box[m]
          /\ sendMessage'[q] = sendMessage[q] /\ box'[q] = box[q]
          /\ count'[m] = count[m] /\ count'[q] = count[q]
      BY <2>3, <2>8, <3>1, OthersResume DEF messages, reported
    <3>3. (Loaded(m)' <=> Loaded(m)) /\ (Loaded(q)' <=> Loaded(q))
      BY <2>5, <2>8 DEF Update, Send
    <3>4. QED BY <2>2, <3>2, <3>3 DEF Token, Sending
  <2>9. CASE SchedulesNext /\ Head(owed) = Update(m)
    <3>1. UpdateState(m)
      BY <2>3, <2>9, ResumesAs
    <3>2. /\ sendMessage'[m] = (startSend[m] \/ box[q]) /\ startSend'[m] = startSend[m]
          /\ box'[m] = box[m] /\ box'[q] = FALSE /\ sendMessage'[q] = sendMessage[q]
          /\ count'[m] = count[m] /\ count'[q] = count[q]
      BY <2>3, <2>4, <3>1, OwnResume, OthersResume
    <3>3. ~Loaded(m) /\ Loaded(m)' /\ (Loaded(q)' <=> Loaded(q))
      BY <2>3, <2>5, <2>9 DEF Update, Send
    <3>4. QED BY <2>2, <2>4, <3>2, <3>3 DEF Token, Sending
  <2>10. CASE SchedulesNext /\ Head(owed) = Send(m)
    <3>1. TrySend(m)
      BY <2>3, <2>10, ResumesAs
    <3>2. Loaded(m) /\ ~Loaded(m)' /\ (Loaded(q)' <=> Loaded(q))
      BY <2>3, <2>5, <2>10 DEF Update, Send
    <3>3. /\ sendMessage'[q] = sendMessage[q] /\ box'[q] = box[q] /\ count'[q] = count[q]
      <4>1. partner[m] = q /\ q # m
        BY <2>3
      <4>2. QED BY <3>1, <4>1 DEF TrySend, Reports, messages, reported, CountTypes
    <3>4. CASE sendMessage[m]
      <4>1. box'[m] = TRUE /\ startSend'[m] = FALSE /\ count'[m] = count[m] + 1
        BY <3>1, <3>4, OwnResume
      <4>2. QED BY <2>2, <2>4, <3>2, <3>3, <3>4, <4>1 DEF Token, Sending
    <3>5. CASE ~sendMessage[m]
      <4>1. box'[m] = box[m] /\ startSend'[m] = startSend[m] /\ count'[m] = count[m]
        BY <3>1, <3>5, OwnResume DEF messages, reported
      <4>2. ~startSend[m]
        BY <2>6, <3>2, <3>5
      <4>3. QED BY <2>2, <2>4, <3>2, <3>3, <3>5, <4>1, <4>2 DEF Token, Sending
    <3>6. QED BY <3>4, <3>5
  <2>11. CASE SchedulesNext /\ Head(owed) = Update(q)
    <3>1. UpdateState(q)
      BY <2>3, <2>11, ResumesAs
    <3>2. /\ sendMessage'[q] = box[m] /\ startSend'[m] = startSend[m]
          /\ box'[q] = box[q] /\ box'[m] = FALSE /\ sendMessage'[m] = sendMessage[m]
          /\ count'[m] = count[m] /\ count'[q] = count[q]
      BY <2>3, <2>4, <3>1, OwnResume, OthersResume
    <3>3. ~Loaded(q) /\ Loaded(q)' /\ (Loaded(m)' <=> Loaded(m))
      BY <2>3, <2>5, <2>11 DEF Update, Send
    <3>4. QED BY <2>2, <2>4, <3>2, <3>3 DEF Token, Sending
  <2>12. CASE SchedulesNext /\ Head(owed) = Send(q)
    <3>1. TrySend(q)
      BY <2>3, <2>12, ResumesAs
    <3>2. Loaded(q) /\ ~Loaded(q)' /\ (Loaded(m)' <=> Loaded(m))
      BY <2>3, <2>5, <2>12 DEF Update, Send
    <3>3. /\ sendMessage'[m] = sendMessage[m] /\ box'[m] = box[m] /\ count'[m] = count[m]
          /\ startSend'[m] = startSend[m]
      BY <2>3, <3>1 DEF TrySend, Reports, messages, reported, CountTypes
    <3>4. CASE sendMessage[q]
      <4>1. box'[q] = TRUE /\ count'[q] = count[q] + 1
        BY <3>1, <3>4, OwnResume
      <4>2. QED BY <2>2, <2>4, <3>2, <3>3, <3>4, <4>1 DEF Token, Sending
    <3>5. CASE ~sendMessage[q]
      <4>1. box'[q] = box[q] /\ count'[q] = count[q]
        BY <3>1, <3>5, OwnResume DEF messages, reported
      <4>2. QED BY <2>2, <2>4, <3>2, <3>3, <3>5, <4>1 DEF Token, Sending
    <3>6. QED BY <3>4, <3>5
  <2>13. QED
    <3>1. SchedulesNext => \E r \in Modules : Head(owed) = Update(r) \/ Head(owed) = Send(r)
      BY ResumeFacts
    <3>2. QED BY <2>7, <2>8, <2>9, <2>10, <2>11, <2>12, <3>1
<1>4. QED BY <1>2, <1>3

(* What start_send holds when update_state() has run, send_message holds.  *)
LEMMA StartStep ==
    ASSUME SchedulerInv, BaseInv, CountTypes, QuietInv, QuietInv', RoundsInv, TurnInv, StartInv,
           Client = "ordered", [ModulesNext]_allVars, pc' # "aborted"
    PROVE  StartInv'
<1>1. SUFFICES ASSUME NEW m \in Modules, Plays(m)', Loaded(m)', startSend'[m] PROVE sendMessage'[m]
  BY DEF StartInv
<1>2. executed' # <<>>
  BY <1>1, NotLoaded
<1>3. /\ UNCHANGED <<type, period, partner>> /\ (Begun(Send(m))' <=> Begun(Send(m)))
      /\ ~SchedulesNext => UNCHANGED messages
  BY <1>2, PlayerFrame, CallsFacts
<1>4. Begun(Send(m)) /\ Plays(m)
  BY <1>1, <1>3, PlayerFacts DEF Loaded
<1>5. /\ SchedulesNext /\ Head(owed) = Update(m) => ~Loaded(m) /\ Loaded(m)'
      /\ SchedulesNext /\ Head(owed) = Send(m) => Loaded(m) /\ ~Loaded(m)'
      /\ ~(SchedulesNext /\ Head(owed) \in {Update(m), Send(m)}) => (Loaded(m)' <=> Loaded(m))
  BY <1>4, LoadedStep
<1>6. CASE ~SchedulesNext
  <2>1. Loaded(m) /\ startSend'[m] = startSend[m] /\ sendMessage'[m] = sendMessage[m]
    BY <1>1, <1>3, <1>5, <1>6 DEF messages
  <2>2. QED BY <1>1, <1>4, <2>1 DEF StartInv
<1>7. CASE SchedulesNext /\ Head(owed) = Update(m)
  <2>1. UpdateState(m)
    BY <1>4, <1>7, ResumesAs
  <2>2. sendMessage'[m] = (startSend[m] \/ Arrived(m)) /\ startSend'[m] = startSend[m]
    BY <2>1, OwnResume
  <2>3. QED BY <1>1, <2>2
<1>8. ASSUME SchedulesNext, NEW r \in Modules, Head(owed) = Update(r) \/ Head(owed) = Send(r), r # m
      PROVE  sendMessage'[m]
  <2>1. TrySend(r) \/ UpdateState(r) \/ UNCHANGED <<messages, reported>>
    BY <1>8, ResumesAs
  <2>2. startSend'[m] = startSend[m] /\ sendMessage'[m] = sendMessage[m]
    BY <1>8, <2>1, OthersResume DEF messages
  <2>3. Loaded(m)
    BY <1>1, <1>5, <1>8 DEF Update, Send
  <2>4. QED BY <1>1, <1>4, <2>2, <2>3 DEF StartInv
<1>9. SchedulesNext => \E r \in Modules : Head(owed) = Update(r) \/ Head(owed) = Send(r)
  BY ResumeFacts
<1>10. QED BY <1>1, <1>5, <1>6, <1>7, <1>8, <1>9

(* A module that does not play counts an event before it is scheduled      *)
(* again.                                                                  *)
LEMMA CountStep ==
    ASSUME SchedulerInv, BaseInv, CountTypes, LoggerInv, RoundsInv, CountInv,
           Client = "ordered", [ModulesNext]_allVars, pc' # "aborted"
    PROVE  CountInv'
<1>1. SUFFICES ASSUME NEW m \in Modules, Begun(Update(m))', ~Plays(m)'
               PROVE  count'[m] = Runs(Update(m))' + (IF Resuming(Update(m))' THEN 1 ELSE 0)
  BY DEF CountInv
<1>2. PICK c \in Call : c = Update(m)
  BY CallsFacts
<1>3. ~Plays(m)
  <2>1. UNCHANGED configuration
    BY SetupFrame, ModuleInitializesFacts
  <2>2. QED BY <1>1, <2>1, ConfigurationFrame
<1>4. CASE ~Begun(c)
  <2>1. PICK r \in Modules : ModuleInitializes(r)
    BY <1>1, <1>2, <1>4, SetupFrame
  <2>2. Runs(c)' = 0 /\ ~Resuming(c)' /\ c \in CallsOf(r)
    BY <1>1, <1>2, <1>4, <2>1, RunsBegin
  <2>3. r = m
    BY <1>2, <2>2, CallsOfFacts
  <2>4. ~Entered(m) /\ UNCHANGED reported
    BY <2>1, <2>3, InitializesBegun, ModuleInitializesFacts
  <2>5. count'[m] = 0
    BY <2>4 DEF LoggerInv, reported
  <2>6. QED BY <1>2, <2>2, <2>5
<1>5. CASE Begun(c)
  <2>1. PICK k \in Nat : k = Runs(c)
    BY <1>5 DEF RoundsInv
  <2>2. count[m] = k + (IF Resuming(c) THEN 1 ELSE 0) /\ count[m] \in Nat
    BY <1>2, <1>3, <1>5, <2>1 DEF CountInv, CountTypes
  <2>3. Runs(c)' = IF SchedulesNext /\ c = Head(owed) THEN k + 1 ELSE k
    BY <1>5, <2>1, RunsStep
  <2>4. CASE SchedulesNext /\ c = Head(owed)
    <3>1. Resuming(c) /\ ~Resuming(c)'
      BY <1>5, <2>4, DisturbedStep
    <3>2. UNCHANGED reported
      BY <1>2, <1>3, <2>4, ResumesAs
    <3>3. QED BY <1>2, <2>2, <2>3, <2>4, <3>1, <3>2 DEF reported
  <2>5. CASE CallEvent /\ owed' = <<c>>
    <3>1. ~Resuming(c) /\ Resuming(c)'
      BY <1>5, <2>5, DisturbedStep
    <3>2. Reports(m)
      <4>1. PICK e : /\ task[e] \in Call \cup {None}
                     /\ owed' = IF task[e] = None THEN <<>> ELSE <<task[e]>>
                     /\ IF task[e] # None /\ ~Plays(task[e][1]) THEN Reports(task[e][1]) ELSE UNCHANGED reported
        BY <2>5, CallEventFacts
      <4>2. task[e] = c /\ task[e] # None
        BY <2>5, <4>1
      <4>3. c[1] = m
        BY <1>2, CallsOfFacts
      <4>4. QED BY <1>3, <4>1, <4>2, <4>3
    <3>3. count'[m] = count[m] + 1
      BY <3>2 DEF Reports, CountTypes
    <3>4. ~SchedulesNext
      BY <2>5, CallEventFacts, SchedulesNextFacts
    <3>5. QED BY <1>2, <2>2, <2>3, <3>1, <3>3, <3>4
  <2>6. CASE ~(SchedulesNext /\ c = Head(owed)) /\ ~(CallEvent /\ owed' = <<c>>)
    <3>1. Resuming(c)' <=> Resuming(c)
      <4>1. CASE Undisturbed(c)
        BY <4>1 DEF Undisturbed
      <4>2. CASE SchedulesFirst /\ c = Head(owed)
        BY <1>5, <4>2, DisturbedStep
      <4>3. QED BY <1>5, <2>6, <4>1, <4>2, UndisturbedStep
    <3>2. count'[m] = count[m]
      <4>1. CASE ~SchedulesNext /\ ~CallEvent
        BY <4>1, MessageFrame DEF reported
      <4>2. CASE CallEvent
        <5>1. PICK e \in Issued \ Called :
                  /\ e \in 1..Len(task) /\ task[e] \in Call \cup {None}
                  /\ owed' = IF task[e] = None THEN <<>> ELSE <<task[e]>>
                  /\ IF task[e] # None /\ ~Plays(task[e][1]) THEN Reports(task[e][1]) ELSE UNCHANGED reported
          BY <4>2, CallEventFacts
        <5>2. CASE UNCHANGED reported
          BY <5>2 DEF reported
        <5>3. CASE task[e] # None /\ Reports(task[e][1])
          <6>1. PICK d \in Call : d = task[e] /\ Begun(d) /\ d # c
            BY <2>6, <4>2, <5>1, <5>3 DEF Begun
          <6>2. d[1] # m
            <7>1. d[1] = m => d = Send(m)
              BY <1>2, <6>1, CallsOfFacts
            <7>2. QED BY <1>3, <6>1, <7>1, PlayerFacts
          <6>3. QED BY <5>3, <6>1, <6>2 DEF Reports, CountTypes
        <5>4. QED BY <5>1, <5>2, <5>3
      <4>3. CASE SchedulesNext
        <5>1. PICK r \in Modules : Head(owed) = Update(r) \/ Head(owed) = Send(r)
          BY <4>3, ResumeFacts
        <5>2. r # m \/ Head(owed) = Send(m)
          BY <1>2, <2>6, <4>3, <5>1
        <5>3. r # m /\ (TrySend(r) \/ UpdateState(r) \/ UNCHANGED <<messages, reported>>)
          BY <1>3, <4>3, <5>1, <5>2, ResumesAs
        <5>4. QED BY <5>3, OthersResume DEF reported
      <4>4. QED BY <4>1, <4>2, <4>3
    <3>3. QED BY <1>2, <2>2, <2>3, <2>6, <3>1, <3>2
  <2>7. QED BY <2>4, <2>5, <2>6
<1>6. QED BY <1>4, <1>5

(* A player that hears of no one sends once, if it is a ping.              *)
LEMMA AloneStep ==
    ASSUME SchedulerInv, BaseInv, CountTypes, QuietInv, QuietInv', RoundsInv, TurnInv, AloneInv,
           Client = "ordered", [ModulesNext]_allVars, pc' # "aborted"
    PROVE  AloneInv'
<1>1. SUFFICES ASSUME NEW m \in Modules, Begun(Send(m))', Alone(m)'
               PROVE  /\ count'[m] = IF type'[m] = "PingModule" /\ Runs(Send(m))' > 0 THEN 1 ELSE 0
                      /\ startSend'[m] <=> type'[m] = "PingModule" /\ Runs(Send(m))' = 0
                      /\ Loaded(m)' => (sendMessage'[m] <=> startSend'[m])
  BY DEF AloneInv
<1>2. CASE executed' = <<>>
  <2>1. Runs(Send(m))' = 0 /\ ~Loaded(m)'
    BY <1>2, NoRuns, NotLoaded, CallsFacts
  <2>2. count'[m] = 0 /\ (startSend'[m] <=> type'[m] = "PingModule")
    BY <1>2 DEF QuietInv
  <2>3. QED BY <2>1, <2>2
<1>3. CASE executed' # <<>>
  <2>1. /\ UNCHANGED <<type, period, partner>> /\ (Begun(Send(m))' <=> Begun(Send(m)))
        /\ ~SchedulesNext =>
             UNCHANGED messages /\ \A r \in Modules : Plays(r) => count'[r] = count[r]
    BY <1>3, PlayerFrame, CallsFacts
  <2>2. Begun(Send(m)) /\ Plays(m) /\ Alone(m) /\ Send(m) \in Call
    BY <1>1, <2>1, PlayerFacts DEF Alone
  <2>3. PICK j \in Nat : j = Runs(Send(m))
    BY <2>2 DEF RoundsInv
  <2>4. /\ count[m] = IF type[m] = "PingModule" /\ j > 0 THEN 1 ELSE 0
        /\ startSend[m] <=> type[m] = "PingModule" /\ j = 0
        /\ Loaded(m) => (sendMessage[m] <=> startSend[m])
    BY <2>2, <2>3 DEF AloneInv
  <2>5. /\ SchedulesNext /\ Head(owed) = Update(m) => ~Loaded(m) /\ Loaded(m)'
        /\ SchedulesNext /\ Head(owed) = Send(m) => Loaded(m) /\ ~Loaded(m)'
        /\ ~(SchedulesNext /\ Head(owed) \in {Update(m), Send(m)}) => (Loaded(m)' <=> Loaded(m))
    BY <2>2, LoadedStep
  <2>6. Runs(Send(m))' = IF SchedulesNext /\ Send(m) = Head(owed) THEN j + 1 ELSE j
    BY <2>2, <2>3, RunsStep
  <2>7. CASE ~SchedulesNext
    <3>1. /\ count'[m] = count[m] /\ startSend'[m] = startSend[m] /\ sendMessage'[m] = sendMessage[m]
          /\ (Loaded(m)' <=> Loaded(m)) /\ Runs(Send(m))' = j
      BY <2>1, <2>2, <2>5, <2>6, <2>7 DEF messages
    <3>2. QED BY <2>1, <2>4, <3>1
  <2>8. CASE SchedulesNext /\ Head(owed) = Update(m)
    <3>1. UpdateState(m) /\ ~Arrived(m)
      BY <2>2, <2>8, ResumesAs DEF Arrived, Alone
    <3>2. sendMessage'[m] = startSend[m] /\ UNCHANGED <<startSend, count>>
      BY <3>1, OwnResume DEF CountTypes
    <3>3. Runs(Send(m))' = j
      BY <2>6, <2>8, CallsFacts
    <3>4. QED BY <2>1, <2>4, <3>2, <3>3
  <2>9. CASE SchedulesNext /\ Head(owed) = Send(m)
    <3>1. TrySend(m) /\ Loaded(m) /\ ~Loaded(m)' /\ Runs(Send(m))' = j + 1
      BY <2>5, <2>6, <2>9, ResumesAs
    <3>2. CASE sendMessage[m]
      <4>1. startSend'[m] = FALSE /\ count'[m] = count[m] + 1
        BY <3>1, <3>2, OwnResume
      <4>2. QED BY <2>1, <2>3, <2>4, <3>1, <3>2, <4>1
    <3>3. CASE ~sendMessage[m]
      <4>1. startSend'[m] = startSend[m] /\ count'[m] = count[m]
        BY <3>1, <3>3, OwnResume DEF messages, reported
      <4>2. QED BY <2>1, <2>3, <2>4, <3>1, <3>3, <4>1
    <3>4. QED BY <3>2, <3>3
  <2>10. ASSUME SchedulesNext, NEW r \in Modules, Head(owed) = Update(r) \/ Head(owed) = Send(r), r # m
         PROVE  /\ count'[m] = IF type'[m] = "PingModule" /\ Runs(Send(m))' > 0 THEN 1 ELSE 0
                /\ startSend'[m] <=> type'[m] = "PingModule" /\ Runs(Send(m))' = 0
                /\ Loaded(m)' => (sendMessage'[m] <=> startSend'[m])
    <3>1. TrySend(r) \/ UpdateState(r) \/ UNCHANGED <<messages, reported>>
      BY <2>10, ResumesAs
    <3>2. startSend'[m] = startSend[m] /\ sendMessage'[m] = sendMessage[m] /\ count'[m] = count[m]
      BY <2>10, <3>1, OthersResume DEF messages, reported
    <3>3. (Loaded(m)' <=> Loaded(m)) /\ Runs(Send(m))' = j
      BY <2>5, <2>6, <2>10 DEF Update, Send
    <3>4. QED BY <2>1, <2>4, <3>2, <3>3
  <2>11. SchedulesNext => \E r \in Modules : Head(owed) = Update(r) \/ Head(owed) = Send(r)
    BY ResumeFacts
  <2>12. QED BY <2>7, <2>8, <2>9, <2>10, <2>11
<1>4. QED BY <1>2, <1>3

LEMMA Parity ==
    \A i \in Nat : /\ i % 2 \in {0, 1} /\ (i + 1) % 2 = 1 - (i % 2) /\ i \div 2 \in Nat
                   /\ (i + 1) \div 2 = (i \div 2) + (i % 2)
                   /\ (i + 1 + 1) \div 2 = (i \div 2) + 1
  OBVIOUS

(* A ping and a pong of the same period send in turn. *)
LEMMA InStepStep ==
    ASSUME SchedulerInv, BaseInv, CountTypes, QuietInv, QuietInv', RoundsInv, TurnInv, InStepInv,
           Client = "ordered", [ModulesNext]_allVars, pc' # "aborted"
    PROVE  InStepInv'
<1>1. SUFFICES ASSUME NEW m \in Modules, NEW q \in Modules, Couple(m, q)', period'[m] = period'[q],
                      Picoseconds(m)' > 1
               PROVE  InRounds(m, q, Runs(Send(m)), Runs(Send(q)), Runs(Update(m)), Runs(Update(q)))'
  BY DEF InStepInv
<1>2. PICK i, j, k, l : /\ i = Runs(Send(m))' /\ j = Runs(Send(q))'
                        /\ k = Runs(Update(m))' /\ l = Runs(Update(q))'
  OBVIOUS
<1> DEFINE Goal(x, y, z, w) ==
        /\ startSend'[m] <=> x = 0
        /\ count'[m] = (x + 1) \div 2 /\ count'[q] = y \div 2
        /\ Loaded(m)' => (sendMessage'[m] <=> x % 2 = 0)
        /\ Loaded(q)' => (sendMessage'[q] <=> y % 2 = 1)
        /\ box'[m] <=> x % 2 = 1 /\ w = x
        /\ box'[q] <=> y % 2 = 0 /\ y > 0 /\ z = y
<1>3. SUFFICES Goal(i, j, k, l)
  BY <1>2 DEF InRounds
<1>4. CASE executed' = <<>>
  <2>1. i = 0 /\ j = 0 /\ k = 0 /\ l = 0 /\ ~Loaded(m)' /\ ~Loaded(q)'
    BY <1>2, <1>4, NoRuns, NotLoaded, CallsFacts
  <2>2. startSend'[m] /\ ~box'[m] /\ ~box'[q] /\ count'[m] = 0 /\ count'[q] = 0
    BY <1>1, <1>4 DEF QuietInv, Couple
  <2>3. QED BY <2>1, <2>2
<1>5. CASE executed' # <<>>
  <2>1. /\ UNCHANGED <<type, period, partner>>
        /\ ~SchedulesNext =>
             UNCHANGED messages /\ \A r \in Modules : Plays(r) => count'[r] = count[r]
    BY <1>5, PlayerFrame
  <2>2. Couple(m, q) /\ period[m] = period[q] /\ Picoseconds(m) > 1 /\ Picoseconds(q) > 1
    BY <1>1, <2>1 DEF Couple, Pair, Picoseconds
  <2>3. /\ Begun(Send(m)) /\ Begun(Send(q)) /\ Plays(m) /\ Plays(q) /\ m # q
        /\ Arrived(m) = box[q] /\ Arrived(q) = box[m] /\ ~startSend[q]
        /\ \A r \in Modules \ {m, q} : partner[r] \notin {m, q}
        /\ partner[m] = q /\ partner[q] = m
    BY <2>2, CoupleFacts
  <2>4. /\ box[m] \in BOOLEAN /\ box[q] \in BOOLEAN /\ startSend[m] \in BOOLEAN
        /\ sendMessage[m] \in BOOLEAN /\ sendMessage[q] \in BOOLEAN
        /\ count[m] \in Nat /\ count[q] \in Nat
    BY DEF CountTypes
  <2>5. /\ Send(m) \in Call /\ Send(q) \in Call /\ Update(m) \in Call /\ Update(q) \in Call
        /\ Begun(Update(m)) /\ Begun(Update(q))
    BY <2>3, PlayerFacts
  <2>6. PICK a \in Nat, b \in Nat, c \in Nat, d \in Nat :
           a = Runs(Send(m)) /\ b = Runs(Send(q)) /\ c = Runs(Update(m)) /\ d = Runs(Update(q))
    BY <2>3, <2>5 DEF RoundsInv
  <2>7. /\ startSend[m] <=> a = 0
        /\ count[m] = (a + 1) \div 2 /\ count[q] = b \div 2
        /\ Loaded(m) => (sendMessage[m] <=> a % 2 = 0)
        /\ Loaded(q) => (sendMessage[q] <=> b % 2 = 1)
        /\ box[m] <=> a % 2 = 1 /\ d = a
        /\ box[q] <=> b % 2 = 0 /\ b > 0 /\ c = b
    BY <2>2, <2>6 DEF InStepInv, InRounds
  <2>8. ASSUME NEW r \in {m, q}
        PROVE  /\ SchedulesNext /\ Head(owed) = Update(r) => ~Loaded(r) /\ Loaded(r)'
               /\ SchedulesNext /\ Head(owed) = Send(r) => Loaded(r) /\ ~Loaded(r)'
               /\ ~(SchedulesNext /\ Head(owed) \in {Update(r), Send(r)}) => (Loaded(r)' <=> Loaded(r))
    BY <2>3, LoadedStep
  <2>9. /\ i = IF SchedulesNext /\ Send(m) = Head(owed) THEN a + 1 ELSE a
        /\ j = IF SchedulesNext /\ Send(q) = Head(owed) THEN b + 1 ELSE b
        /\ k = IF SchedulesNext /\ Update(m) = Head(owed) THEN c + 1 ELSE c
        /\ l = IF SchedulesNext /\ Update(q) = Head(owed) THEN d + 1 ELSE d
    BY <1>2, <2>3, <2>5, <2>6, RunsStep
  <2>10. /\ Resuming(Update(m)) => c = a /\ c = b
         /\ Resuming(Update(q)) => d = b /\ d = a
         /\ Resuming(Send(m)) => c = a + 1 /\ d = a + 1
         /\ Resuming(Send(q)) => d = b + 1 /\ c = b + 1
    <3>1. currentTime \in Nat
      BY PosFacts DEF BaseInv
    <3>2. \A x, y \in {m, q} :
             /\ Resuming(Update(x)) => Runs(Update(x)) = Runs(Send(y))
             /\ Resuming(Send(y)) => Runs(Update(x)) = Runs(Send(y)) + 1
      BY <2>2, <2>3, <3>1, InRound
    <3>3. QED BY <2>6, <3>2
  <2>11. \A r \in Call : SchedulesNext /\ Head(owed) = r => Resuming(r)
    BY DisturbedStep, ResumeFacts
  <2> HIDE DEF Goal
  <2>12. CASE ~SchedulesNext
    <3>1. /\ UNCHANGED <<box, startSend, sendMessage>> /\ count'[m] = count[m] /\ count'[q] = count[q]
          /\ (Loaded(m)' <=> Loaded(m)) /\ (Loaded(q)' <=> Loaded(q))
      BY <2>1, <2>3, <2>8, <2>12 DEF messages
    <3>2. i = a /\ j = b /\ k = c /\ l = d
      BY <2>9, <2>12
    <3>3. QED BY <2>7, <3>1, <3>2 DEF Goal
  <2>13. ASSUME SchedulesNext, NEW r \in Modules, Head(owed) = Update(r) \/ Head(owed) = Send(r),
               r \notin {m, q} PROVE Goal(i, j, k, l)
    <3>1. TrySend(r) \/ UpdateState(r) \/ UNCHANGED <<messages, reported>>
      BY <2>13, ResumesAs
    <3>2. /\ startSend'[m] = startSend[m] /\ sendMessage'[m] = sendMessage[m] /\ box'[m] = box[m]
          /\ sendMessage'[q] = sendMessage[q] /\ box'[q] = box[q]
          /\ count'[m] = count[m] /\ count'[q] = count[q]
      BY <2>3, <2>13, <3>1, OthersResume DEF messages, reported
    <3>3. (Loaded(m)' <=> Loaded(m)) /\ (Loaded(q)' <=> Loaded(q))
      BY <2>8, <2>13 DEF Update, Send
    <3>4. i = a /\ j = b /\ k = c /\ l = d
      BY <2>9, <2>13 DEF Update, Send
    <3>5. QED BY <2>7, <3>2, <3>3, <3>4 DEF Goal
  <2>14. CASE SchedulesNext /\ Head(owed) = Update(m)
    <3>1. UpdateState(m)
      BY <2>3, <2>14, ResumesAs
    <3>2. /\ sendMessage'[m] = (startSend[m] \/ box[q]) /\ startSend'[m] = startSend[m]
          /\ box'[m] = box[m] /\ box'[q] = FALSE /\ sendMessage'[q] = sendMessage[q]
          /\ count'[m] = count[m] /\ count'[q] = count[q]
      BY <2>3, <2>4, <3>1, OwnResume, OthersResume
    <3>3. Loaded(q)' <=> Loaded(q)
      BY <2>3, <2>8, <2>14 DEF Update, Send
    <3>4. i = a /\ j = b /\ k = c + 1 /\ l = d /\ c = a /\ c = b
      BY <2>3, <2>5, <2>9, <2>10, <2>11, <2>14 DEF Update, Send
    <3>5. sendMessage'[m] <=> a % 2 = 0
      <4>1. startSend[m] \/ box[q] <=> a % 2 = 0
        <5>1. a = 0 => a % 2 = 0
          OBVIOUS
        <5>2. a = 0 \/ a > 0
          OBVIOUS
        <5>3. (startSend[m] <=> a = 0) /\ (box[q] <=> a % 2 = 0 /\ a > 0)
          BY <2>7, <3>4
        <5>4. QED BY <5>1, <5>2, <5>3
      <4>2. QED BY <2>4, <3>2, <4>1
    <3>6. QED BY <2>4, <2>7, <3>2, <3>3, <3>4, <3>5 DEF Goal
  <2>15. CASE SchedulesNext /\ Head(owed) = Update(q)
    <3>1. UpdateState(q)
      BY <2>3, <2>15, ResumesAs
    <3>2. /\ sendMessage'[q] = box[m] /\ startSend'[m] = startSend[m]
          /\ box'[q] = box[q] /\ box'[m] = FALSE /\ sendMessage'[m] = sendMessage[m]
          /\ count'[m] = count[m] /\ count'[q] = count[q]
      BY <2>3, <2>4, <3>1, OwnResume, OthersResume
    <3>3. Loaded(m)' <=> Loaded(m)
      BY <2>3, <2>8, <2>15 DEF Update, Send
    <3>4. i = a /\ j = b /\ k = c /\ l = d + 1 /\ d = a /\ d = b
      BY <2>3, <2>5, <2>9, <2>10, <2>11, <2>15 DEF Update, Send
    <3>5. sendMessage'[q] <=> b % 2 = 1
      BY <2>7, <3>2, <3>4
    <3>6. QED BY <2>4, <2>7, <3>2, <3>3, <3>4, <3>5 DEF Goal
  <2>16. CASE SchedulesNext /\ Head(owed) = Send(m)
    <3>1. TrySend(m) /\ Loaded(m) /\ ~Loaded(m)' /\ (Loaded(q)' <=> Loaded(q))
      BY <2>3, <2>8, <2>16, ResumesAs DEF Update, Send
    <3>2. /\ sendMessage'[q] = sendMessage[q] /\ box'[q] = box[q] /\ count'[q] = count[q]
      <4>1. partner[m] = q /\ q # m
        BY <2>3
      <4>2. QED BY <3>1, <4>1 DEF TrySend, Reports, messages, reported, CountTypes
    <3>3. i = a + 1 /\ j = b /\ k = c /\ l = d /\ d = a + 1
      BY <2>3, <2>5, <2>9, <2>10, <2>11, <2>16 DEF Update, Send
    <3>4. /\ a % 2 \in {0, 1} /\ (a + 1) % 2 = 1 - (a % 2)
          /\ (a + 1) \div 2 = (a \div 2) + (a % 2) /\ (a + 1 + 1) \div 2 = (a \div 2) + 1
      BY Parity
    <3>5. CASE sendMessage[m]
      <4>1. box'[m] = TRUE /\ startSend'[m] = FALSE /\ count'[m] = count[m] + 1
        BY <3>1, <3>5, OwnResume
      <4>2. a % 2 = 0
        BY <2>7, <3>1, <3>5
      <4>3. count'[m] = (i + 1) \div 2 /\ i % 2 = 1 /\ i # 0
        BY <2>7, <3>3, <3>4, <4>1, <4>2
      <4>4. QED BY <2>7, <3>1, <3>2, <3>3, <4>1, <4>3 DEF Goal
    <3>6. CASE ~sendMessage[m]
      <4>1. box'[m] = box[m] /\ startSend'[m] = startSend[m] /\ count'[m] = count[m]
        BY <3>1, <3>6, OwnResume DEF messages, reported
      <4>2. a % 2 = 1 /\ a # 0
        BY <2>7, <3>1, <3>4, <3>6
      <4>3. count'[m] = (i + 1) \div 2 /\ i % 2 = 0 /\ i # 0 /\ ~box[m]
        BY <2>7, <3>3, <3>4, <4>1, <4>2
      <4>4. QED BY <2>7, <3>1, <3>2, <3>3, <4>1, <4>2, <4>3 DEF Goal
    <3>7. QED BY <3>5, <3>6
  <2>17. CASE SchedulesNext /\ Head(owed) = Send(q)
    <3>1. TrySend(q) /\ Loaded(q) /\ ~Loaded(q)' /\ (Loaded(m)' <=> Loaded(m))
      BY <2>3, <2>8, <2>17, ResumesAs DEF Update, Send
    <3>2. /\ sendMessage'[m] = sendMessage[m] /\ box'[m] = box[m] /\ count'[m] = count[m]
          /\ startSend'[m] = startSend[m]
      BY <2>3, <3>1 DEF TrySend, Reports, messages, reported, CountTypes
    <3>3. i = a /\ j = b + 1 /\ k = c /\ l = d /\ c = b + 1
      BY <2>3, <2>5, <2>9, <2>10, <2>11, <2>17 DEF Update, Send
    <3>4. /\ b % 2 \in {0, 1} /\ (b + 1) % 2 = 1 - (b % 2) /\ (b + 1) \div 2 = (b \div 2) + (b % 2)
      BY Parity
    <3>5. CASE sendMessage[q]
      <4>1. box'[q] = TRUE /\ count'[q] = count[q] + 1
        BY <3>1, <3>5, OwnResume
      <4>2. b % 2 = 1
        BY <2>7, <3>1, <3>5
      <4>3. count'[q] = j \div 2 /\ j % 2 = 0 /\ j > 0 /\ k = j
        BY <2>7, <3>3, <3>4, <4>1, <4>2
      <4>4. QED BY <2>7, <3>1, <3>2, <3>3, <4>1, <4>3 DEF Goal
    <3>6. CASE ~sendMessage[q]
      <4>1. box'[q] = box[q] /\ count'[q] = count[q]
        BY <3>1, <3>6, OwnResume DEF messages, reported
      <4>2. b % 2 = 0
        BY <2>7, <3>1, <3>4, <3>6
      <4>3. count'[q] = j \div 2 /\ j % 2 = 1 /\ ~box[q]
        BY <2>7, <3>3, <3>4, <4>1, <4>2
      <4>4. QED BY <2>7, <3>1, <3>2, <3>3, <4>1, <4>3 DEF Goal
    <3>7. QED BY <3>5, <3>6
  <2>18. SchedulesNext => \E r \in Modules : Head(owed) = Update(r) \/ Head(owed) = Send(r)
    BY ResumeFacts
  <2>19. QED BY <2>12, <2>13, <2>14, <2>15, <2>16, <2>17, <2>18
<1>6. QED BY <1>4, <1>5

-----------------------------------------------------------------------------
(* The modules run as they should until an assertion fails. *)

LEMMA RunInit == ModulesInit => RunInv
<1> SUFFICES ASSUME ModulesInit PROVE RunInv
  OBVIOUS
<1>1. \A c : ~Begun(c)
  BY DEF ModulesInit, Begun, Owing
<1>2. \A m, q \in Modules : ~Couple(m, q)
  BY NoneAssumption DEF ModulesInit, Couple, Pair, Modules
<1>3. QED BY <1>1, <1>2 DEF RunInv, RoundsInv, TurnInv, TokenInv, StartInv, CountInv, AloneInv, InStepInv, Loaded

LEMMA RunStep ==
    ASSUME SchedulerInv, BaseInv, SchedulerInv', BaseInv', CountTypes, LoggerInv, QuietInv, QuietInv', RunInv,
           Client = "ordered", [ModulesNext]_allVars
    PROVE  RunInv'
<1>1. SUFFICES ASSUME pc' # "aborted"
               PROVE  RoundsInv' /\ TurnInv' /\ TokenInv' /\ StartInv' /\ CountInv' /\ AloneInv' /\ InStepInv'
  BY DEF RunInv
<1>2. RoundsInv /\ TurnInv /\ TokenInv /\ StartInv /\ CountInv /\ AloneInv /\ InStepInv
  BY <1>1, NoAbort DEF RunInv
<1>3. QED BY <1>1, <1>2, RoundsStep, TurnStep, TokenStep, StartStep, CountStep, AloneStep, InStepStep

Running == CountTypes /\ LoggerInv /\ QuietInv /\ RunInv

LEMMA RunningAlways ==
    ASSUME Client = "ordered"
    PROVE  ModulesSpec => []Running
<1>1. ModulesInit => Running
  BY LoggerInit, QuietInit, RunInit DEF Running
<1>2. (SchedulerInv /\ BaseInv) /\ (SchedulerInv /\ BaseInv)' /\ Running /\ [ModulesNext]_allVars => Running'
  BY CountTypesStep, LoggerStep, QuietStep, RunStep DEF Running
<1>3. QED BY <1>1, <1>2, BaseAlways, PTL DEF ModulesSpec

(* A pong answers each message once and a ping waits for its answer, for   *)
(* every two periods and every order of their events on one tick; a        *)
(* failing assertion leaves it so.                                         *)
THEOREM MessagesPairedAlways ==
    ASSUME Client = "ordered"
    PROVE  ModulesSpec => []MessagesPaired
<1>1. Running /\ ~(pc = "aborted") => MessagesPaired
  <2>1. SUFFICES ASSUME CountTypes, TokenInv, NEW m \in Modules, NEW q \in Modules, Couple(m, q)
                 PROVE  /\ count[q] <= count[m] /\ count[m] <= count[q] + 1
                        /\ box[m] => count[m] = count[q] + 1
                        /\ box[q] => count[m] = count[q]
    BY DEF MessagesPaired, Couple, Running, RunInv
  <2>2. count[m] \in Nat /\ count[q] \in Nat /\ Token(m, q)
    BY <2>1 DEF CountTypes, TokenInv
  <2>3. QED BY <2>2 DEF Token
<1>2. (SchedulerInv /\ BaseInv) /\ MessagesPaired /\ (pc = "aborted")' /\ [ModulesNext]_allVars => MessagesPaired'
  <2>1. SUFFICES ASSUME SchedulerInv, BaseInv, MessagesPaired, [ModulesNext]_allVars, pc' = "aborted"
                 PROVE  MessagesPaired'
    OBVIOUS
  <2>2. UNCHANGED <<type, partner, messages, reported>>
    <3>1. CASE pc # "aborted"
      <4>1. SchedulesNext
        BY <2>1, <3>1, AbortingStep
      <4>2. QED BY <2>1, <3>1, <4>1, SchedulesNextFacts DEF configuration
    <3>2. CASE pc = "aborted"
      <4>1. ~ \E m, q \in Modules : MainConnects(m, q)
        BY <3>2 DEF MainConnects
      <4>2. ~SchedulesNext /\ ~CallEvent
        BY <2>1, <3>2, CallEventFacts DEF SchedulesNext
      <4>3. UNCHANGED configuration
        BY <2>1, SetupFrame, ModuleInitializesFacts
      <4>4. QED BY <2>1, <4>1, <4>2, <4>3, MessageFrame DEF configuration
    <3>3. QED BY <3>1, <3>2
  <2>3. QED BY <2>1, <2>2 DEF MessagesPaired, Pair, messages, reported
<1>3. ModulesInit => MessagesPaired
  BY NoneAssumption DEF ModulesInit, MessagesPaired, Pair, Modules
<1>4. QED BY <1>1, <1>2, <1>3, RunningAlways, BaseAlways, PTL DEF ModulesSpec

-----------------------------------------------------------------------------
(* What has been counted by a time between two events. *)

(* n is how often p goes into t. *)
LEMMA DivFacts ==
    ASSUME NEW n \in Nat, NEW p \in Nat, NEW t \in Nat, p > 0, n * p <= t, t < n * p + p
    PROVE  t \div p = n
<1>1. PICK d \in Nat : d = t \div p /\ d * p <= t /\ t < d * p + p
  OBVIOUS
<1>2. n < d => n * p + p <= d * p
  BY MulMono
<1>3. d < n => d * p + p <= n * p
  BY MulMono
<1>4. n * p \in Nat /\ d * p \in Nat
  BY MulStep
<1>5. QED BY <1>1, <1>2, <1>3, <1>4

(* Half as often does twice p. *)
LEMMA HalfDivFacts ==
    ASSUME NEW n \in Nat, NEW p \in Nat, NEW t \in Nat, p > 0, n * p <= t, t < n * p + p
    PROVE  t \div (2 * p) = n \div 2
<1>1. PICK a \in Nat, r \in {0, 1} : n = 2 * a + r /\ a = n \div 2
  OBVIOUS
<1>2. n * p = a * (2 * p) + r * p
  BY <1>1
<1>3. r * p = 0 \/ r * p = p
  BY <1>1
<1>4. a * (2 * p) \in Nat /\ 2 * p \in Nat /\ 2 * p > 0
  BY MulStep
<1>5. a * (2 * p) <= t /\ t < a * (2 * p) + 2 * p
  BY <1>2, <1>3, <1>4
<1>6. QED BY <1>1, <1>4, <1>5, DivFacts

(* Between two runs a function that works is next called in a period. *)
LEMMA BetweenRuns ==
    ASSUME SchedulerInv, BaseInv, RoundsInv, pc = "idle", returned = "EVENTS_IN_QUEUE",
           NEW c \in Call, Begun(c)
    PROVE  /\ ~Resuming(c) /\ Runs(c) \in Nat /\ currentTime \in Nat
           /\ currentTime < NextAt(c) /\ NextAt(c) <= currentTime + Picoseconds(c[1])
<1>1. owed = <<>> /\ ~Resuming(c) /\ ~Beginning(c) /\ currentTime \in Nat
  BY PosFacts DEF BaseInv, OwedInv, Resuming, Beginning
<1>2. PICK e \in Issued : Left(c) = {e} /\ target[e] = NextAt(c)
  BY <1>1 DEF RoundsInv
<1>3. e \notin Called /\ target[e] \in Nat
  BY <1>2, PosFacts, TimesFacts, ElementOfSeq DEF Left, BaseInv, Issued, TypeOK
<1>4. ~(target[e] <= currentTime)
  BY <1>3, NoneOverdueHolds DEF SchedulerInv, NoneOverdue
<1>5. QED BY <1>1, <1>2, <1>3, <1>4 DEF RoundsInv

(* What works, with a period that fits the word.                           *)
LEMMA WorksFacts ==
    ASSUME BaseInv, NEW m \in Modules, Periodic(m), Works(m), Fits(m)
    PROVE  /\ Begun(Update(m)) /\ (Plays(m) => Begun(Send(m)))
           /\ Meant(m) = Picoseconds(m) /\ Picoseconds(m) \in Nat
<1>1. \A k \in 1..Len(Calls(m)) : Begun(Calls(m)[k])
  BY DEF Works, Begun
<1>2. Begun(Update(m)) /\ (Plays(m) => Begun(Send(m)))
  <2>1. CASE Plays(m)
    <3>1. Calls(m) = <<Update(m), Send(m)>>
      BY <2>1, CallsFacts
    <3>2. 1 \in 1..Len(Calls(m)) /\ 2 \in 1..Len(Calls(m)) /\ Calls(m)[1] = Update(m) /\ Calls(m)[2] = Send(m)
      BY <3>1
    <3>3. QED BY <1>1, <3>2
  <2>2. CASE ~Plays(m)
    <3>1. Calls(m) = <<Update(m)>>
      BY <2>2, CallsFacts
    <3>2. 1 \in 1..Len(Calls(m)) /\ Calls(m)[1] = Update(m)
      BY <3>1
    <3>3. QED BY <1>1, <2>2, <3>2
  <2>3. QED BY <2>1, <2>2
<1>3. QED BY <1>2, PicosecondsFacts DEF Fits, BaseInv

(* Between two runs, a module that does not play has counted an event at   *)
(* zero and one for each period since.                                     *)
LEMMA CountsItsPeriods ==
    ASSUME SchedulerInv, BaseInv, RoundsInv, CountInv, pc = "idle", returned = "EVENTS_IN_QUEUE",
           NEW m \in Modules, Begun(Update(m)), ~Plays(m)
    PROVE  count[m] = currentTime \div Picoseconds(m) + 1
<1>1. PICK p, k, t : p = Picoseconds(m) /\ k = Runs(Update(m)) /\ t = currentTime
  OBVIOUS
<1>2. Update(m) \in Call /\ Update(m)[1] = m /\ FirstAt(Update(m)) = 0
  BY CallsFacts, CallsOfFacts DEF FirstAt
<1>3. p \in Nat
  BY <1>1, <1>2, BegunFacts
<1>4. k \in Nat /\ t \in Nat /\ count[m] = k + 0 /\ t < 0 + k * p /\ 0 + k * p <= t + p
  BY <1>1, <1>2, BetweenRuns DEF CountInv, NextAt
<1>5. k # 0 /\ p > 0
  <2>1. k = 0 \/ p = 0 => k * p = 0
    BY <1>3, <1>4
  <2>2. QED BY <1>3, <1>4, <2>1
<1>6. PICK j \in Nat : k = j + 1
  BY <1>4, <1>5
<1>7. k * p = j * p + p /\ j * p \in Nat
  BY <1>3, <1>6, MulStep
<1>8. t \div p = j
  BY <1>3, <1>4, <1>5, <1>7, DivFacts
<1>9. QED BY <1>1, <1>4, <1>6, <1>8

(* Between two runs, what a player has been asked to send: at half a       *)
(* period, and once for each period since.                                 *)
LEMMA AskedToSend ==
    ASSUME SchedulerInv, BaseInv, RoundsInv, pc = "idle", returned = "EVENTS_IN_QUEUE",
           NEW m \in Modules, Begun(Send(m)), NEW p, p = Picoseconds(m), NEW t, t = currentTime
    PROVE  /\ Runs(Send(m)) \in Nat /\ t \in Nat /\ p \in Nat /\ p > 0
           /\ Runs(Send(m)) > 0 <=> p \div 2 <= t
           /\ (t + 2 * p - p \div 2) \div (2 * p) = (Runs(Send(m)) + 1) \div 2
           /\ (t + p - p \div 2) \div (2 * p) = Runs(Send(m)) \div 2
<1>1. PICK j : j = Runs(Send(m))
  OBVIOUS
<1>2. /\ Send(m) \in Call /\ Send(m)[1] = m /\ FirstAt(Send(m)) = p \div 2 /\ p \in Nat
      /\ t \in Nat /\ p > 0
  <2>1. /\ Send(m) \in Call /\ Send(m)[1] = m /\ FirstAt(Send(m)) = p \div 2 /\ p \in Nat
    BY PlayerFacts
  <2>2. t \in Nat /\ t < NextAt(Send(m)) /\ NextAt(Send(m)) <= t + p /\ Runs(Send(m)) \in Nat
    BY <2>1, BetweenRuns
  <2>3. NextAt(Send(m)) \in Nat
    BY <2>1, <2>2, MulStep DEF NextAt
  <2>4. QED BY <2>1, <2>2, <2>3
<1>3. PICK h \in Nat : h = p \div 2 /\ h < p
  BY <1>2
<1>4. j \in Nat /\ t \in Nat /\ t < h + j * p /\ h + j * p <= t + p
  BY <1>1, <1>2, <1>3, BetweenRuns DEF NextAt
<1>5. j * p \in Nat /\ (j + 1) * p = j * p + p
  BY <1>2, <1>4, MulStep
<1>6. j > 0 <=> h <= t
  <2>1. j = 0 => j * p = 0
    BY <1>2
  <2>2. 0 < j => 0 * p + p <= j * p
    BY <1>2, <1>4, MulMono
  <2>3. 0 * p = 0
    BY <1>2
  <2>4. QED BY <1>2, <1>3, <1>4, <1>5, <2>1, <2>2, <2>3
<1>7. (t + 2 * p - h) \div (2 * p) = (j + 1) \div 2
  <2>1. PICK x \in Nat : x = t + 2 * p - h
    BY <1>2, <1>3, <1>4
  <2>2. (j + 1) * p <= x /\ x < (j + 1) * p + p
    BY <1>2, <1>3, <1>4, <1>5, <2>1
  <2>3. x \div (2 * p) = (j + 1) \div 2
    BY <1>2, <1>4, <2>2, HalfDivFacts
  <2>4. QED BY <2>1, <2>3
<1>8. (t + p - h) \div (2 * p) = j \div 2
  <2>1. PICK x \in Nat : x = t + p - h
    BY <1>2, <1>3, <1>4
  <2>2. j * p <= x /\ x < j * p + p
    BY <1>2, <1>3, <1>4, <1>5, <2>1
  <2>3. x \div (2 * p) = j \div 2
    BY <1>2, <1>4, <2>2, HalfDivFacts
  <2>4. QED BY <2>1, <2>3
<1>9. QED BY <1>1, <1>2, <1>3, <1>4, <1>6, <1>7, <1>8

(* After any runs to any times a module that works has counted what its    *)
(* period says: for every period, every number of modules and every order  *)
(* of their events on one tick.                                            *)
THEOREM CountExactAlways ==
    ASSUME Client = "ordered"
    PROVE  ModulesSpec => []CountExact
<1>1. (SchedulerInv /\ BaseInv) /\ Running => CountExact
  <2>1. SUFFICES ASSUME SchedulerInv, BaseInv, Running, pc = "idle", returned = "EVENTS_IN_QUEUE",
                        NEW m \in Modules, Periodic(m), Works(m), Fits(m), InStep(m)
                 PROVE  count[m] = Expected(m, Meant(m), currentTime)
    BY DEF CountExact
  <2>2. CountTypes /\ QuietInv /\ RoundsInv /\ CountInv /\ AloneInv /\ InStepInv
    BY <2>1 DEF Running, RunInv
  <2>3. PICK p, t : p = Picoseconds(m) /\ t = currentTime
    OBVIOUS
  <2>4. Begun(Update(m)) /\ (Plays(m) => Begun(Send(m))) /\ Meant(m) = p
    BY <2>1, <2>3, WorksFacts
  <2>5. CASE ~Plays(m)
    <3>1. count[m] = t \div p + 1
      BY <2>1, <2>2, <2>3, <2>4, <2>5, CountsItsPeriods
    <3>2. Expected(m, p, t) = t \div p + 1
      BY <2>5 DEF Expected, Plays, Players
    <3>3. QED BY <2>3, <2>4, <3>1, <3>2
  <2>6. CASE Plays(m)
    <3>1. PICK j : j = Runs(Send(m))
      OBVIOUS
    <3>2. /\ j > 0 <=> p \div 2 <= t
          /\ (t + 2 * p - p \div 2) \div (2 * p) = (j + 1) \div 2
          /\ (t + p - p \div 2) \div (2 * p) = j \div 2
      BY <2>1, <2>2, <2>3, <2>4, <2>6, <3>1, AskedToSend
    <3>3. CASE Alone(m)
      <4>1. count[m] = IF type[m] = "PingModule" /\ j > 0 THEN 1 ELSE 0
        BY <2>2, <2>4, <2>6, <3>1, <3>3 DEF AloneInv
      <4>2. Expected(m, p, t) = IF type[m] = "PingModule" /\ p \div 2 <= t THEN 1 ELSE 0
        BY <2>6, <3>3 DEF Expected
      <4>3. QED BY <2>3, <2>4, <3>2, <4>1, <4>2
    <3>4. CASE ~Alone(m)
      <4>1. PICK q \in Modules : q = partner[m] /\ q # None /\ type[q] # type[m] /\ Pair(m, q) /\ period[q] = period[m]
             /\ Picoseconds(m) > 1 /\ Picoseconds(q) > 1
        BY <2>1, <2>2, <2>6, <3>4 DEF Alone, InStep, CountTypes, Picoseconds
      <4>2. Plays(q)
        BY <2>2, <4>1, NoneAssumption DEF QuietInv, Pair, Modules
      <4>3. CASE type[m] = "PingModule"
        <5>1. Couple(m, q)
          BY <4>1, <4>2, <4>3 DEF Couple, Plays, Players
        <5>2. count[m] = (j + 1) \div 2
          BY <2>2, <3>1, <4>1, <5>1 DEF InStepInv, InRounds
        <5>3. Expected(m, p, t) = (t + 2 * p - p \div 2) \div (2 * p)
          BY <2>6, <3>4, <4>3 DEF Expected
        <5>4. QED BY <2>3, <2>4, <3>2, <5>2, <5>3
      <4>4. CASE type[m] = "PongModule"
        <5>1. Couple(q, m)
          BY <4>1, <4>2, <4>4 DEF Couple, Plays, Players, Pair
        <5>2. count[m] = j \div 2
          BY <2>2, <3>1, <4>1, <5>1 DEF InStepInv, InRounds
        <5>3. Expected(m, p, t) = (t + p - p \div 2) \div (2 * p)
          BY <2>6, <3>4, <4>4 DEF Expected
        <5>4. QED BY <2>3, <2>4, <3>2, <5>2, <5>3
      <4>5. QED BY <2>6, <4>3, <4>4 DEF Plays, Players
    <3>5. QED BY <3>3, <3>4
  <2>7. QED BY <2>5, <2>6
<1>2. QED BY <1>1, RunningAlways, BaseAlways, PTL

(* Modules and main() are callers that keep the contract: what is proved   *)
(* of Spec holds of the scheduler that runs them.                          *)
THEOREM ModulesImplementContext ==
    ASSUME Client = "ordered"
    PROVE  ModulesSpec => Spec
<1>1. ModulesInit => Init
  BY DEF ModulesInit
<1>2. (SchedulerInv /\ BaseInv) /\ [ModulesNext]_allVars => [Next]_vars
  BY ModulesCalls
<1>3. QED BY <1>1, <1>2, BaseAlways, PTL DEF ModulesSpec, Spec
=============================================================================
