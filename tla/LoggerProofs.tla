----------------------------- MODULE LoggerProofs -----------------------------
(***************************************************************************)
(* The loggers are correct for any number of them, any paths and any order *)
(* of set-ups, failures and destructions.  Up to the moment a path is      *)
(* opened on which a living logger had failed, the count of a path is that *)
(* of its users, and one more for each set-up that gave a reference up.    *)
(***************************************************************************)
EXTENDS Logger, FiniteSetTheorems, TLAPS

(* A logger that does not live has no path and no stream. *)
Blank == \A l \in Loggers \ alive : sinkPath[l] = None /\ sink[l] = None

(* Every living logger has no stream, or an open one. *)
SinksOpen == \A l \in alive : sink[l] = None \/ (sink[l] \in Paths /\ Opened(sink[l]))

(* A logger whose stream is not the one of its path keeps what a set-up    *)
(* gave up.                                                                *)
SinksCounted == \A l \in alive : sink[l] \in Paths /\ sinkPath[l] # sink[l] => sink[l] \in leaked

(* A logger whose path is open writes there. *)
PathsJoined ==
    \A l \in alive : sinkPath[l] \in Paths /\ Opened(sinkPath[l]) => sink[l] = sinkPath[l]

CountsExact == \A p \in Paths \ leaked : Opened(p) => refCount[p] = Cardinality(Users(p))
LeaksCounted == \A p \in leaked : refCount[p] > Cardinality(Users(p))
LinesInOpen == \A p \in unflushed : Opened(p)

(* Whoever has a line in a file writes there, or has given its reference up. *)
WritersKnown ==
    \A w \in written : w[1] \in alive /\ (sink[w[1]] = w[2] \/ w[2] \in leaked)

Counted ==
    /\ SinksOpen /\ SinksCounted /\ PathsJoined
    /\ CountsExact /\ LeaksCounted
    /\ LinesInOpen /\ WritersKnown

IInv == TypeOK /\ Blank /\ (~recovered => Counted)

-----------------------------------------------------------------------------
(* The users of a path can be counted.                                     *)
LEMMA UsersFinite ==
    ASSUME TypeOK, NEW p \in Paths
    PROVE  IsFiniteSet(Users(p)) /\ Cardinality(Users(p)) \in Nat
<1>1. IsFiniteSet(Loggers) /\ Users(p) \in SUBSET Loggers
  BY LoggerAssumption DEF TypeOK, Users
<1>2. IsFiniteSet(Users(p))
  BY <1>1, FS_Subset
<1>3. QED BY <1>2, FS_CardinalityType

(* One user more, one user less.                                           *)
LEMMA UsersChange ==
    ASSUME TypeOK, NEW p \in Paths, NEW l
    PROVE  /\ Cardinality(Users(p) \cup {l}) =
                IF l \in Users(p) THEN Cardinality(Users(p)) ELSE Cardinality(Users(p)) + 1
           /\ Cardinality(Users(p) \ {l}) =
                IF l \in Users(p) THEN Cardinality(Users(p)) - 1 ELSE Cardinality(Users(p))
<1>1. IsFiniteSet(Users(p))
  BY UsersFinite
<1>2. QED BY <1>1, FS_AddElement, FS_RemoveElement

(* The members keep their types, whatever happens.                         *)
LEMMA TypeStep == TypeOK /\ [Next]_vars => TypeOK'
<1> SUFFICES ASSUME TypeOK, [Next]_vars PROVE TypeOK'
  OBVIOUS
<1> USE LoggerAssumption DEF TypeOK
<1>1. ASSUME NEW l \in Loggers, Create(l) PROVE TypeOK'
  BY <1>1 DEF Create, tracker
<1>2. ASSUME NEW l \in Loggers, NEW p \in Paths, NEW reset \in BOOLEAN, Setup(l, p, reset)
      PROVE  TypeOK'
  <2>1. leaked' \subseteq Paths /\ UNCHANGED <<alive, status>>
    BY <1>2 DEF Setup
  <2>2. CASE Share(l, p)
    BY <2>1, <2>2 DEF Share, Opened
  <2>3. CASE Open(l, p)
    BY <2>1, <2>3 DEF Open
  <2>4. CASE FailToOpen(l, p, reset)
    BY <2>1, <2>4 DEF FailToOpen, tracker
  <2>5. QED BY <1>2, <2>2, <2>3, <2>4 DEF Setup
<1>3. ASSUME NEW l \in Loggers, NEW new \in BOOLEAN, Enable(l, new) PROVE TypeOK'
  BY <1>3 DEF Enable, tracker
<1>4. ASSUME NEW l \in Loggers, LogCallable(l) PROVE TypeOK'
  BY <1>4 DEF LogCallable, loggers
<1>5. ASSUME NEW l \in Loggers, Destroy(l) PROVE TypeOK'
  <2>1. /\ refCount' \in [Paths -> 0..MaxRefs] /\ unflushed' \subseteq Paths
        /\ sink' \in [Loggers -> Paths \cup {None, Dangling}]
    BY <1>5 DEF Destroy, Release, Opened, tracker
  <2>2. QED BY <1>5, <2>1 DEF Destroy
<1>6. ASSUME NEW p \in Paths, FlushSink(p) PROVE TypeOK'
  BY <1>6 DEF FlushSink, loggers
<1>7. CASE FlushAllSinks
  BY <1>7 DEF FlushAllSinks, loggers
<1>8. CASE UNCHANGED vars
  BY <1>8 DEF vars, loggers, tracker
<1>9. QED BY <1>1, <1>2, <1>3, <1>4, <1>5, <1>6, <1>7, <1>8 DEF Next, Initialize, LogSetup

(* Only the living are set up; what the table erases under a pointer is    *)
(* no concern of those that have none.                                     *)
LEMMA BlankStep == TypeOK /\ Blank /\ [Next]_vars => Blank'
<1> SUFFICES ASSUME TypeOK, Blank, [Next]_vars, NEW m \in Loggers, m \notin alive'
             PROVE  sinkPath'[m] = None /\ sink'[m] = None
  BY DEF Blank
<1> USE LoggerAssumption DEF TypeOK, Blank
<1>1. ASSUME NEW l \in Loggers, Create(l) PROVE sinkPath'[m] = None /\ sink'[m] = None
  BY <1>1 DEF Create
<1>2. ASSUME NEW l \in Loggers, NEW p \in Paths, NEW reset \in BOOLEAN, Setup(l, p, reset)
      PROVE  sinkPath'[m] = None /\ sink'[m] = None
  BY <1>2 DEF Setup, Share, Open, FailToOpen
<1>3. ASSUME NEW l \in Loggers, Destroy(l) PROVE sinkPath'[m] = None /\ sink'[m] = None
  BY <1>3 DEF Destroy, Release
<1>4. CASE UNCHANGED loggers
  BY <1>4 DEF loggers
<1>5. ASSUME NEW l \in Loggers, NEW new \in BOOLEAN, Enable(l, new)
      PROVE  sinkPath'[m] = None /\ sink'[m] = None
  BY <1>5 DEF Enable
<1>6. QED
  BY <1>1, <1>2, <1>3, <1>4, <1>5
     DEF Next, Initialize, LogSetup, LogCallable, FlushSink, FlushAllSinks, vars

-----------------------------------------------------------------------------
(* A logger joins the users of an open path: one more, unless it was one.  *)
LEMMA ShareStep ==
    ASSUME TypeOK, Counted, NEW l \in Loggers, NEW p \in Paths, NEW reset \in BOOLEAN,
           Setup(l, p, reset), Share(l, p)
    PROVE  Counted'
<1> USE LoggerAssumption DEF TypeOK
<1>1. /\ l \in alive /\ alive' = alive /\ leaked' = leaked \cup ({sink[l]} \cap Paths)
      /\ Opened(p) /\ sinkPath' = [sinkPath EXCEPT ![l] = p] /\ sink' = [sink EXCEPT ![l] = p]
      /\ refCount' = [refCount EXCEPT ![p] = @ + 1]
      /\ unflushed' = unflushed /\ written' = written
  BY DEF Setup, Share
<1>2. \A q \in Paths : Opened(q) => Opened(q)'
  BY <1>1 DEF Opened
<1>3. SinksOpen' /\ SinksCounted' /\ PathsJoined'
  BY <1>1, <1>2 DEF Counted, SinksOpen, SinksCounted, PathsJoined, Opened
<1>4. LinesInOpen' /\ WritersKnown'
  BY <1>1, <1>2 DEF Counted, LinesInOpen, WritersKnown, SinksOpen
<1>5. ASSUME NEW q \in Paths
      PROVE  Users(q)' = IF q = p THEN Users(q) \cup {l} ELSE Users(q) \ {l}
  BY <1>1 DEF Users
<1>6. \A q \in Paths : l \in Users(q) /\ Opened(q) => q \in leaked'
  BY <1>1 DEF Counted, PathsJoined, Users
<1>7. CountsExact'
  <2> SUFFICES ASSUME NEW q \in Paths, q \notin leaked', Opened(q)'
               PROVE  refCount'[q] = Cardinality(Users(q)')
    BY DEF CountsExact
  <2>0. Users(q)' = IF q = p THEN Users(q) \cup {l} ELSE Users(q) \ {l}
    BY <1>5
  <2>count. refCount'[q] = IF q = p THEN refCount[q] + 1 ELSE refCount[q]
    BY <1>1
  <2>card. /\ Cardinality(Users(q) \cup {l}) =
             IF l \in Users(q) THEN Cardinality(Users(q)) ELSE Cardinality(Users(q)) + 1
        /\ Cardinality(Users(q) \ {l}) =
             IF l \in Users(q) THEN Cardinality(Users(q)) - 1 ELSE Cardinality(Users(q))
    BY UsersChange
  <2>1. q \notin leaked /\ Opened(q) /\ l \notin Users(q)
    BY <1>1, <1>6 DEF Opened
  <2>2. refCount[q] = Cardinality(Users(q)) /\ IsFiniteSet(Users(q))
    BY <2>1, UsersFinite DEF Counted, CountsExact
  <2>3. CASE q = p
    BY <2>0, <2>count, <2>card, <2>1, <2>2, <2>3
  <2>4. CASE q # p
    BY <2>0, <2>count, <2>card, <2>1, <2>2, <2>4
  <2>5. QED BY <2>3, <2>4
<1>8. LeaksCounted'
  <2> SUFFICES ASSUME NEW q \in Paths, q \in leaked'
               PROVE  refCount'[q] > Cardinality(Users(q)')
    BY <1>1 DEF LeaksCounted
  <2>0. Users(q)' = IF q = p THEN Users(q) \cup {l} ELSE Users(q) \ {l}
    BY <1>5
  <2>count. refCount'[q] = IF q = p THEN refCount[q] + 1 ELSE refCount[q]
    BY <1>1
  <2>card. /\ Cardinality(Users(q) \cup {l}) =
             IF l \in Users(q) THEN Cardinality(Users(q)) ELSE Cardinality(Users(q)) + 1
        /\ Cardinality(Users(q) \ {l}) =
             IF l \in Users(q) THEN Cardinality(Users(q)) - 1 ELSE Cardinality(Users(q))
    BY UsersChange
  <2>1. /\ IsFiniteSet(Users(q)) /\ Cardinality(Users(q)) \in Nat /\ refCount[q] \in Nat
    BY UsersFinite
  <2>2. CASE q \in leaked
    <3>1. refCount[q] > Cardinality(Users(q))
      BY <2>2 DEF Counted, LeaksCounted
    <3>2. CASE q = p
      BY <2>0, <2>count, <2>card, <2>1, <3>1, <3>2
    <3>3. CASE q # p
      BY <2>0, <2>count, <2>card, <2>1, <3>1, <3>3
    <3>4. QED BY <3>2, <3>3
  <2>3. CASE q \notin leaked
    <3>1. q = sink[l] /\ Opened(q)
      BY <1>1, <2>3 DEF Counted, SinksOpen
    <3>2. refCount[q] = Cardinality(Users(q))
      BY <2>3, <3>1 DEF Counted, CountsExact
    <3>3. sinkPath[l] = q
      BY <1>1, <2>3, <3>1 DEF Counted, SinksCounted
    <3>4. l \in Users(q)
      BY <1>1, <3>3 DEF Users
    <3>5. CASE q = p
      BY <2>0, <2>count, <2>card, <2>1, <3>2, <3>4, <3>5
    <3>6. CASE q # p
      BY <2>0, <2>count, <2>card, <2>1, <3>2, <3>4, <3>6
    <3>7. QED BY <3>5, <3>6
  <2>4. QED BY <2>2, <2>3
<1>9. QED BY <1>3, <1>4, <1>7, <1>8 DEF Counted

(* A path is opened: nobody else has it, or it had failed for a living     *)
(* logger.                                                                 *)
LEMMA OpenStep ==
    ASSUME TypeOK, Counted, NEW l \in Loggers, NEW p \in Paths, NEW reset \in BOOLEAN,
           Setup(l, p, reset), Open(l, p), ~recovered'
    PROVE  Counted'
<1> USE LoggerAssumption DEF TypeOK
<1>1. /\ l \in alive /\ alive' = alive /\ leaked' = leaked \cup ({sink[l]} \cap Paths)
      /\ ~Opened(p) /\ sinkPath' = [sinkPath EXCEPT ![l] = p] /\ sink' = [sink EXCEPT ![l] = p]
      /\ refCount' = [refCount EXCEPT ![p] = 1]
      /\ unflushed' = unflushed /\ written' = {w \in written : w[2] # p}
      /\ \A m \in alive \ {l} : ~Failed(m, p)
  BY DEF Setup, Open
<1>2. (\A q \in Paths : Opened(q) => Opened(q)') /\ Opened(p)'
  BY <1>1 DEF Opened
<1>3. \A m \in alive : sink[m] # p
  BY <1>1 DEF Counted, SinksOpen
<1>4. \A m \in alive \ {l} : sinkPath[m] # p
  BY <1>1, <1>3 DEF Failed, Counted, SinksOpen
<1>5. p \notin leaked'
  <2>1. p \notin leaked
    BY <1>1, UsersFinite DEF Counted, LeaksCounted, Opened
  <2>2. QED BY <1>1, <1>3, <2>1
<1>6. SinksOpen' /\ SinksCounted'
  BY <1>1, <1>2 DEF Counted, SinksOpen, SinksCounted
<1>7. PathsJoined'
  BY <1>1, <1>4 DEF Counted, PathsJoined, Opened
<1>8. LinesInOpen' /\ WritersKnown'
  BY <1>1, <1>2 DEF Counted, LinesInOpen, WritersKnown, SinksOpen
<1>9. ASSUME NEW q \in Paths
      PROVE  Users(q)' = IF q = p THEN {l} ELSE Users(q) \ {l}
  BY <1>1, <1>4 DEF Users
<1>10. CountsExact'
  <2> SUFFICES ASSUME NEW q \in Paths, q \notin leaked', Opened(q)'
               PROVE  refCount'[q] = Cardinality(Users(q)')
    BY DEF CountsExact
  <2>0. Users(q)' = IF q = p THEN {l} ELSE Users(q) \ {l}
    BY <1>9
  <2>1. CASE q = p
    BY <1>1, <2>0, <2>1, FS_Singleton
  <2>2. CASE q # p
    <3>1. q \notin leaked /\ Opened(q)
      BY <1>1, <2>2 DEF Opened
    <3>2. l \notin Users(q)
      BY <1>1, <3>1 DEF Counted, PathsJoined, Users
    <3>3. refCount[q] = Cardinality(Users(q))
      BY <3>1 DEF Counted, CountsExact
    <3>4. QED BY <1>1, <2>0, <2>2, <3>2, <3>3
  <2>3. QED BY <2>1, <2>2
<1>11. LeaksCounted'
  <2> SUFFICES ASSUME NEW q \in Paths, q \in leaked'
               PROVE  refCount'[q] > Cardinality(Users(q)')
    BY <1>1 DEF LeaksCounted
  <2>0. Users(q)' = IF q = p THEN {l} ELSE Users(q) \ {l}
    BY <1>9
  <2>1. q # p
    BY <1>5
  <2>count. refCount'[q] = refCount[q]
    BY <1>1, <2>1
  <2>card. Cardinality(Users(q) \ {l}) =
             IF l \in Users(q) THEN Cardinality(Users(q)) - 1 ELSE Cardinality(Users(q))
    BY UsersChange
  <2>2. /\ IsFiniteSet(Users(q)) /\ Cardinality(Users(q)) \in Nat /\ refCount[q] \in Nat
    BY UsersFinite
  <2>3. CASE q \in leaked
    <3>1. refCount[q] > Cardinality(Users(q))
      BY <2>3 DEF Counted, LeaksCounted
    <3>2. QED BY <2>0, <2>count, <2>card, <2>1, <2>2, <3>1
  <2>4. CASE q \notin leaked
    <3>1. q = sink[l] /\ Opened(q)
      BY <1>1, <2>4 DEF Counted, SinksOpen
    <3>2. refCount[q] = Cardinality(Users(q))
      BY <2>4, <3>1 DEF Counted, CountsExact
    <3>3. l \in Users(q)
      BY <1>1, <2>4, <3>1 DEF Counted, SinksCounted, Users
    <3>4. QED BY <2>0, <2>count, <2>card, <2>1, <2>2, <3>2, <3>3
  <2>5. QED BY <2>3, <2>4
<1>12. QED BY <1>6, <1>7, <1>8, <1>10, <1>11 DEF Counted

(* A set-up that fails leaves the table alone and may give a reference up. *)
LEMMA FailStep ==
    ASSUME TypeOK, Counted, NEW l \in Loggers, NEW p \in Paths, NEW reset \in BOOLEAN,
           Setup(l, p, reset), FailToOpen(l, p, reset)
    PROVE  Counted'
<1> USE LoggerAssumption DEF TypeOK
<1>1. /\ l \in alive /\ alive' = alive /\ leaked' = leaked \cup ({sink[l]} \cap Paths)
      /\ ~Opened(p) /\ sinkPath' = [sinkPath EXCEPT ![l] = p]
      /\ refCount' = refCount /\ unflushed' = unflushed /\ written' = written
  BY DEF Setup, FailToOpen, tracker
<1>2. \A m \in Loggers : sink'[m] = sink[m] \/ (m = l /\ sink'[m] = None)
  <2>1. sink' \in {sink, [sink EXCEPT ![l] = None]}
    BY Zenon DEF FailToOpen
  <2>2. QED BY <2>1
<1>3. SinksOpen'
  BY <1>1, <1>2 DEF Counted, SinksOpen, Opened
<1>4. SinksCounted'
  BY <1>1, <1>2 DEF Counted, SinksCounted
<1>5. PathsJoined'
  BY <1>1, <1>2 DEF Counted, PathsJoined, Opened
<1>6. LinesInOpen'
  BY <1>1 DEF Counted, LinesInOpen, Opened
<1>7. WritersKnown'
  <2> SUFFICES ASSUME NEW w \in written
               PROVE  w[1] \in alive /\ (sink'[w[1]] = w[2] \/ w[2] \in leaked')
    BY <1>1 DEF WritersKnown
  <2>1. w[1] \in Loggers /\ w[2] \in Paths /\ w[1] \in alive
    BY DEF Counted, WritersKnown
  <2>2. sink[w[1]] = w[2] \/ w[2] \in leaked
    BY DEF Counted, WritersKnown
  <2>3. QED BY <1>1, <1>2, <2>1, <2>2
<1>8. ASSUME NEW q \in Paths, Opened(q)
      PROVE  Users(q)' = Users(q) \ {l} /\ (l \in Users(q) => q = sink[l] /\ q \in leaked')
  BY <1>1, <1>8 DEF Users, Counted, PathsJoined
<1>9. CountsExact'
  <2> SUFFICES ASSUME NEW q \in Paths, q \notin leaked', Opened(q)'
               PROVE  refCount'[q] = Cardinality(Users(q)')
    BY DEF CountsExact
  <2>1. q \notin leaked /\ Opened(q)
    BY <1>1 DEF Opened
  <2>2. Users(q)' = Users(q) /\ refCount[q] = Cardinality(Users(q))
    BY <1>8, <2>1 DEF Counted, CountsExact
  <2>3. QED BY <1>1, <2>2
<1>10. LeaksCounted'
  <2> SUFFICES ASSUME NEW q \in Paths, q \in leaked'
               PROVE  refCount[q] > Cardinality(Users(q)')
    BY <1>1 DEF LeaksCounted
  <2>1. IsFiniteSet(Users(q)) /\ Cardinality(Users(q)) \in Nat /\ refCount[q] \in Nat
    BY UsersFinite
  <2>2. Cardinality(Users(q) \ {l}) =
            IF l \in Users(q) THEN Cardinality(Users(q)) - 1 ELSE Cardinality(Users(q))
    BY UsersChange
  <2>3. CASE q \in leaked
    <3>1. refCount[q] > Cardinality(Users(q))
      BY <2>3 DEF Counted, LeaksCounted
    <3>2. Opened(q)
      BY <2>1, <3>1 DEF Opened
    <3>3. Users(q)' = Users(q) \ {l}
      BY <1>8, <3>2
    <3>4. QED BY <2>1, <2>2, <3>1, <3>3
  <2>4. CASE q \notin leaked
    <3>1. q = sink[l] /\ Opened(q)
      BY <1>1, <2>4 DEF Counted, SinksOpen
    <3>2. refCount[q] = Cardinality(Users(q)) /\ l \in Users(q)
      BY <1>1, <2>4, <3>1 DEF Counted, CountsExact, SinksCounted, Users
    <3>3. Users(q)' = Users(q) \ {l}
      BY <1>8, <3>1
    <3>4. QED BY <2>1, <2>2, <3>2, <3>3
  <2>5. QED BY <2>3, <2>4
<1>11. QED BY <1>3, <1>4, <1>5, <1>6, <1>7, <1>9, <1>10 DEF Counted

(* A logger goes: it counts down the path it uses, and erases the entry    *)
(* only when nobody else has a pointer into it.                            *)
LEMMA DestroyStep ==
    ASSUME TypeOK, Blank, Counted, NEW l \in Loggers, Destroy(l)
    PROVE  Counted'
<1> USE LoggerAssumption DEF TypeOK
<1> DEFINE p == sinkPath[l]
           counts == p \in Paths /\ Opened(p)
<1>1. /\ l \in alive /\ alive' = alive \ {l} /\ leaked' = leaked
      /\ sinkPath' = [sinkPath EXCEPT ![l] = None]
      /\ written' = {w \in written : w[1] # l}
  BY DEF Destroy
<1>2. \A q \in Paths : refCount'[q] = IF counts /\ q = p THEN refCount[q] - 1 ELSE refCount[q]
  BY DEF Destroy, Release, tracker
<1>3. counts => l \in Users(p) /\ sink[l] = p
  BY <1>1 DEF Users, Counted, PathsJoined
<1>4. ASSUME NEW q \in Paths, Opened(q)
      PROVE  /\ Users(q)' = Users(q) \ {l}
             /\ l \in Users(q) <=> counts /\ q = p
  <2>1. Users(q)' = Users(q) \ {l}
    BY <1>1 DEF Users
  <2>2. l \in Users(q) <=> q = p
    BY <1>1 DEF Users
  <2>3. QED BY <1>4, <2>1, <2>2
<1>5. ASSUME counts, refCount[p] = 1 PROVE p \notin leaked /\ Users(p) = {l}
  <2>1. IsFiniteSet(Users(p)) /\ Cardinality(Users(p)) \in Nat
    BY <1>5, UsersFinite
  <2>2. Cardinality(Users(p)) # 0
    BY <1>3, <1>5, <2>1, FS_EmptySet
  <2>3. p \notin leaked
    BY <1>5, <2>1, <2>2 DEF Counted, LeaksCounted
  <2>4. Cardinality(Users(p)) = 1
    BY <1>5, <2>3 DEF Counted, CountsExact
  <2>5. QED BY <1>3, <1>5, <2>1, <2>3, <2>4, FS_Singleton
<1>6. \A m \in alive \ {l} : sink'[m] = sink[m]
  <2> SUFFICES ASSUME NEW m \in alive, m # l, counts, refCount[p] = 1, sink[m] = p
               PROVE  FALSE
    BY DEF Destroy, Release
  <2>1. p \notin leaked /\ m \notin Users(p)
    BY <1>5
  <2>2. QED BY <2>1 DEF Users, Counted, SinksCounted
<1>7. \A m \in alive \ {l} : sink[m] \in Paths => refCount'[sink[m]] > 0
  <2> SUFFICES ASSUME NEW m \in alive, m # l, sink[m] \in Paths, ~(refCount'[sink[m]] > 0)
               PROVE  FALSE
    OBVIOUS
  <2>1. Opened(sink[m])
    BY DEF Counted, SinksOpen
  <2>2. counts /\ sink[m] = p /\ refCount[p] = 1
    <3>1. refCount[sink[m]] \in Nat \ {0}
      BY <2>1 DEF Opened
    <3>2. refCount'[sink[m]] = IF counts /\ sink[m] = p THEN refCount[sink[m]] - 1
                                                       ELSE refCount[sink[m]]
      BY <1>2
    <3>3. QED BY <3>1, <3>2
  <2>3. p \notin leaked /\ m \notin Users(p)
    BY <1>5, <2>2
  <2>4. QED BY <2>2, <2>3 DEF Users, Counted, SinksCounted
<1> HIDE DEF p, counts
<1>8. SinksOpen'
  BY <1>1, <1>6, <1>7 DEF Counted, SinksOpen, Opened
<1>9. SinksCounted'
  BY <1>1, <1>6 DEF Counted, SinksCounted
<1>10. \A q \in Paths : Opened(q)' => Opened(q)
  BY <1>2 DEF Opened
<1>11. PathsJoined'
  BY <1>1, <1>6, <1>10 DEF Counted, PathsJoined
<1>12. WritersKnown'
  BY <1>1, <1>6 DEF Counted, WritersKnown
<1>13. LinesInOpen'
  <2> SUFFICES ASSUME NEW q \in Paths, q \in unflushed' PROVE Opened(q)'
    BY DEF LinesInOpen, Destroy, Release, tracker
  <2>1. q \in unflushed /\ ~(counts /\ q = p /\ refCount[p] = 1)
    BY DEF Destroy, Release, tracker, counts, p
  <2>2. Opened(q)
    BY <2>1 DEF Counted, LinesInOpen
  <2>3. QED BY <1>2, <2>1, <2>2 DEF Opened
<1>14. ASSUME NEW q \in Paths, Opened(q)
       PROVE  Cardinality(Users(q)') =
                  IF counts /\ q = p THEN Cardinality(Users(q)) - 1 ELSE Cardinality(Users(q))
  BY <1>4, <1>14, UsersChange
<1>15. CountsExact'
  <2> SUFFICES ASSUME NEW q \in Paths, q \notin leaked', Opened(q)'
               PROVE  refCount'[q] = Cardinality(Users(q)')
    BY DEF CountsExact
  <2>1. Opened(q) /\ refCount[q] = Cardinality(Users(q))
    BY <1>1, <1>10 DEF Counted, CountsExact
  <2>2. Cardinality(Users(q)') =
            IF counts /\ q = p THEN Cardinality(Users(q)) - 1 ELSE Cardinality(Users(q))
    BY <1>14, <2>1
  <2>3. refCount'[q] = IF counts /\ q = p THEN refCount[q] - 1 ELSE refCount[q]
    BY <1>2
  <2>4. QED BY <2>1, <2>2, <2>3
<1>16. LeaksCounted'
  <2> SUFFICES ASSUME NEW q \in Paths, q \in leaked
               PROVE  refCount'[q] > Cardinality(Users(q)')
    BY <1>1 DEF LeaksCounted
  <2>1. Cardinality(Users(q)) \in Nat /\ refCount[q] \in Nat /\ refCount[q] > Cardinality(Users(q))
    BY UsersFinite DEF Counted, LeaksCounted
  <2>2. Opened(q)
    BY <2>1 DEF Opened
  <2>3. Cardinality(Users(q)') =
            IF counts /\ q = p THEN Cardinality(Users(q)) - 1 ELSE Cardinality(Users(q))
    BY <1>14, <2>2
  <2>4. refCount'[q] = IF counts /\ q = p THEN refCount[q] - 1 ELSE refCount[q]
    BY <1>2
  <2>5. QED BY <2>1, <2>3, <2>4
<1>17. QED BY <1>8, <1>9, <1>11, <1>12, <1>13, <1>15, <1>16 DEF Counted

(* A line is written by a logger that has an open stream.                  *)
LEMMA LogStep ==
    ASSUME TypeOK, Counted, NEW l \in Loggers, LogCallable(l)
    PROVE  Counted'
<1> USE LoggerAssumption DEF TypeOK
<1>1. UNCHANGED <<alive, sinkPath, sink, refCount, leaked>> /\ l \in alive
  BY DEF LogCallable, loggers
<1>2. SinksOpen' /\ SinksCounted' /\ PathsJoined'
  BY <1>1 DEF Counted, SinksOpen, SinksCounted, PathsJoined, Opened
<1>3. CountsExact' /\ LeaksCounted'
  BY <1>1 DEF Counted, CountsExact, LeaksCounted, Users, Opened
<1>4. LinesInOpen'
  BY <1>1 DEF Counted, LinesInOpen, SinksOpen, Opened, LogCallable
<1>5. WritersKnown'
  <2>1. \A w \in written' : w \in written \/ w = <<l, sink[l]>>
    BY DEF LogCallable
  <2>2. QED BY <1>1, <2>1 DEF Counted, WritersKnown
<1>6. QED BY <1>2, <1>3, <1>4, <1>5 DEF Counted

(* A logger is born without a path, turned on or off, or streams are       *)
(* flushed.                                                                *)
LEMMA CalmStep ==
    ASSUME TypeOK, Blank, Counted, UNCHANGED <<sinkPath, sink, refCount, leaked, written>>,
           unflushed' \subseteq unflushed,
           alive' = alive \/ \E l \in Loggers \ alive : alive' = alive \cup {l}
    PROVE  Counted'
<1> USE LoggerAssumption DEF TypeOK
<1>1. alive \subseteq alive' /\ \A m \in alive' \ alive : sinkPath[m] = None /\ sink[m] = None
  BY DEF Blank
<1>2. SinksOpen' /\ SinksCounted' /\ PathsJoined'
  BY <1>1 DEF Counted, SinksOpen, SinksCounted, PathsJoined, Opened
<1>3. LinesInOpen' /\ WritersKnown'
  BY <1>1 DEF Counted, LinesInOpen, WritersKnown, Opened
<1>4. ASSUME NEW q \in Paths PROVE Users(q)' = Users(q)
  BY <1>1 DEF Users
<1>5. CountsExact'
  <2> SUFFICES ASSUME NEW q \in Paths \ leaked, Opened(q) PROVE refCount[q] = Cardinality(Users(q)')
    BY DEF CountsExact, Opened
  <2>1. QED BY <1>4 DEF Counted, CountsExact
<1>6. LeaksCounted'
  <2> SUFFICES ASSUME NEW q \in leaked PROVE refCount[q] > Cardinality(Users(q)')
    BY DEF LeaksCounted
  <2>1. Users(q)' = Users(q)
    BY <1>4
  <2>2. QED BY <2>1 DEF Counted, LeaksCounted
<1>7. QED BY <1>2, <1>3, <1>5, <1>6 DEF Counted

(* Every step of loggers among which none has failed on a path that was    *)
(* opened later keeps the counts.                                          *)
LEMMA CountedStep ==
    ASSUME TypeOK, Blank, Counted, [Next]_vars, ~recovered'
    PROVE  Counted'
<1>1. ASSUME NEW l \in Loggers, Create(l) PROVE Counted'
  BY <1>1, CalmStep DEF Create, tracker
<1>2. ASSUME NEW l \in Loggers, NEW p \in Paths, NEW reset \in BOOLEAN, Setup(l, p, reset)
      PROVE  Counted'
  <2>1. CASE Share(l, p)
    BY <1>2, <2>1, ShareStep
  <2>2. CASE Open(l, p)
    BY <1>2, <2>2, OpenStep
  <2>3. CASE FailToOpen(l, p, reset)
    BY <1>2, <2>3, FailStep
  <2>4. QED BY <1>2, <2>1, <2>2, <2>3 DEF Setup
<1>3. ASSUME NEW l \in Loggers, NEW new \in BOOLEAN, Enable(l, new) PROVE Counted'
  BY <1>3, CalmStep DEF Enable, tracker
<1>4. ASSUME NEW l \in Loggers, LogCallable(l) PROVE Counted'
  BY <1>4, LogStep
<1>5. ASSUME NEW l \in Loggers, Destroy(l) PROVE Counted'
  BY <1>5, DestroyStep
<1>6. ASSUME NEW p \in Paths, FlushSink(p) PROVE Counted'
  BY <1>6, CalmStep DEF FlushSink, loggers
<1>7. CASE FlushAllSinks
  BY <1>7, CalmStep DEF FlushAllSinks, loggers
<1>8. CASE UNCHANGED vars
  BY <1>8, CalmStep DEF vars, loggers, tracker
<1>9. QED BY <1>1, <1>2, <1>3, <1>4, <1>5, <1>6, <1>7, <1>8 DEF Next, Initialize, LogSetup

(* The exception, once made, is never taken back.                          *)
LEMMA RecoveredStays == TypeOK /\ [Next]_vars /\ ~recovered' => ~recovered
  BY DEF TypeOK, Next, Create, Initialize, LogSetup, Setup, Share, Open, FailToOpen, Enable,
         LogCallable, Destroy, FlushSink, FlushAllSinks, vars

(* Before the first logger, everything is empty.                           *)
LEMMA InitOK == Init => IInv
<1> SUFFICES ASSUME Init PROVE IInv
  OBVIOUS
<1>1. refCount \in [Paths -> 0..MaxRefs]
  BY LoggerAssumption DEF Init
<1>2. TypeOK
  BY <1>1 DEF Init, TypeOK
<1>3. Blank
  BY DEF Init, Blank
<1>4. Counted
  BY DEF Init, Counted, SinksOpen, SinksCounted, PathsJoined, CountsExact, LeaksCounted,
         LinesInOpen, WritersKnown, Opened
<1>5. QED BY <1>2, <1>3, <1>4 DEF IInv

LEMMA IInvStep == IInv /\ [Next]_vars => IInv'
  BY TypeStep, BlankStep, CountedStep, RecoveredStays DEF IInv

(* The counts are right in every state.                                    *)
LEMMA IInvAlways == Spec => []IInv
  BY InitOK, IInvStep, PTL DEF Spec

-----------------------------------------------------------------------------
(* The members of the loggers and of sink_tracker keep their types; in     *)
(* particular ref_count never goes below zero.                             *)
THEOREM LoggerTypeCorrect == Spec => []TypeOK
<1>1. IInv => TypeOK
  BY DEF IInv
<1>2. QED BY <1>1, IInvAlways, PTL

(* The stream a living logger writes to is open, for any number of loggers *)
(* and paths, except after a path was opened on which a living one had     *)
(* failed.                                                                 *)
THEOREM NoDanglingSinkAlways == Spec => []NoDanglingSink
<1>1. IInv => NoDanglingSink
  BY DEF IInv, Counted, SinksOpen, NoDanglingSink
<1>2. QED BY <1>1, IInvAlways, PTL

(* With the same exception, an open path of which no set-up gave a         *)
(* reference up counts exactly its living users, and no line waits in a    *)
(* stream that has none.                                                   *)
THEOREM RefCountExactAlways == Spec => []RefCountExact
<1>1. ASSUME IInv, ~recovered, NEW p \in Paths \ leaked
      PROVE  /\ Opened(p) => refCount[p] = Cardinality(Users(p))
             /\ p \in unflushed => Users(p) # {}
  <2>1. TypeOK /\ Counted
    BY <1>1 DEF IInv
  <2>2. Opened(p) => refCount[p] = Cardinality(Users(p))
    BY <2>1 DEF Counted, CountsExact
  <2>3. ASSUME p \in unflushed PROVE Users(p) # {}
    <3>1. Opened(p)
      BY <2>1, <2>3 DEF Counted, LinesInOpen
    <3>2. Cardinality(Users(p)) > 0
      BY <2>2, <3>1 DEF Opened
    <3>3. QED BY <3>2, FS_EmptySet
  <2>4. QED BY <2>2, <2>3
<1>2. IInv => RefCountExact
  BY <1>1 DEF RefCountExact
<1>3. QED BY <1>2, IInvAlways, PTL

(* What one step does to the lines of the living.                          *)
LinesKept == \A w \in written : w[1] \in alive' /\ ~recovered' => w \in written'

(* A file is truncated only when no living logger has a line in it, with   *)
(* the same exception.                                                     *)
THEOREM LinesOfLivingKeptAlways == Spec => LinesOfLivingKept
<1>1. ASSUME IInv, [Next]_vars PROVE LinesKept
  <2> SUFFICES ASSUME NEW w \in written, w[1] \in alive', ~recovered' PROVE w \in written'
    BY DEF LinesKept
  <2>1. TypeOK /\ Counted
    BY <1>1, RecoveredStays DEF IInv
  <2>2. w[1] \in Loggers /\ w[2] \in Paths /\ Opened(w[2])
    <3>1. /\ w[1] \in Loggers /\ w[2] \in Paths /\ w[1] \in alive
          /\ sink[w[1]] = w[2] \/ w[2] \in leaked
      BY <2>1 DEF TypeOK, Counted, WritersKnown
    <3>2. CASE w[2] \in leaked
      BY <2>1, <3>1, <3>2, UsersFinite DEF TypeOK, Counted, LeaksCounted, Opened
    <3>3. CASE sink[w[1]] = w[2]
      BY <2>1, <3>1, <3>3, LoggerAssumption DEF Counted, SinksOpen
    <3>4. QED BY <3>1, <3>2, <3>3
  <2>3. ASSUME NEW l \in Loggers, NEW p \in Paths, NEW reset \in BOOLEAN, Setup(l, p, reset)
        PROVE  w \in written'
    BY <2>2, <2>3 DEF Setup, Share, Open, FailToOpen
  <2>4. ASSUME NEW l \in Loggers, Destroy(l) PROVE w \in written'
    BY <2>4 DEF Destroy
  <2>5. QED
    BY <1>1, <2>3, <2>4
       DEF Next, Create, Initialize, LogSetup, Enable, LogCallable, FlushSink, FlushAllSinks, vars
<1>2. ASSUME IInv, [Next]_vars PROVE [LinesKept]_vars
  BY <1>1, <1>2
<1>3. Spec => [][LinesKept]_vars
  BY <1>2, IInvAlways, PTL DEF Spec
<1>4. QED BY <1>3 DEF LinesOfLivingKept, LinesKept
==============================================================================
