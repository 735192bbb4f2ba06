---------------------------- MODULE EventSchedule ----------------------------
(***************************************************************************)
(* What a discrete-event scheduler promises: a clock that never passes an  *)
(* event that is due, and events called at the tick they are due, in the   *)
(* order they were submitted.                                              *)
(***************************************************************************)
EXTENDS Integers, Sequences, FiniteSets

CONSTANT Ticks

VARIABLES now,     \* the clock
          due,     \* the tick of each event submitted, in submission order
          fired    \* the events called, in order

Init == now = 0 /\ due = <<>> /\ fired = <<>>

Waiting == {e \in 1..Len(due) : \A i \in 1..Len(fired) : fired[i] # e}

Submit(t) ==
    /\ now <= t
    /\ due' = Append(due, t)
    /\ UNCHANGED <<now, fired>>

Advance(t) ==
    /\ now <= t
    /\ \A e \in Waiting : t <= due[e]
    /\ now' = t
    /\ UNCHANGED <<due, fired>>

Fire(e) ==
    /\ e \in Waiting /\ due[e] = now
    /\ \A f \in Waiting : now < due[f] \/ e <= f
    /\ fired' = Append(fired, e)
    /\ UNCHANGED <<now, due>>

Next ==
    \/ \E t \in Ticks : Submit(t) \/ Advance(t)
    \/ \E e \in 1..Len(due) : Fire(e)

Spec == Init /\ [][Next]_<<now, due, fired>>

(* Events fire in the order of their ticks, those of one tick in the order *)
(* they were submitted, and none of them twice.                            *)
InOrder ==
    \A i, j \in 1..Len(fired) : i < j =>
        \/ due[fired[i]] < due[fired[j]]
        \/ due[fired[i]] = due[fired[j]] /\ fired[i] < fired[j]
=============================================================================
