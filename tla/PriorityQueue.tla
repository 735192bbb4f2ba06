---------------------------- MODULE PriorityQueue ----------------------------
(***************************************************************************)
(* What a monotone priority queue promises: a multiset of numbers whose    *)
(* front is always a least one, and that gives up its front.               *)
(***************************************************************************)
EXTENDS Integers

CONSTANTS Items,    \* the numbers that can be held
          NoItem    \* the front of an empty queue

VARIABLES held,     \* copies held of each item
          front     \* what the queue shows first

Nothing == [v \in Items |-> 0]

Least(bag, v) ==
    IF bag = Nothing THEN v = NoItem
    ELSE v \in Items /\ bag[v] > 0 /\ \A w \in Items : bag[w] > 0 => v <= w

Init == held = Nothing /\ front = NoItem

Insert(v) ==
    /\ front = NoItem \/ front <= v
    /\ held' = [held EXCEPT ![v] = @ + 1]
    /\ Least(held', front')

TakeFront ==
    /\ front # NoItem
    /\ held' = [held EXCEPT ![front] = @ - 1]
    /\ Least(held', front')

Next == TakeFront \/ \E v \in Items : Insert(v)

Spec == Init /\ [][Next]_<<held, front>>
=============================================================================
