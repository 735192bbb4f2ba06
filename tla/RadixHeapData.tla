---------------------------- MODULE RadixHeapData ----------------------------
(***************************************************************************)
(* The data structure of Simo::Internal::RadixHeap                         *)
(* (include/Simo/core/internal/RadixHeap.h, src/core/RadixHeap.cc) as      *)
(* operators on a heap value, so that the heap alone (RadixHeap) and its   *)
(* owner (Context) share one definition.                                   *)
(*                                                                         *)
(* A bucket is the number of copies of each value it holds.  The order of  *)
(* a bucket's vector is abstracted: it is read in one place, element 0 of  *)
(* bucket 0, and bucket 0 only ever holds copies of one value (Shape).     *)
(*                                                                         *)
(* The bucket of a value is 64 - countl_zero(val ^ min): the length of the *)
(* shortest suffix outside which the two agree, that is the least i for    *)
(* which both lie in the same aligned block of 2^i values.                 *)
(***************************************************************************)
EXTENDS Integers, FiniteSets, FiniteSetsExt

CONSTANTS NUM_BITS,   \* width of a tick: 64 in the code
          Pow2        \* the table of 2^i, for i up to NUM_BITS

ASSUME NumBitsAssumption == NUM_BITS \in Nat \ {0}

ASSUME Pow2Assumption ==
    /\ Pow2 \in [0..NUM_BITS -> Nat]
    /\ Pow2[0] = 1
    /\ \A i \in 1..NUM_BITS : Pow2[i] = 2 * Pow2[i-1]

Values  == 0..(Pow2[NUM_BITS] - 1)
Buckets == 0..NUM_BITS
MaxValue == Pow2[NUM_BITS] - 1   \* std::numeric_limits<uint64_t>::max()

(***************************************************************************)
(* The heap value: buckets, bucket_mins, size_val.                         *)
(***************************************************************************)
EmptyBucket == [v \in Values |-> 0]

Heaps == [buckets : [Buckets -> [Values -> Nat]],
          mins    : [Buckets -> Values],
          size    : Nat]

NewHeap == [buckets |-> [i \in Buckets |-> EmptyBucket],
            mins    |-> [i \in Buckets |-> MaxValue],
            size    |-> 0]

SameBlock(a, b, i) == a \div Pow2[i] = b \div Pow2[i]

BucketIndex(min, val) == Min({i \in Buckets : SameBlock(min, val, i)})

In(v, bucket) == bucket[v] > 0

Empty(h) == h.size = 0

(* buckets[0][0]; meaningful only when bucket 0 holds something. *)
Peek(h) == CHOOSE v \in Values : In(v, h.buckets[0])

Push(h, val) ==
    IF h.size = 0
    THEN [h EXCEPT !.size = 1, !.buckets[0][val] = @ + 1]
    ELSE LET i == BucketIndex(Peek(h), val)
         IN  [h EXCEPT !.size = @ + 1,
                       !.buckets[i][val] = @ + 1,
                       !.mins[i] = Min({@, val})]

(* Seeded fault: the search for a non-empty bucket runs from the wide end. *)
BugLastNonEmpty(h) ==
    Max({i \in Buckets \ {0} : h.buckets[i] # EmptyBucket})

FirstNonEmpty(h) ==
    Min({i \in Buckets \ {0} : h.buckets[i] # EmptyBucket})

(* Seeded faults: the redistribution without b.clear(), without the reset  *)
(* of b's minimum, and with its values taken off size_val when they leave  *)
(* b and not counted again.                                                *)
BugRebalanceWithoutClear(h) ==
    LET b == FirstNonEmpty(h)
        Dealt(i) == {v \in Values : In(v, h.buckets[b]) /\ BucketIndex(h.mins[b], v) = i}
    IN  [h EXCEPT
           !.buckets = [i \in Buckets |-> [v \in Values |->
               h.buckets[i][v] + IF v \in Dealt(i) THEN h.buckets[b][v] ELSE 0]],
           !.mins = [i \in Buckets |->
               IF i = b THEN MaxValue ELSE Min({h.mins[i]} \cup Dealt(i))]]

BugRebalanceKeepsMin(h) ==
    LET b == FirstNonEmpty(h)
        Dealt(i) == {v \in Values : In(v, h.buckets[b]) /\ BucketIndex(h.mins[b], v) = i}
    IN  [h EXCEPT
           !.buckets = [i \in Buckets |->
               IF i = b THEN EmptyBucket
               ELSE [v \in Values |->
                       h.buckets[i][v] + IF v \in Dealt(i) THEN h.buckets[b][v] ELSE 0]],
           !.mins = [i \in Buckets |-> Min({h.mins[i]} \cup Dealt(i))]]

BugRebalanceUncounts(h) ==
    LET b == FirstNonEmpty(h)
        Dealt(i) == {v \in Values : In(v, h.buckets[b]) /\ BucketIndex(h.mins[b], v) = i}
    IN  [h EXCEPT
           !.buckets = [i \in Buckets |->
               IF i = b THEN EmptyBucket
               ELSE [v \in Values |->
                       h.buckets[i][v] + IF v \in Dealt(i) THEN h.buckets[b][v] ELSE 0]],
           !.mins = [i \in Buckets |->
               IF i = b THEN MaxValue ELSE Min({h.mins[i]} \cup Dealt(i))],
           !.size = @ - MapThenSumSet(LAMBDA v : h.buckets[b][v], Values)]

(* The loop of pop(): bucket b is dealt out again around its own minimum,  *)
(* and left empty with its minimum reset.                                  *)
Rebalance(h) ==
    LET b == FirstNonEmpty(h)
        Dealt(i) == {v \in Values : In(v, h.buckets[b]) /\ BucketIndex(h.mins[b], v) = i}
    IN  [h EXCEPT
           !.buckets = [i \in Buckets |->
               IF i = b THEN EmptyBucket
               ELSE [v \in Values |->
                       h.buckets[i][v] + IF v \in Dealt(i) THEN h.buckets[b][v] ELSE 0]],
           !.mins = [i \in Buckets |->
               IF i = b THEN MaxValue ELSE Min({h.mins[i]} \cup Dealt(i))]]

RemoveTop(h) == [h EXCEPT !.size = @ - 1, !.buckets[0][Peek(h)] = @ - 1]

Pop(h) ==
    LET rest == RemoveTop(h)
    IN  IF rest.buckets[0] # EmptyBucket \/ rest.size = 0 THEN rest ELSE Rebalance(rest)

(***************************************************************************)
(* What the heap promises about its own shape.                             *)
(***************************************************************************)

(* The multiset of values held, read through the bucket each value belongs *)
(* to; Shape says that no other bucket holds it.                           *)
HomeBucket(h, v) == IF h.size = 0 THEN 0 ELSE BucketIndex(Peek(h), v)
Contents(h) == [v \in Values |-> h.buckets[HomeBucket(h, v)][v]]

(* One element per queued value, copies told apart by number. *)
Slots(contents) == UNION {{v} \X (1..contents[v]) : v \in Values}

(* Every value lies in the bucket its distance from the top assigns it to. *)
WellPlaced(h) ==
    \A i \in Buckets, v \in Values : In(v, h.buckets[i]) => i = HomeBucket(h, v)

(* bucket_mins is exact for every bucket pop() may read it for. *)
MinsExact(h) ==
    \A i \in Buckets \ {0} :
        IF h.buckets[i] = EmptyBucket
        THEN h.mins[i] = MaxValue
        ELSE In(h.mins[i], h.buckets[i]) /\ \A v \in Values : In(v, h.buckets[i]) => h.mins[i] <= v

(* A heap that holds something can be peeked at: bucket 0 is not empty. *)
TopPresent(h) == h.size = 0 \/ h.buckets[0] # EmptyBucket

Shape(h) == WellPlaced(h) /\ MinsExact(h) /\ TopPresent(h)

(* size_val counts exactly the values in the buckets. *)
SizeExact(h) ==
    /\ IsFiniteSet(Slots(Contents(h)))
    /\ Cardinality(Slots(Contents(h))) = h.size

(* The inductive invariant of the structure, whoever its client is. *)
HeapOK(h) == h \in Heaps /\ Shape(h) /\ SizeExact(h)

(* Nothing in any bucket is below the top. *)
NoneBelowTop(h) ==
    h.size > 0 => \A i \in Buckets, v \in Values : In(v, h.buckets[i]) => Peek(h) <= v

(* The same of the values held, read through their home buckets. *)
TopIsLeast(h) ==
    h.size > 0 => \A v \in Values : Contents(h)[v] > 0 => Peek(h) <= v
=============================================================================
