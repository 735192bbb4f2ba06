------------------------------ MODULE RadixHeap ------------------------------
(***************************************************************************)
(* Simo::Internal::RadixHeap as a component: one client pushes and pops.   *)
(*                                                                         *)
(* The structure is a MONOTONE priority queue: it yields minima only while *)
(* no value below the current top is pushed.  Nothing in the code checks   *)
(* this, so the client is a parameter: MonotoneClient = TRUE is the client *)
(* the structure is meant for, FALSE is any client at all.                 *)
(***************************************************************************)
EXTENDS RadixHeapData

CONSTANTS MonotoneClient,   \* does the client respect the heap's contract?
          MaxSize           \* bound: values queued at one time

ASSUME MonotoneClientAssumption == MonotoneClient \in BOOLEAN

VARIABLE heap

HeapInit == heap = NewHeap

DoPush(v) ==
    /\ heap.size < MaxSize
    /\ MonotoneClient /\ ~Empty(heap) => Peek(heap) <= v
    /\ heap' = Push(heap, v)

DoPop ==
    /\ ~Empty(heap)
    /\ heap' = Pop(heap)

HeapNext == DoPop \/ \E v \in Values : DoPush(v)

HeapSpec == HeapInit /\ [][HeapNext]_heap

-----------------------------------------------------------------------------
(* The heap always has the shape of its C++ declaration.                   *)
HeapTypeOK == heap \in Heaps

(* RadixHeap::push and pop never leave a value in a bucket where a later   *)
(* pop would not look for it, keep bucket_mins exact through every         *)
(* redistribution, and never leave bucket 0 empty while values remain      *)
(* (peek() and push() read buckets[0][0] unchecked).  For ANY client.      *)
ShapeInv == Shape(heap)

(* size_val, a counter kept beside the buckets, counts exactly the values  *)
(* in them, through redistributions of several levels: empty(), by which   *)
(* run_at() stops, and the early return of pop() never lie.                *)
NoValueLost == SizeExact(heap)

(* peek() returns the least value in any bucket, for the client that       *)
(* respects the contract.                                                  *)
PeekIsMin == NoneBelowTop(heap)

(* The same heap seen as a priority queue: what is held, and what peek()   *)
(* shows.                                                                  *)
PQ == INSTANCE PriorityQueue WITH
        Items <- Values, NoItem <- -1,
        held  <- Contents(heap),
        front <- IF Empty(heap) THEN -1 ELSE Peek(heap)

(* Each push adds one copy of its value and each pop takes away one copy   *)
(* of a least value, whatever buckets they travelled through.              *)
ImplementsPriorityQueue == PQ!Spec
=============================================================================
