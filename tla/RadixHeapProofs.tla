--------------------------- MODULE RadixHeapProofs ---------------------------
(***************************************************************************)
(* Facts about the operators of RadixHeapData, and the heap component is   *)
(* correct for every width of tick and every number of queued values.      *)
(* HeapOK is inductive whoever the client is; that the top is a minimum    *)
(* needs the client to be monotone.                                        *)
(***************************************************************************)
EXTENDS RadixHeap, FiniteSetTheorems, WellFoundedInduction, TLAPS

(* The least-number principle for a set, from the well-foundedness of      *)
(* strict inclusion on the initial segments of Nat.                        *)
LEMMA LeastElement ==
    ASSUME NEW T \in SUBSET Nat, T # {}
    PROVE  \E m \in T : \A n \in T : m <= n
<1> DEFINE F == {0..n : n \in T}
<1>1. IsWellFoundedOn(StrictSubsetOrdering(Nat), FiniteSubsetsOf(Nat))
  BY FS_StrictSubsetOrderingWellFounded
<1>2. F \subseteq FiniteSubsetsOf(Nat)
  <2>1. SUFFICES ASSUME NEW n \in T PROVE 0..n \in FiniteSubsetsOf(Nat)
    OBVIOUS
  <2>2. IsFiniteSet(0..n)
    BY FS_Interval
  <2>3. QED BY <2>2 DEF FiniteSubsetsOf
<1>3. F # {}
  OBVIOUS
<1>4. PICK x \in F : \A y \in F : ~ (<<y, x>> \in StrictSubsetOrdering(Nat))
  <2> HIDE DEF F
  <2> QED BY <1>1, <1>2, <1>3, WFMin
<1>5. PICK m \in T : x = 0..m
  OBVIOUS
<1>6. ASSUME NEW n \in T, n < m PROVE FALSE
  <2>1. 0..n \subseteq 0..m /\ 0..n # 0..m
    BY <1>6
  <2>2. <<0..n, 0..m>> \in StrictSubsetOrdering(Nat)
    BY <2>1 DEF StrictSubsetOrdering
  <2>3. QED BY <2>2, <1>4, <1>5
<1>7. QED BY <1>6

(* Min, as the code's std::min and find_if use it. *)
LEMMA MinProperty ==
    ASSUME NEW T \in SUBSET Nat, T # {}
    PROVE  Min(T) \in T /\ \A n \in T : Min(T) <= n
  BY LeastElement DEF Min

(* The quotient of an integer division is the one that leaves a remainder  *)
(* smaller than the divisor.                                               *)
LEMMA DivUnique ==
    ASSUME NEW a \in Nat, NEW p \in Nat \ {0}, NEW q \in Int,
           p * q <= a, a < p * (q + 1)
    PROVE  a \div p = q
  OBVIOUS

(* The block of a number, and where that block begins and ends.            *)
LEMMA DivBounds ==
    ASSUME NEW a \in Nat, NEW p \in Nat \ {0}
    PROVE  /\ a \div p \in Nat
           /\ p * (a \div p) <= a
           /\ a < p * ((a \div p) + 1)
  OBVIOUS

(* Halving a block number gives the number of the enclosing block. *)
LEMMA DivHalf ==
    ASSUME NEW a \in Nat, NEW p \in Nat \ {0}
    PROVE  a \div (2 * p) = (a \div p) \div 2
<1> DEFINE q == a \div p
           r == q \div 2
<1>1. q \in Nat /\ p * q <= a /\ a < p * (q + 1)
  BY DivBounds
<1>2. r \in Nat /\ 2 * r <= q /\ q < 2 * (r + 1)
  BY <1>1
<1> HIDE DEF q, r
<1>3. p * (2 * r) <= p * q
  BY <1>1, <1>2
<1>4. p * (q + 1) <= p * (2 * (r + 1))
  BY <1>1, <1>2
<1>5. (2 * p) * r <= a /\ a < (2 * p) * (r + 1)
  BY <1>1, <1>2, <1>3, <1>4
<1>6. a \div (2 * p) = r
  BY <1>2, <1>5, DivUnique
<1>7. QED BY <1>6 DEF q, r

(* Blocks follow each other in the order of their values.                  *)
LEMMA DivMonotone ==
    ASSUME NEW a \in Nat, NEW b \in Nat, a <= b, NEW p \in Nat \ {0}
    PROVE  a \div p <= b \div p
  OBVIOUS

-----------------------------------------------------------------------------
(* Blocks of 2^i values.                                                   *)

(* No power of two vanishes.                                               *)
LEMMA Pow2Positive == \A i \in Buckets : Pow2[i] \in Nat \ {0}
<1> DEFINE T == {i \in Buckets : Pow2[i] = 0}
<1>1. SUFFICES ASSUME T # {} PROVE FALSE
  BY Pow2Assumption DEF Buckets
<1>2. PICK m \in T : \A n \in T : m <= n
  <2>1. T \in SUBSET Nat
    BY NumBitsAssumption DEF Buckets
  <2> HIDE DEF T
  <2>2. QED BY <1>1, <2>1, LeastElement
<1>3. m \in 1..NUM_BITS
  BY Pow2Assumption, NumBitsAssumption DEF Buckets
<1>4. m - 1 \in T
  BY <1>3, Pow2Assumption, NumBitsAssumption DEF Buckets
<1>5. QED BY <1>2, <1>3, <1>4, NumBitsAssumption

(* Two values in one block stay in one block when blocks double. *)
LEMMA BlockGrows ==
    ASSUME NEW a \in Nat, NEW b \in Nat, NEW i \in 1..NUM_BITS, SameBlock(a, b, i-1)
    PROVE  SameBlock(a, b, i)
<1>1. Pow2[i-1] \in Nat \ {0} /\ Pow2[i] = 2 * Pow2[i-1]
  BY Pow2Positive, Pow2Assumption, NumBitsAssumption DEF Buckets
<1>2. a \div Pow2[i] = (a \div Pow2[i-1]) \div 2 /\ b \div Pow2[i] = (b \div Pow2[i-1]) \div 2
  BY <1>1, DivHalf
<1>3. QED BY <1>2 DEF SameBlock

(* Values that share a block share every larger one.                       *)
LEMMA BlockUpward ==
    ASSUME NEW a \in Nat, NEW b \in Nat, NEW i \in Buckets, NEW j \in Buckets,
           i <= j, SameBlock(a, b, i)
    PROVE  SameBlock(a, b, j)
<1> DEFINE T == {k \in Buckets : i <= k /\ ~SameBlock(a, b, k)}
<1>1. SUFFICES ASSUME T # {} PROVE FALSE
  OBVIOUS
<1>2. PICK m \in T : \A n \in T : m <= n
  <2>1. T \in SUBSET Nat
    BY NumBitsAssumption DEF Buckets
  <2> HIDE DEF T
  <2>2. QED BY <1>1, <2>1, LeastElement
<1>3. m \in 1..NUM_BITS /\ m - 1 \in Buckets /\ i <= m - 1
  BY NumBitsAssumption DEF Buckets
<1>4. ~SameBlock(a, b, m - 1)
  BY <1>3, BlockGrows
<1>5. QED BY <1>2, <1>3, <1>4, NumBitsAssumption DEF Buckets

(* Blocks of one value tell all values apart.                              *)
LEMMA BlockOfOne ==
    ASSUME NEW a \in Nat, NEW b \in Nat
    PROVE  SameBlock(a, b, 0) <=> a = b
  BY Pow2Assumption DEF SameBlock

(* One block holds all the values.                                         *)
LEMMA BlockOfAll ==
    ASSUME NEW a \in Values, NEW b \in Values
    PROVE  SameBlock(a, b, NUM_BITS)
<1>1. Pow2[NUM_BITS] \in Nat \ {0}
  BY Pow2Positive, NumBitsAssumption DEF Buckets
<1>2. a \div Pow2[NUM_BITS] = 0 /\ b \div Pow2[NUM_BITS] = 0
  BY <1>1, DivUnique DEF Values
<1>3. QED BY <1>2 DEF SameBlock

(* A block has two halves: what is outside one is inside the other. *)
LEMMA BlockSplit ==
    ASSUME NEW a \in Nat, NEW b \in Nat, NEW c \in Nat, NEW i \in 1..NUM_BITS,
           SameBlock(a, b, i), SameBlock(a, c, i),
           ~SameBlock(a, b, i-1), ~SameBlock(a, c, i-1)
    PROVE  SameBlock(b, c, i-1)
<1> DEFINE H(x) == x \div Pow2[i-1]
<1>1. Pow2[i-1] \in Nat \ {0} /\ Pow2[i] = 2 * Pow2[i-1]
  BY Pow2Positive, Pow2Assumption, NumBitsAssumption DEF Buckets
<1>2. /\ H(a) \in Nat /\ a \div Pow2[i] = H(a) \div 2
      /\ H(b) \in Nat /\ b \div Pow2[i] = H(b) \div 2
      /\ H(c) \in Nat /\ c \div Pow2[i] = H(c) \div 2
  BY <1>1, DivHalf, DivBounds
<1>3. /\ H(a) \div 2 = H(b) \div 2 /\ H(a) \div 2 = H(c) \div 2
      /\ H(a) # H(b) /\ H(a) # H(c)
  BY <1>2 DEF SameBlock
<1>4. H(b) = H(c)
  <2> HIDE DEF H
  <2>1. QED BY <1>2, <1>3
<1>5. QED BY <1>4 DEF SameBlock

(* Blocks are intervals: what is outside a's block and not below a is     *)
(* above the whole block.                                                  *)
LEMMA BlockOrder ==
    ASSUME NEW a \in Nat, NEW b \in Nat, NEW c \in Nat, NEW i \in Buckets,
           SameBlock(a, b, i), ~SameBlock(a, c, i), a <= c
    PROVE  b < c
<1>1. Pow2[i] \in Nat \ {0}
  BY Pow2Positive
<1>2. /\ a \div Pow2[i] \in Nat /\ b \div Pow2[i] \in Nat /\ c \div Pow2[i] \in Nat
      /\ a \div Pow2[i] <= c \div Pow2[i]
  BY <1>1, DivMonotone, DivBounds
<1>3. c <= b => c \div Pow2[i] <= b \div Pow2[i]
  BY <1>1, DivMonotone
<1>4. QED BY <1>2, <1>3 DEF SameBlock

-----------------------------------------------------------------------------
(* get_bucket_index.                                                       *)

(* Values are naturals.                                                    *)
LEMMA ValuesAreNat == Values \subseteq Nat
  BY Pow2Positive, NumBitsAssumption DEF Values, Buckets

(* get_bucket_index gives the least block size at which two values meet.   *)
LEMMA IndexProperty ==
    ASSUME NEW a \in Values, NEW b \in Values
    PROVE  /\ BucketIndex(a, b) \in Buckets
           /\ \A j \in Buckets : SameBlock(a, b, j) <=> BucketIndex(a, b) <= j
           /\ BucketIndex(a, b) = 0 <=> a = b
<1> DEFINE T == {i \in Buckets : SameBlock(a, b, i)}
<1>1. T \in SUBSET Nat /\ NUM_BITS \in T
  BY BlockOfAll, NumBitsAssumption DEF Buckets
<1>2. Min(T) \in T /\ \A n \in T : Min(T) <= n
  <2> HIDE DEF T
  <2>1. QED BY <1>1, MinProperty
<1>3. BucketIndex(a, b) = Min(T)
  BY DEF BucketIndex
<1>4. a \in Nat /\ b \in Nat
  BY ValuesAreNat
<1>5. \A j \in Buckets : Min(T) <= j => SameBlock(a, b, j)
  <2>1. SUFFICES ASSUME NEW j \in Buckets, Min(T) <= j PROVE SameBlock(a, b, j)
    OBVIOUS
  <2>2. Min(T) \in Buckets /\ SameBlock(a, b, Min(T))
    BY <1>2
  <2>3. QED BY <2>1, <2>2, <1>4, BlockUpward
<1>6. Min(T) = 0 <=> a = b
  <2>1. 0 \in Buckets /\ Min(T) \in Nat
    BY <1>2, NumBitsAssumption DEF Buckets
  <2>2. 0 \in T <=> a = b
    BY <2>1, <1>4, BlockOfOne
  <2>3. QED BY <2>1, <2>2, <1>2
<1>7. QED BY <1>2, <1>3, <1>5, <1>6

(* get_bucket_index does not care which of the two is the last popped.     *)
LEMMA IndexSymmetric ==
    ASSUME NEW a \in Values, NEW b \in Values
    PROVE  BucketIndex(a, b) = BucketIndex(b, a)
<1>1. \A i \in Buckets : SameBlock(a, b, i) <=> SameBlock(b, a, i)
  BY DEF SameBlock
<1>2. QED BY <1>1 DEF BucketIndex

(* A value further from the top than m is as far from m as from the top,   *)
LEMMA IndexRebase ==
    ASSUME NEW t \in Values, NEW m \in Values, NEW v \in Values,
           BucketIndex(t, m) < BucketIndex(t, v)
    PROVE  BucketIndex(m, v) = BucketIndex(t, v)
<1> DEFINE k == BucketIndex(t, v)
<1>1. /\ k \in Buckets /\ BucketIndex(t, m) \in Buckets /\ BucketIndex(m, v) \in Buckets
      /\ k - 1 \in Buckets
  BY IndexProperty, NumBitsAssumption DEF Buckets
<1>2. SameBlock(t, v, k) /\ ~SameBlock(t, v, k-1) /\ SameBlock(t, m, k) /\ SameBlock(t, m, k-1)
  BY <1>1, IndexProperty, NumBitsAssumption DEF Buckets
<1>3. SameBlock(m, v, k) /\ ~SameBlock(m, v, k-1)
  BY <1>2 DEF SameBlock
<1>4. BucketIndex(m, v) <= k /\ ~(BucketIndex(m, v) <= k - 1)
  BY <1>1, <1>3, IndexProperty
<1>5. QED BY <1>1, <1>4, NumBitsAssumption DEF Buckets

(* and, not being below the top, is above m.                               *)
LEMMA IndexOrder ==
    ASSUME NEW t \in Values, NEW m \in Values, NEW v \in Values,
           BucketIndex(t, m) < BucketIndex(t, v), t <= v
    PROVE  m < v
<1> DEFINE k == BucketIndex(t, m)
<1>1. k \in Buckets /\ BucketIndex(t, v) \in Buckets
  BY IndexProperty
<1>2. SameBlock(t, m, k) /\ ~SameBlock(t, v, k)
  BY <1>1, IndexProperty, NumBitsAssumption DEF Buckets
<1>3. QED BY <1>1, <1>2, BlockOrder, ValuesAreNat

(* Two values equally far from the top are closer to each other: dealing   *)
(* out a bucket around one of its own values only moves values down.       *)
LEMMA IndexDescends ==
    ASSUME NEW t \in Values, NEW m \in Values, NEW v \in Values,
           BucketIndex(t, m) = BucketIndex(t, v), t # m
    PROVE  BucketIndex(m, v) < BucketIndex(t, v)
<1> DEFINE k == BucketIndex(t, v)
<1>1. k \in 1..NUM_BITS /\ k \in Buckets /\ k - 1 \in Buckets /\ BucketIndex(m, v) \in Buckets
  BY IndexProperty, NumBitsAssumption DEF Buckets
<1>2. SameBlock(t, m, k) /\ ~SameBlock(t, m, k-1) /\ SameBlock(t, v, k) /\ ~SameBlock(t, v, k-1)
  BY <1>1, IndexProperty, NumBitsAssumption DEF Buckets
<1>3. SameBlock(m, v, k-1)
  BY <1>1, <1>2, BlockSplit, ValuesAreNat
<1>4. BucketIndex(m, v) <= k - 1
  BY <1>1, <1>3, IndexProperty
<1>5. QED BY <1>1, <1>4, NumBitsAssumption DEF Buckets

-----------------------------------------------------------------------------
(* Counting what is held.                                                  *)

(* The slots of a bag: one pair for every copy of a value.                 *)
LEMMA SlotsMembership ==
    ASSUME NEW c \in [Values -> Nat]
    PROVE  /\ \A v \in Values, k \in Nat : <<v, k>> \in Slots(c) <=> 1 <= k /\ k <= c[v]
           /\ \A s \in Slots(c) : \E v \in Values, k \in Nat : s = <<v, k>>
  BY DEF Slots

(* Two sets of slots with the same pairs are one set.                      *)
LEMMA SamePairs ==
    ASSUME NEW A, NEW B,
           \A s \in A : \E v \in Values, k \in Nat : s = <<v, k>>,
           \A s \in B : \E v \in Values, k \in Nat : s = <<v, k>>,
           \A v \in Values, k \in Nat : <<v, k>> \in A <=> <<v, k>> \in B
    PROVE  A = B
<1>1. ASSUME NEW s \in A PROVE s \in B
  <2>1. PICK v \in Values, k \in Nat : s = <<v, k>>
    OBVIOUS
  <2>2. QED BY <2>1
<1>2. ASSUME NEW s \in B PROVE s \in A
  <2>1. PICK v \in Values, k \in Nat : s = <<v, k>>
    OBVIOUS
  <2>2. QED BY <2>1
<1>3. QED BY <1>1, <1>2

(* One more copy of a value is one more slot.                              *)
LEMMA SlotsAdd ==
    ASSUME NEW c \in [Values -> Nat], NEW v \in Values, IsFiniteSet(Slots(c)),
           NEW d, d = [c EXCEPT ![v] = @ + 1]
    PROVE  /\ IsFiniteSet(Slots(d))
           /\ Cardinality(Slots(d)) = Cardinality(Slots(c)) + 1
<1> DEFINE new == <<v, c[v] + 1>>
<1>1. d \in [Values -> Nat] /\ c[v] + 1 \in Nat
  OBVIOUS
<1>2. Slots(d) = Slots(c) \cup {new}
  <2>1. ASSUME NEW w \in Values, NEW k \in Nat
        PROVE  <<w, k>> \in Slots(d) <=> <<w, k>> \in Slots(c) \/ <<w, k>> = new
    <3>1. <<w, k>> \in Slots(d) <=> 1 <= k /\ k <= d[w]
      BY <1>1, SlotsMembership
    <3>2. <<w, k>> \in Slots(c) <=> 1 <= k /\ k <= c[w]
      BY SlotsMembership
    <3>3. QED BY <3>1, <3>2
  <2>2. \A s \in Slots(d) : \E w \in Values, k \in Nat : s = <<w, k>>
    BY <1>1, SlotsMembership
  <2>3. \A s \in Slots(c) \cup {new} : \E w \in Values, k \in Nat : s = <<w, k>>
    BY <1>1, SlotsMembership
  <2>4. QED
    <3> DEFINE A == Slots(d)
               B == Slots(c) \cup {new}
    <3>1. \A w \in Values, k \in Nat : <<w, k>> \in A <=> <<w, k>> \in B
      BY <2>1
    <3>2. /\ \A s \in A : \E w \in Values, k \in Nat : s = <<w, k>>
          /\ \A s \in B : \E w \in Values, k \in Nat : s = <<w, k>>
      BY <2>2, <2>3
    <3> HIDE DEF A, B
    <3>3. A = B
      BY <3>1, <3>2, SamePairs
    <3>4. QED BY <3>3 DEF A, B
<1>3. new \notin Slots(c)
  BY SlotsMembership, <1>1
<1> HIDE DEF new
<1>4. IsFiniteSet(Slots(c) \cup {new}) /\ Cardinality(Slots(c) \cup {new}) = Cardinality(Slots(c)) + 1
  BY <1>3, FS_AddElement
<1>5. QED BY <1>2, <1>4

(* One copy less is one slot less.                                         *)
LEMMA SlotsRemove ==
    ASSUME NEW c \in [Values -> Nat], NEW v \in Values, c[v] > 0, IsFiniteSet(Slots(c)),
           NEW d, d = [c EXCEPT ![v] = @ - 1]
    PROVE  /\ d \in [Values -> Nat]
           /\ IsFiniteSet(Slots(d))
           /\ Cardinality(Slots(d)) = Cardinality(Slots(c)) - 1
<1> DEFINE old == <<v, c[v]>>
<1>1. d \in [Values -> Nat]
  OBVIOUS
<1>2. Slots(d) = Slots(c) \ {old}
  <2>1. ASSUME NEW w \in Values, NEW k \in Nat
        PROVE  <<w, k>> \in Slots(d) <=> <<w, k>> \in Slots(c) /\ <<w, k>> # old
    <3>1. <<w, k>> \in Slots(d) <=> 1 <= k /\ k <= d[w]
      BY <1>1, SlotsMembership
    <3>2. <<w, k>> \in Slots(c) <=> 1 <= k /\ k <= c[w]
      BY SlotsMembership
    <3>3. QED BY <3>1, <3>2
  <2>2. \A s \in Slots(d) : \E w \in Values, k \in Nat : s = <<w, k>>
    BY <1>1, SlotsMembership
  <2>3. \A s \in Slots(c) : \E w \in Values, k \in Nat : s = <<w, k>>
    BY SlotsMembership
  <2>4. QED
    <3> DEFINE A == Slots(d)
               B == Slots(c) \ {old}
    <3>1. \A w \in Values, k \in Nat : <<w, k>> \in A <=> <<w, k>> \in B
      BY <2>1
    <3>2. /\ \A s \in A : \E w \in Values, k \in Nat : s = <<w, k>>
          /\ \A s \in B : \E w \in Values, k \in Nat : s = <<w, k>>
      BY <2>2, <2>3
    <3> HIDE DEF A, B
    <3>3. A = B
      BY <3>1, <3>2, SamePairs
    <3>4. QED BY <3>3 DEF A, B
<1>3. old \in Slots(c)
  BY SlotsMembership
<1> HIDE DEF old
<1>4. QED BY <1>1, <1>2, <1>3, FS_RemoveElement

(* Nothing held is a size of zero. *)
LEMMA SlotsNone ==
    ASSUME NEW c \in [Values -> Nat], IsFiniteSet(Slots(c))
    PROVE  Cardinality(Slots(c)) = 0 <=> \A v \in Values : c[v] = 0
<1>1. Cardinality(Slots(c)) = 0 <=> Slots(c) = {}
  BY FS_EmptySet
<1>2. Slots(c) = {} => \A v \in Values : c[v] = 0
  <2>1. ASSUME NEW v \in Values, c[v] # 0 PROVE <<v, 1>> \in Slots(c)
    BY <2>1, SlotsMembership
  <2>2. QED BY <2>1
<1>3. (\A v \in Values : c[v] = 0) => Slots(c) = {}
  BY SlotsMembership
<1>4. QED BY <1>1, <1>2, <1>3

-----------------------------------------------------------------------------
(* The heap at rest.                                                       *)

(* The types of the fields of a heap, in the form the steps below use      *)
(* them.                                                                   *)
LEMMA BucketFacts ==
    ASSUME NEW h \in Heaps
    PROVE  /\ \A i \in Buckets : h.buckets[i] \in [Values -> Nat]
           /\ \A i \in Buckets : h.buckets[i] # EmptyBucket <=> \E v \in Values : In(v, h.buckets[i])
           /\ h.size \in Nat
           /\ 0 \in Buckets /\ MaxValue \in Values
<1>1. h.buckets \in [Buckets -> [Values -> Nat]] /\ h.size \in Nat
  BY DEF Heaps
<1>2. ASSUME NEW f \in [Values -> Nat] PROVE f # EmptyBucket <=> \E v \in Values : In(v, f)
  <2>1. EmptyBucket \in [Values -> Nat] /\ \A v \in Values : EmptyBucket[v] = 0
    BY DEF EmptyBucket
  <2>2. (\A v \in Values : f[v] = 0) => f = EmptyBucket
    BY DEF EmptyBucket
  <2>3. QED BY <2>1, <2>2 DEF In
<1>3. 0 \in Buckets /\ MaxValue \in Values
  BY Pow2Positive, NumBitsAssumption DEF Buckets, Values, MaxValue
<1>4. QED BY <1>1, <1>2, <1>3

(* While the heap holds something, its top is a value of bucket 0, and     *)
(* bucket 0 holds nothing else.                                            *)
LEMMA PeekProperty ==
    ASSUME NEW h \in Heaps, WellPlaced(h), TopPresent(h), h.size # 0
    PROVE  /\ Peek(h) \in Values
           /\ In(Peek(h), h.buckets[0])
           /\ \A v \in Values : In(v, h.buckets[0]) <=> v = Peek(h)
           /\ \A v \in Values : HomeBucket(h, v) = BucketIndex(Peek(h), v)
<1>1. \E v \in Values : In(v, h.buckets[0])
  BY BucketFacts DEF TopPresent
<1>2. Peek(h) \in Values /\ In(Peek(h), h.buckets[0])
  BY <1>1 DEF Peek
<1>3. \A v \in Values : HomeBucket(h, v) = BucketIndex(Peek(h), v)
  BY DEF HomeBucket
<1>4. \A v \in Values : In(v, h.buckets[0]) => v = Peek(h)
  <2>1. SUFFICES ASSUME NEW v \in Values, In(v, h.buckets[0]) PROVE v = Peek(h)
    OBVIOUS
  <2>2. BucketIndex(Peek(h), v) = 0
    BY <2>1, <1>3, BucketFacts DEF WellPlaced
  <2>3. QED BY <2>2, <1>2, IndexProperty
<1>5. QED BY <1>2, <1>3, <1>4

(* What a heap holds is a bag, and each value lies in one bucket of it.    *)
LEMMA ContentsType ==
    ASSUME NEW h \in Heaps, WellPlaced(h), TopPresent(h)
    PROVE  /\ Contents(h) \in [Values -> Nat]
           /\ \A v \in Values : HomeBucket(h, v) \in Buckets
           /\ \A v \in Values : Contents(h)[v] = h.buckets[HomeBucket(h, v)][v]
<1>1. \A v \in Values : HomeBucket(h, v) \in Buckets
  <2>1. CASE h.size = 0
    BY <2>1, BucketFacts DEF HomeBucket
  <2>2. CASE h.size # 0
    BY <2>2, PeekProperty, IndexProperty
  <2>3. QED BY <2>1, <2>2
<1>2. QED BY <1>1, BucketFacts DEF Contents

(* An empty heap has only empty buckets. *)
LEMMA EmptyHeap ==
    ASSUME NEW h, HeapOK(h), h.size = 0
    PROVE  \A i \in Buckets, v \in Values : ~In(v, h.buckets[i])
<1>1. h \in Heaps /\ WellPlaced(h) /\ TopPresent(h) /\ SizeExact(h)
  BY DEF HeapOK, Shape
<1>2. \A v \in Values : Contents(h)[v] = 0
  BY <1>1, ContentsType, SlotsNone DEF SizeExact
<1>3. ASSUME NEW i \in Buckets, NEW v \in Values, In(v, h.buckets[i]) PROVE FALSE
  <2>1. i = HomeBucket(h, v)
    BY <1>1, <1>3 DEF WellPlaced
  <2>2. h.buckets[i][v] = 0
    BY <2>1, <1>1, <1>2, ContentsType
  <2>3. QED BY <2>2, <1>3 DEF In
<1>4. QED BY <1>3

(* Every bucket below is described around the top the heap has, or, when   *)
(* it is empty, around any value.                                          *)
LEMMA AroundTop ==
    ASSUME NEW h, HeapOK(h), NEW top \in Values, h.size # 0 => top = Peek(h)
    PROVE  /\ \A j \in Buckets, w \in Values : In(w, h.buckets[j]) => j = BucketIndex(top, w)
           /\ \A w \in Values : Contents(h)[w] = h.buckets[BucketIndex(top, w)][w]
           /\ \A w \in Values : In(w, h.buckets[0]) <=> h.size # 0 /\ w = top
<1>1. h \in Heaps /\ WellPlaced(h) /\ TopPresent(h)
  BY DEF HeapOK, Shape
<1>2. CASE h.size # 0
  <2>1. \A w \in Values : HomeBucket(h, w) = BucketIndex(top, w)
    BY <1>1, <1>2, PeekProperty
  <2>2. QED BY <1>1, <1>2, <2>1, PeekProperty, ContentsType DEF WellPlaced
<1>3. CASE h.size = 0
  <2>1. \A j \in Buckets, w \in Values : ~In(w, h.buckets[j]) /\ h.buckets[j][w] = 0
    BY <1>1, <1>3, EmptyHeap, BucketFacts DEF In
  <2>2. \A w \in Values : Contents(h)[w] = 0
    BY <1>1, <2>1, ContentsType
  <2>3. QED BY <1>3, <2>1, <2>2, IndexProperty, BucketFacts, <1>1
<1>4. QED BY <1>2, <1>3

-----------------------------------------------------------------------------
(* RadixHeap::push.                                                        *)

(* push() adds one copy of the value, and changes the top of an empty heap *)
(* only.                                                                   *)
LEMMA PushProperty ==
    ASSUME NEW h, HeapOK(h), NEW v \in Values
    PROVE  /\ HeapOK(Push(h, v))
           /\ Contents(Push(h, v)) = [Contents(h) EXCEPT ![v] = @ + 1]
           /\ Peek(Push(h, v)) = IF h.size = 0 THEN v ELSE Peek(h)
           /\ Push(h, v).size = h.size + 1
<1> DEFINE g == Push(h, v)
           top == IF h.size = 0 THEN v ELSE Peek(h)
           i == BucketIndex(top, v)
<1>1. h \in Heaps /\ WellPlaced(h) /\ TopPresent(h) /\ MinsExact(h) /\ SizeExact(h)
  BY DEF HeapOK, Shape
<1>2. top \in Values /\ i \in Buckets /\ (h.size = 0 => i = 0) /\ (i = 0 => v = top)
  BY <1>1, PeekProperty, IndexProperty
<1>3. /\ h.buckets \in [Buckets -> [Values -> Nat]] /\ h.mins \in [Buckets -> Values] /\ h.size \in Nat
      /\ 0 \in Buckets
  BY <1>1, BucketFacts DEF Heaps
<1>4. \A a \in Values : Min({a, v}) \in {a, v} /\ Min({a, v}) <= a /\ Min({a, v}) <= v
  BY MinProperty, ValuesAreNat
<1>5. /\ g \in Heaps
      /\ g.size = h.size + 1
      /\ \A j \in Buckets, w \in Values :
           g.buckets[j][w] = h.buckets[j][w] + IF j = i /\ w = v THEN 1 ELSE 0
      /\ \A j \in Buckets \ {0} : g.mins[j] = IF j = i THEN Min({h.mins[j], v}) ELSE h.mins[j]
  <2>1. /\ h = [buckets |-> h.buckets, mins |-> h.mins, size |-> h.size]
        /\ \A a \in Values : Min({a, v}) \in Values
    BY <1>1, <1>4 DEF Heaps
  <2> DEFINE B == [h.buckets EXCEPT ![i][v] = @ + 1]
             M == IF h.size = 0 THEN h.mins ELSE [h.mins EXCEPT ![i] = Min({@, v})]
  <2>2. g = [buckets |-> B, mins |-> M, size |-> h.size + 1]
    <3>1. CASE h.size = 0
      <4>1. g = [h EXCEPT !.size = 1, !.buckets[0][v] = @ + 1]
        BY <3>1 DEF Push
      <4>2. B = [h.buckets EXCEPT ![0][v] = @ + 1] /\ M = h.mins /\ h.size + 1 = 1
        BY <1>2, <3>1
      <4> HIDE DEF g, B, M
      <4>3. QED BY <2>1, <4>1, <4>2
    <3>2. CASE h.size # 0
      <4>1. g = [h EXCEPT !.size = @ + 1, !.buckets[i][v] = @ + 1, !.mins[i] = Min({@, v})]
        BY <3>2 DEF Push
      <4> HIDE DEF g, i
      <4>2. QED BY <2>1, <3>2, <4>1
    <3>3. QED BY <3>1, <3>2
  <2> HIDE DEF g, i, top
  <2>3. /\ B \in [Buckets -> [Values -> Nat]]
        /\ \A j \in Buckets, w \in Values :
             B[j][w] = h.buckets[j][w] + IF j = i /\ w = v THEN 1 ELSE 0
    BY <1>2, <1>3
  <2>4. M \in [Buckets -> Values]
    BY <1>2, <1>3, <2>1
  <2>5. \A j \in Buckets \ {0} : M[j] = IF j = i THEN Min({h.mins[j], v}) ELSE h.mins[j]
    BY <1>2, <1>3
  <2> HIDE DEF B, M
  <2>6. g \in Heaps
    BY <1>3, <2>2, <2>3, <2>4 DEF Heaps
  <2>7. QED BY <2>2, <2>3, <2>5, <2>6
<1> HIDE DEF g, i, top
<1>6. /\ \A j \in Buckets, w \in Values : In(w, h.buckets[j]) => j = BucketIndex(top, w)
      /\ \A w \in Values : Contents(h)[w] = h.buckets[BucketIndex(top, w)][w]
      /\ \A w \in Values : In(w, h.buckets[0]) <=> h.size # 0 /\ w = top
  BY <1>2, AroundTop DEF top
<1>7. \A j \in Buckets, w \in Values : In(w, g.buckets[j]) <=> In(w, h.buckets[j]) \/ (j = i /\ w = v)
  BY <1>3, <1>5 DEF In
<1>8. \A w \in Values : In(w, g.buckets[0]) <=> w = top
  BY <1>2, <1>3, <1>6, <1>7 DEF top
<1>9. Peek(g) = top
  BY <1>2, <1>8 DEF Peek
<1>10. \A w \in Values : HomeBucket(g, w) = BucketIndex(top, w)
  BY <1>3, <1>5, <1>9 DEF HomeBucket
<1>11. WellPlaced(g)
  BY <1>6, <1>7, <1>10 DEF WellPlaced, i
<1>12. TopPresent(g)
  BY <1>2, <1>5, <1>8, BucketFacts DEF TopPresent
<1>13. MinsExact(g)
  <2>1. SUFFICES ASSUME NEW j \in Buckets \ {0}
                 PROVE  IF g.buckets[j] = EmptyBucket
                        THEN g.mins[j] = MaxValue
                        ELSE In(g.mins[j], g.buckets[j])
                             /\ \A w \in Values : In(w, g.buckets[j]) => g.mins[j] <= w
    BY DEF MinsExact
  <2>2. IF \A w \in Values : ~In(w, h.buckets[j])
        THEN h.mins[j] = MaxValue
        ELSE In(h.mins[j], h.buckets[j]) /\ \A w \in Values : In(w, h.buckets[j]) => h.mins[j] <= w
    BY <1>1, BucketFacts DEF MinsExact
  <2>3. h.mins[j] \in Values /\ (g.buckets[j] = EmptyBucket <=> \A w \in Values : ~In(w, g.buckets[j]))
    BY <1>3, <1>5, BucketFacts
  <2>4. CASE j # i
    BY <2>2, <2>3, <2>4, <1>5, <1>7
  <2>5. CASE j = i
    <3>1. In(v, g.buckets[j]) /\ g.mins[j] = Min({h.mins[j], v})
      BY <2>5, <1>5, <1>7
    <3>2. /\ g.mins[j] \in {h.mins[j], v} /\ g.mins[j] <= h.mins[j] /\ g.mins[j] <= v
          /\ h.mins[j] \in Nat /\ v \in Nat
      BY <3>1, <2>3, <1>4, ValuesAreNat
    <3>3. v <= MaxValue
      BY DEF Values, MaxValue
    <3>4. CASE \A w \in Values : ~In(w, h.buckets[j])
      <4>1. h.mins[j] = MaxValue
        BY <3>4, <2>2
      <4>2. MaxValue \in Nat
        BY <4>1, <3>2
      <4>3. g.mins[j] = v
        BY <4>1, <4>2, <3>2, <3>3
      <4>4. \A w \in Values : In(w, g.buckets[j]) => w = v
        BY <3>4, <1>7
      <4>5. QED BY <3>1, <3>2, <4>3, <4>4, <2>3
    <3>5. CASE ~ \A w \in Values : ~In(w, h.buckets[j])
      <4>1. In(h.mins[j], h.buckets[j]) /\ \A w \in Values : In(w, h.buckets[j]) => h.mins[j] <= w
        BY <3>5, <2>2
      <4>2. In(g.mins[j], g.buckets[j])
        BY <4>1, <3>1, <3>2, <2>3, <1>7
      <4>3. ASSUME NEW w \in Values, In(w, g.buckets[j]) PROVE g.mins[j] <= w
        <5>1. w = v \/ h.mins[j] <= w
          BY <4>1, <4>3, <1>7
        <5>2. w \in Nat
          BY ValuesAreNat
        <5>3. QED BY <5>1, <5>2, <3>2
      <4>4. QED BY <4>2, <4>3, <3>1, <2>3
    <3>6. QED BY <3>4, <3>5
  <2>6. QED BY <2>4, <2>5
<1>14. Contents(g) = [Contents(h) EXCEPT ![v] = @ + 1]
  <2>1. Contents(h) \in [Values -> Nat] /\ Contents(g) \in [Values -> Nat]
    BY <1>1, <1>5, <1>11, <1>12, ContentsType
  <2>2. ASSUME NEW w \in Values
        PROVE  Contents(g)[w] = IF w = v THEN Contents(h)[w] + 1 ELSE Contents(h)[w]
    <3>1. BucketIndex(top, w) \in Buckets
      BY <1>2, IndexProperty
    <3>2. Contents(g)[w] = g.buckets[BucketIndex(top, w)][w]
      BY <1>5, <1>10, <1>11, <1>12, ContentsType
    <3>3. w = v => BucketIndex(top, w) = i
      BY DEF i
    <3>4. h.buckets[BucketIndex(top, w)][w] \in Nat
      BY <3>1, <1>3
    <3>5. QED BY <3>1, <3>2, <3>3, <3>4, <1>5, <1>6
  <2>3. QED BY <2>1, <2>2
<1>15. SizeExact(g)
  <2>1. Contents(h) \in [Values -> Nat]
    BY <1>1, ContentsType
  <2>2. IsFiniteSet(Slots(Contents(h))) /\ Cardinality(Slots(Contents(h))) = h.size
    BY <1>1 DEF SizeExact
  <2>3. /\ IsFiniteSet(Slots(Contents(g)))
        /\ Cardinality(Slots(Contents(g))) = Cardinality(Slots(Contents(h))) + 1
    BY <2>1, <2>2, <1>14, SlotsAdd
  <2>4. QED BY <2>2, <2>3, <1>5 DEF SizeExact
<1>16. HeapOK(g)
  BY <1>5, <1>11, <1>12, <1>13, <1>15 DEF HeapOK, Shape
<1>17. QED BY <1>5, <1>9, <1>14, <1>16 DEF g, top

-----------------------------------------------------------------------------
(* RadixHeap::pop.  First the removal alone: the top is still the value    *)
(* the buckets are arranged around, whether or not a copy of it is left.   *)

LessTop(h) == [Contents(h) EXCEPT ![Peek(h)] = @ - 1]

(* pop() first takes one copy of the top out of bucket 0.                  *)
LEMMA RemoveTopProperty ==
    ASSUME NEW h, HeapOK(h), h.size # 0
    PROVE  /\ Peek(h) \in Values /\ Contents(h)[Peek(h)] > 0 /\ LessTop(h) \in [Values -> Nat]
           /\ RemoveTop(h) \in Heaps /\ RemoveTop(h).size = h.size - 1 /\ RemoveTop(h).size \in Nat
           /\ MinsExact(RemoveTop(h))
           /\ \A j \in Buckets, w \in Values :
                In(w, RemoveTop(h).buckets[j]) => j = BucketIndex(Peek(h), w)
           /\ \A w \in Values : LessTop(h)[w] = RemoveTop(h).buckets[BucketIndex(Peek(h), w)][w]
           /\ IsFiniteSet(Slots(LessTop(h))) /\ Cardinality(Slots(LessTop(h))) = RemoveTop(h).size
<1> DEFINE top == Peek(h)
           B == [h.buckets EXCEPT ![0][top] = @ - 1]
           c == LessTop(h)
           g == RemoveTop(h)
<1>1. h \in Heaps /\ WellPlaced(h) /\ TopPresent(h) /\ MinsExact(h) /\ SizeExact(h)
  BY DEF HeapOK, Shape
<1>2. top \in Values /\ In(top, h.buckets[0]) /\ BucketIndex(top, top) = 0
  BY <1>1, PeekProperty, IndexProperty
<1>3. /\ h.buckets \in [Buckets -> [Values -> Nat]] /\ h.mins \in [Buckets -> Values]
      /\ h.size \in Nat \ {0} /\ 0 \in Buckets
  BY <1>1, BucketFacts DEF Heaps
<1>4. g = [buckets |-> B, mins |-> h.mins, size |-> h.size - 1]
  <2>1. g = [h EXCEPT !.size = @ - 1, !.buckets[0][top] = @ - 1]
    BY DEF RemoveTop
  <2>2. h = [buckets |-> h.buckets, mins |-> h.mins, size |-> h.size]
    BY <1>1 DEF Heaps
  <2> HIDE DEF top, g
  <2>3. QED BY <2>1, <2>2
<1> HIDE DEF top, g, c
<1>5. /\ B \in [Buckets -> [Values -> Nat]]
      /\ \A j \in Buckets, w \in Values :
           B[j][w] = h.buckets[j][w] - IF j = 0 /\ w = top THEN 1 ELSE 0
  BY <1>2, <1>3 DEF In
<1> HIDE DEF B
<1>6. g \in Heaps /\ g.size = h.size - 1 /\ g.size \in Nat /\ g.buckets = B /\ g.mins = h.mins
  <2>1. h.size - 1 \in Nat
    BY <1>3
  <2>2. g.size = h.size - 1 /\ g.buckets = B /\ g.mins = h.mins
    BY <1>4
  <2>3. g \in Heaps
    BY <1>3, <1>4, <1>5, <2>1 DEF Heaps
  <2>4. QED BY <2>1, <2>2, <2>3
<1>7. MinsExact(g)
  <2>1. \A j \in Buckets \ {0} : g.buckets[j] = h.buckets[j]
    BY <1>3, <1>5, <1>6
  <2>2. QED BY <1>1, <1>6, <2>1 DEF MinsExact
<1>8. /\ \A j \in Buckets, w \in Values : In(w, h.buckets[j]) => j = BucketIndex(top, w)
      /\ \A w \in Values : Contents(h)[w] = h.buckets[BucketIndex(top, w)][w]
  BY <1>2, AroundTop DEF top
<1>9. \A j \in Buckets, w \in Values : In(w, g.buckets[j]) => j = BucketIndex(top, w)
  BY <1>3, <1>5, <1>6, <1>8 DEF In
<1>10. Contents(h) \in [Values -> Nat] /\ Contents(h)[top] > 0
  BY <1>1, <1>2, <1>8, ContentsType DEF In
<1>11. /\ c \in [Values -> Nat]
       /\ IsFiniteSet(Slots(c)) /\ Cardinality(Slots(c)) = g.size
  BY <1>1, <1>2, <1>6, <1>10, SlotsRemove DEF SizeExact, top, c, LessTop
<1>12. ASSUME NEW w \in Values PROVE c[w] = g.buckets[BucketIndex(top, w)][w]
  <2>1. BucketIndex(top, w) \in Buckets /\ (BucketIndex(top, w) = 0 <=> w = top)
    BY <1>2, IndexProperty
  <2>2. c[w] = Contents(h)[w] - IF w = top THEN 1 ELSE 0
    BY <1>10 DEF top, c, LessTop
  <2>3. QED BY <2>1, <2>2, <1>5, <1>6, <1>8
<1>13. QED BY <1>2, <1>6, <1>7, <1>9, <1>10, <1>11, <1>12 DEF top, c, g

(* No redistribution: copies of the top are left, or nothing at all.       *)
LEMMA PopSimple ==
    ASSUME NEW h, HeapOK(h), h.size # 0,
           RemoveTop(h).buckets[0] # EmptyBucket \/ RemoveTop(h).size = 0
    PROVE  /\ HeapOK(RemoveTop(h)) /\ Contents(RemoveTop(h)) = LessTop(h)
           /\ TopIsLeast(h) => TopIsLeast(RemoveTop(h))
<1> DEFINE top == Peek(h)
           c == LessTop(h)
           g == RemoveTop(h)
<1>1. /\ top \in Values /\ Contents(h)[top] > 0 /\ c \in [Values -> Nat]
      /\ g \in Heaps /\ g.size = h.size - 1 /\ g.size \in Nat /\ MinsExact(g)
      /\ \A j \in Buckets, w \in Values : In(w, g.buckets[j]) => j = BucketIndex(top, w)
      /\ \A w \in Values : c[w] = g.buckets[BucketIndex(top, w)][w]
      /\ IsFiniteSet(Slots(c)) /\ Cardinality(Slots(c)) = g.size
  BY RemoveTopProperty
<1>2. TopPresent(g) /\ (g.buckets[0] # EmptyBucket \/ g.size = 0)
  BY DEF TopPresent
<1>3. h \in Heaps /\ Contents(h) \in [Values -> Nat]
  BY ContentsType DEF HeapOK, Shape
<1>4. \A w \in Values : c[w] > 0 => Contents(h)[w] > 0
  BY <1>1, <1>3 DEF LessTop
<1> HIDE DEF top, c, g
<1>5. CASE g.size # 0
  <2>1. \E w \in Values : In(w, g.buckets[0])
    BY <1>1, <1>2, <1>5, BucketFacts
  <2>2. \A w \in Values : In(w, g.buckets[0]) => w = top
    BY <1>1, IndexProperty, BucketFacts
  <2>3. Peek(g) = top
    BY <2>1, <2>2 DEF Peek
  <2>4. \A w \in Values : HomeBucket(g, w) = BucketIndex(top, w)
    BY <1>5, <2>3 DEF HomeBucket
  <2>5. WellPlaced(g)
    BY <1>1, <2>4 DEF WellPlaced
  <2>6. Contents(g) = c
    BY <1>1, <1>2, <2>4, <2>5, ContentsType
  <2>7. HeapOK(g)
    BY <1>1, <1>2, <2>5, <2>6 DEF HeapOK, Shape, SizeExact
  <2>8. ASSUME TopIsLeast(h) PROVE TopIsLeast(g)
    <3>1. h.size > 0
      BY BucketFacts, <1>3
    <3>2. QED BY <1>4, <2>3, <2>6, <2>8, <3>1 DEF TopIsLeast, top
  <2>9. QED BY <2>6, <2>7, <2>8 DEF c, g
<1>6. CASE g.size = 0
  <2>1. \A w \in Values : c[w] = 0
    BY <1>1, <1>6, SlotsNone
  <2>2. ASSUME NEW j \in Buckets, NEW w \in Values PROVE ~In(w, g.buckets[j])
    <3>1. In(w, g.buckets[j]) => g.buckets[j][w] = c[w]
      BY <1>1
    <3>2. QED BY <2>1, <3>1 DEF In
  <2>3. WellPlaced(g)
    BY <2>2 DEF WellPlaced
  <2>4. \A w \in Values : Contents(g)[w] = 0
    BY <1>1, <1>2, <2>2, <2>3, ContentsType, BucketFacts DEF In
  <2>5. Contents(g) = c
    BY <1>1, <1>2, <2>1, <2>3, <2>4, ContentsType
  <2>6. HeapOK(g)
    BY <1>1, <1>2, <2>3, <2>5 DEF HeapOK, Shape, SizeExact
  <2>7. TopIsLeast(g)
    BY <1>6 DEF TopIsLeast
  <2>8. QED BY <2>5, <2>6, <2>7 DEF c, g
<1>7. QED BY <1>5, <1>6 DEF c, g

(* The bucket pop() deals out: the lowest that holds something, with its   *)
(* exact minimum; everything below it is empty.                            *)
LEMMA FirstNonEmptyProperty ==
    ASSUME NEW h, HeapOK(h), h.size # 0,
           RemoveTop(h).buckets[0] = EmptyBucket, RemoveTop(h).size # 0
    PROVE  LET r == RemoveTop(h)
               b == FirstNonEmpty(r)
           IN  /\ b \in Buckets \ {0}
               /\ In(r.mins[b], r.buckets[b]) /\ r.mins[b] \in Values
               /\ \A v \in Values : In(v, r.buckets[b]) => r.mins[b] <= v
               /\ \A j \in Buckets, v \in Values : In(v, r.buckets[j]) => b <= j
<1> DEFINE top == Peek(h)
           c == LessTop(h)
           r == RemoveTop(h)
           b == FirstNonEmpty(r)
           N == {j \in Buckets \ {0} : r.buckets[j] # EmptyBucket}
<1>1. /\ top \in Values /\ c \in [Values -> Nat]
      /\ r \in Heaps /\ MinsExact(r)
      /\ \A j \in Buckets, w \in Values : In(w, r.buckets[j]) => j = BucketIndex(top, w)
      /\ \A w \in Values : c[w] = r.buckets[BucketIndex(top, w)][w]
      /\ IsFiniteSet(Slots(c)) /\ Cardinality(Slots(c)) = r.size
  BY RemoveTopProperty
<1>2. r.buckets[0] = EmptyBucket /\ r.size # 0
  OBVIOUS
<1>3. b = Min(N)
  BY DEF FirstNonEmpty
<1> HIDE DEF top, c, r, b
<1>4. PICK v \in Values : c[v] # 0
  BY <1>1, <1>2, SlotsNone
<1>5. BucketIndex(top, v) \in N
  <2>1. BucketIndex(top, v) \in Buckets
    BY <1>1, IndexProperty
  <2>2. In(v, r.buckets[BucketIndex(top, v)])
    BY <1>1, <1>4, <2>1 DEF In
  <2>3. QED BY <1>1, <1>2, <2>1, <2>2, BucketFacts
<1>6. b \in N /\ \A j \in N : b <= j
  <2>1. N \in SUBSET Nat /\ N # {}
    BY <1>5, NumBitsAssumption DEF Buckets
  <2> HIDE DEF N
  <2>2. QED BY <1>3, <2>1, MinProperty
<1>7. \A j \in Buckets, w \in Values : In(w, r.buckets[j]) => b <= j
  <2>1. SUFFICES ASSUME NEW j \in Buckets, NEW w \in Values, In(w, r.buckets[j]) PROVE j \in N
    BY <1>6
  <2>2. QED BY <1>1, <1>2, <2>1, BucketFacts
<1>8. r.mins[b] \in Values
  BY <1>1, <1>6 DEF Heaps
<1>9. In(r.mins[b], r.buckets[b]) /\ \A w \in Values : In(w, r.buckets[b]) => r.mins[b] <= w
  BY <1>1, <1>6 DEF MinsExact
<1>10. QED BY <1>6, <1>7, <1>8, <1>9 DEF r, b

(* What the redistribution leaves in each bucket. *)
LEMMA RebalanceFields ==
    ASSUME NEW r \in Heaps, NEW b \in Buckets \ {0}, b = FirstNonEmpty(r), r.mins[b] \in Values,
           \A j \in Buckets, v \in Values : In(v, r.buckets[j]) => b <= j
    PROVE  LET g == Rebalance(r)
               D(j) == {v \in Values : In(v, r.buckets[b]) /\ BucketIndex(r.mins[b], v) = j}
           IN  /\ g \in Heaps /\ g.size = r.size
               /\ \A j \in Buckets, v \in Values :
                    g.buckets[j][v] = IF j = b THEN 0
                                      ELSE r.buckets[j][v] + IF v \in D(j) THEN r.buckets[b][v] ELSE 0
               /\ \A j \in Buckets :
                    g.mins[j] = IF j = b THEN MaxValue ELSE Min({r.mins[j]} \cup D(j))
<1> DEFINE g == Rebalance(r)
           D(j) == {v \in Values : In(v, r.buckets[b]) /\ BucketIndex(r.mins[b], v) = j}
           B == [j \in Buckets |->
                   IF j = b THEN EmptyBucket
                   ELSE [v \in Values |->
                           r.buckets[j][v] + IF v \in D(j) THEN r.buckets[b][v] ELSE 0]]
           M == [j \in Buckets |-> IF j = b THEN MaxValue ELSE Min({r.mins[j]} \cup D(j))]
<1>1. /\ r.buckets \in [Buckets -> [Values -> Nat]] /\ r.mins \in [Buckets -> Values]
      /\ r.size \in Nat /\ MaxValue \in Values
      /\ \A v \in Values : EmptyBucket[v] = 0
      /\ EmptyBucket \in [Values -> Nat]
  BY BucketFacts DEF Heaps, EmptyBucket
<1>2. g = [r EXCEPT !.buckets = B, !.mins = M]
  BY DEF Rebalance
<1>3. B \in [Buckets -> [Values -> Nat]]
  <2>1. SUFFICES ASSUME NEW j \in Buckets PROVE B[j] \in [Values -> Nat]
    BY DEF B
  <2>2. CASE j = b
    BY <2>2, <1>1
  <2>3. CASE j # b
    <3>1. \A v \in Values : r.buckets[j][v] \in Nat /\ r.buckets[b][v] \in Nat
      BY <1>1
    <3> HIDE DEF D
    <3>2. QED BY <2>3, <3>1
  <2>4. QED BY <2>2, <2>3
<1>4. M \in [Buckets -> Values]
  <2>1. SUFFICES ASSUME NEW j \in Buckets PROVE Min({r.mins[j]} \cup D(j)) \in Values
    BY <1>1
  <2>2. {r.mins[j]} \cup D(j) \subseteq Values
    BY <1>1
  <2> HIDE DEF D
  <2>3. QED BY <2>2, MinProperty, ValuesAreNat
<1>5. /\ \A j \in Buckets, v \in Values :
           B[j][v] = IF j = b THEN 0
                     ELSE r.buckets[j][v] + IF v \in D(j) THEN r.buckets[b][v] ELSE 0
      /\ \A j \in Buckets : M[j] = IF j = b THEN MaxValue ELSE Min({r.mins[j]} \cup D(j))
  <2> HIDE DEF D
  <2>1. QED BY <1>1
<1> HIDE DEF B, M
<1>6. g = [buckets |-> B, mins |-> M, size |-> r.size]
  <2>1. r = [buckets |-> r.buckets, mins |-> r.mins, size |-> r.size]
    BY DEF Heaps
  <2> HIDE DEF g
  <2>2. QED BY <1>2, <2>1
<1> HIDE DEF g
<1>7. g \in Heaps /\ g.size = r.size /\ g.buckets = B /\ g.mins = M
  BY <1>1, <1>3, <1>4, <1>6 DEF Heaps
<1>8. QED BY <1>5, <1>7 DEF g

(* Then, when bucket 0 has run empty, it spreads the first bucket that has *)
(* not.                                                                    *)
LEMMA RebalanceProperty ==
    ASSUME NEW h, HeapOK(h), h.size # 0,
           RemoveTop(h).buckets[0] = EmptyBucket, RemoveTop(h).size # 0
    PROVE  /\ HeapOK(Rebalance(RemoveTop(h)))
           /\ Contents(Rebalance(RemoveTop(h))) = LessTop(h)
           /\ Rebalance(RemoveTop(h)).size = RemoveTop(h).size
           /\ TopIsLeast(h) => TopIsLeast(Rebalance(RemoveTop(h)))
<1> DEFINE top == Peek(h)
           c == LessTop(h)
           r == RemoveTop(h)
           b == FirstNonEmpty(r)
           m == r.mins[b]
           g == Rebalance(r)
           D(j) == {v \in Values : In(v, r.buckets[b]) /\ BucketIndex(m, v) = j}
<1>1. /\ top \in Values /\ c \in [Values -> Nat]
      /\ r \in Heaps /\ r.size \in Nat /\ MinsExact(r)
      /\ \A j \in Buckets, w \in Values : In(w, r.buckets[j]) => j = BucketIndex(top, w)
      /\ \A w \in Values : c[w] = r.buckets[BucketIndex(top, w)][w]
      /\ IsFiniteSet(Slots(c)) /\ Cardinality(Slots(c)) = r.size
  BY RemoveTopProperty
<1>2. r.buckets[0] = EmptyBucket /\ r.size # 0
  OBVIOUS
<1>3. /\ b \in Buckets \ {0}
      /\ In(m, r.buckets[b]) /\ m \in Values
      /\ \A v \in Values : In(v, r.buckets[b]) => m <= v
      /\ \A j \in Buckets, v \in Values : In(v, r.buckets[j]) => b <= j
  BY FirstNonEmptyProperty
<1>4. /\ g \in Heaps /\ g.size = r.size
      /\ \A j \in Buckets, v \in Values :
           g.buckets[j][v] = IF j = b THEN 0
                             ELSE r.buckets[j][v] + IF v \in D(j) THEN r.buckets[b][v] ELSE 0
      /\ \A j \in Buckets : g.mins[j] = IF j = b THEN MaxValue ELSE Min({r.mins[j]} \cup D(j))
  BY <1>1, <1>3, RebalanceFields
<1>5. /\ h \in Heaps /\ Contents(h) \in [Values -> Nat] /\ h.size \in Nat
      /\ \A w \in Values : c[w] > 0 => Contents(h)[w] > 0
  <2>1. h \in Heaps /\ Contents(h) \in [Values -> Nat] /\ h.size \in Nat
    BY ContentsType, BucketFacts DEF HeapOK, Shape
  <2>2. QED BY <1>1, <2>1 DEF LessTop
<1> HIDE DEF top, c, r, b, m, g
(* Dealt values move down, and only they move. *)
<1>6. /\ BucketIndex(top, m) = b /\ top # m
      /\ \A v \in Values : In(v, r.buckets[b]) => BucketIndex(m, v) \in Buckets /\ BucketIndex(m, v) < b
  <2>1. BucketIndex(top, m) = b /\ top # m
    BY <1>1, <1>3, IndexProperty
  <2>2. QED BY <1>1, <1>3, <2>1, IndexDescends, IndexProperty
<1>7. \A j \in Buckets, v \in Values :
         In(v, g.buckets[j]) <=> \/ j < b /\ v \in D(j)
                                 \/ b < j /\ In(v, r.buckets[j])
  <2>1. SUFFICES ASSUME NEW j \in Buckets, NEW v \in Values
                 PROVE  In(v, g.buckets[j]) <=> \/ j < b /\ v \in D(j)
                                                \/ b < j /\ In(v, r.buckets[j])
    OBVIOUS
  <2>2. /\ r.buckets[j][v] \in Nat /\ r.buckets[b][v] \in Nat /\ j \in Int /\ b \in Int
        /\ v \in D(j) => In(v, r.buckets[b]) /\ j < b
        /\ In(v, r.buckets[j]) => b <= j
    BY <1>1, <1>3, <1>6, BucketFacts, NumBitsAssumption DEF Buckets
  <2> HIDE DEF D
  <2>3. QED BY <2>2, <1>4 DEF In
<1>8. \A j \in Buckets, v \in Values : In(v, g.buckets[j]) => j = BucketIndex(m, v)
  <2>1. SUFFICES ASSUME NEW j \in Buckets, NEW v \in Values, b < j, In(v, r.buckets[j])
                 PROVE  j = BucketIndex(m, v)
    BY <1>7
  <2>2. BucketIndex(top, m) < BucketIndex(top, v) /\ j = BucketIndex(top, v)
    BY <2>1, <1>1, <1>6
  <2>3. QED BY <2>2, <1>1, <1>3, IndexRebase
<1>9. In(m, g.buckets[0]) /\ \A v \in Values : In(v, g.buckets[0]) => v = m
  <2>1. BucketIndex(m, m) = 0 /\ 0 \in Buckets /\ 0 < b
    BY <1>1, <1>3, IndexProperty, BucketFacts, NumBitsAssumption DEF Buckets
  <2>2. QED BY <2>1, <1>3, <1>7, <1>8, IndexProperty
<1>10. Peek(g) = m
  BY <1>3, <1>9 DEF Peek
<1>11. \A v \in Values : HomeBucket(g, v) = BucketIndex(m, v)
  BY <1>2, <1>4, <1>10 DEF HomeBucket
<1>12. WellPlaced(g) /\ TopPresent(g)
  BY <1>3, <1>4, <1>8, <1>9, <1>11, BucketFacts DEF WellPlaced, TopPresent
<1>13. Contents(g) = c
  <2>1. Contents(g) \in [Values -> Nat]
    BY <1>4, <1>12, ContentsType
  <2>2. ASSUME NEW v \in Values PROVE Contents(g)[v] = c[v]
    <3>1. BucketIndex(m, v) \in Buckets /\ BucketIndex(top, v) \in Buckets
      BY <1>1, <1>3, IndexProperty
    <3>2. Contents(g)[v] = g.buckets[BucketIndex(m, v)][v]
      BY <1>4, <1>11, <1>12, ContentsType
    <3>3. c[v] = r.buckets[BucketIndex(top, v)][v]
      BY <1>1
    <3>4. CASE In(v, r.buckets[b])
      <4>1. BucketIndex(top, v) = b /\ BucketIndex(m, v) # b /\ v \in D(BucketIndex(m, v))
        <5>1. BucketIndex(top, v) = b /\ BucketIndex(m, v) \in Buckets /\ BucketIndex(m, v) < b
          BY <3>4, <1>1, <1>3, <1>6
        <5>2. BucketIndex(m, v) # b
          BY <5>1, <1>3, NumBitsAssumption DEF Buckets
        <5>3. QED BY <5>1, <5>2, <3>4
      <4>2. ~In(v, r.buckets[BucketIndex(m, v)])
        BY <3>1, <4>1, <1>1
      <4>3. r.buckets[BucketIndex(m, v)][v] = 0 /\ r.buckets[b][v] \in Nat
        BY <4>2, <3>1, <1>1, <1>3, BucketFacts DEF In
      <4>4. QED BY <3>1, <3>2, <3>3, <4>1, <4>3, <1>4
    <3>5. CASE ~In(v, r.buckets[b])
      <4>1. \A j \in Buckets : r.buckets[j][v] \in Nat
        BY <1>1, BucketFacts
      <4>2. r.buckets[b][v] = 0
        BY <3>5, <4>1, <1>3 DEF In
      <4>3. \A j \in Buckets : g.buckets[j][v] = r.buckets[j][v]
        BY <4>1, <4>2, <1>4
      <4>4. CASE \E j \in Buckets : In(v, r.buckets[j])
        <5>1. PICK j \in Buckets : In(v, r.buckets[j])
          BY <4>4
        <5>2. In(v, g.buckets[j])
          BY <5>1, <4>3 DEF In
        <5>3. j = BucketIndex(top, v) /\ j = BucketIndex(m, v)
          BY <5>1, <5>2, <1>1, <1>8
        <5>4. QED BY <5>3, <4>3, <3>2, <3>3
      <4>5. CASE ~ \E j \in Buckets : In(v, r.buckets[j])
        <5>1. \A j \in Buckets : r.buckets[j][v] = 0
          BY <4>1, <4>5 DEF In
        <5>2. QED BY <5>1, <4>3, <3>1, <3>2, <3>3
      <4>6. QED BY <4>4, <4>5
    <3>6. QED BY <3>4, <3>5
  <2>3. QED BY <2>1, <2>2, <1>1
<1>14. MinsExact(g)
  <2>1. SUFFICES ASSUME NEW j \in Buckets \ {0}
                 PROVE  IF g.buckets[j] = EmptyBucket
                        THEN g.mins[j] = MaxValue
                        ELSE In(g.mins[j], g.buckets[j])
                             /\ \A w \in Values : In(w, g.buckets[j]) => g.mins[j] <= w
    BY DEF MinsExact
  <2>2. /\ g.buckets[j] = EmptyBucket <=> \A w \in Values : ~In(w, g.buckets[j])
        /\ r.buckets[j] = EmptyBucket <=> \A w \in Values : ~In(w, r.buckets[j])
        /\ j \in Int /\ b \in Int /\ r.mins[j] \in Values
    <3>1. j \in Int /\ b \in Int /\ r.mins[j] \in Values
      BY <1>1, <1>3, NumBitsAssumption DEF Buckets, Heaps
    <3>2. g.buckets[j] = EmptyBucket <=> \A w \in Values : ~In(w, g.buckets[j])
      BY <1>4, BucketFacts
    <3>3. r.buckets[j] = EmptyBucket <=> \A w \in Values : ~In(w, r.buckets[j])
      BY <1>1, BucketFacts
    <3>4. QED BY <3>1, <3>2, <3>3
  <2>3. IF r.buckets[j] = EmptyBucket
        THEN r.mins[j] = MaxValue
        ELSE In(r.mins[j], r.buckets[j]) /\ \A w \in Values : In(w, r.buckets[j]) => r.mins[j] <= w
    BY <1>1 DEF MinsExact
  <2>4. CASE j = b
    <3>1. \A w \in Values : ~In(w, g.buckets[j])
      BY <2>2, <2>4, <1>7
    <3>2. QED BY <3>1, <2>2, <2>4, <1>4
  <2>5. CASE b < j
    <3>1. D(j) = {}
      BY <2>2, <2>5, <1>6
    <3>2. {r.mins[j]} \cup D(j) = {r.mins[j]}
      BY <3>1
    <3>3. g.mins[j] = r.mins[j]
      <4>1. g.mins[j] = Min({r.mins[j]})
        BY <3>2, <2>2, <2>5, <1>4
      <4>2. Min({r.mins[j]}) \in {r.mins[j]}
        BY <2>2, MinProperty, ValuesAreNat
      <4>3. QED BY <4>1, <4>2
    <3> HIDE DEF D
    <3>4. \A w \in Values : In(w, g.buckets[j]) <=> In(w, r.buckets[j])
      BY <2>2, <2>5, <1>7
    <3>5. QED BY <3>3, <3>4, <2>2, <2>3
  <2>6. CASE j < b
    <3>1. \A w \in Values : In(w, g.buckets[j]) <=> w \in D(j)
      BY <2>2, <2>6, <1>7
    <3>2. r.mins[j] = MaxValue
      BY <2>2, <2>3, <2>6, <1>3
    <3>3. g.mins[j] = Min({MaxValue} \cup D(j))
      BY <3>2, <2>2, <2>6, <1>4
    <3>4. /\ Min({MaxValue} \cup D(j)) \in {MaxValue} \cup D(j)
          /\ \A w \in D(j) : Min({MaxValue} \cup D(j)) <= w
          /\ Min({MaxValue} \cup D(j)) <= MaxValue
      <4>1. {MaxValue} \cup D(j) \in SUBSET Nat
        BY <1>1, BucketFacts, ValuesAreNat
      <4> HIDE DEF D
      <4>2. QED BY <4>1, MinProperty
    <3>5. D(j) \subseteq Values /\ \A w \in Values : w <= MaxValue
      BY DEF Values, MaxValue
    <3>6. MaxValue \in Values
      BY <1>1, BucketFacts
    <3> HIDE DEF D
    <3>7. CASE D(j) = {}
      BY <3>1, <3>3, <3>4, <3>7, <2>2
    <3>8. CASE D(j) # {}
      <4>1. PICK w \in D(j) : TRUE
        BY <3>8
      <4>2. Min({MaxValue} \cup D(j)) <= w /\ w <= MaxValue /\ w \in Values
        BY <4>1, <3>4, <3>5
      <4>3. Min({MaxValue} \cup D(j)) = MaxValue => w = MaxValue
        BY <4>2, <3>6, ValuesAreNat
      <4>4. Min({MaxValue} \cup D(j)) \in D(j)
        BY <4>1, <4>3, <3>4
      <4>5. In(g.mins[j], g.buckets[j])
        BY <4>4, <3>1, <3>3, <3>5
      <4>6. \A x \in Values : In(x, g.buckets[j]) => g.mins[j] <= x
        BY <3>1, <3>3, <3>4
      <4>7. QED BY <4>4, <4>5, <4>6, <3>1, <3>5, <2>2
    <3>9. QED BY <3>7, <3>8
  <2>7. QED BY <2>2, <2>4, <2>5, <2>6
<1>15. HeapOK(g)
  BY <1>1, <1>4, <1>12, <1>13, <1>14 DEF HeapOK, Shape, SizeExact
<1>16. ASSUME TopIsLeast(h) PROVE TopIsLeast(g)
  <2>1. SUFFICES ASSUME NEW v \in Values, c[v] > 0 PROVE m <= v
    BY <1>10, <1>13 DEF TopIsLeast
  <2>2. top <= v
    <3>1. h.size > 0
      BY <1>5
    <3>2. QED BY <2>1, <3>1, <1>5, <1>16 DEF TopIsLeast, top
  <2>3. BucketIndex(top, v) \in Buckets /\ In(v, r.buckets[BucketIndex(top, v)])
    BY <2>1, <1>1, IndexProperty DEF In
  <2>4. b <= BucketIndex(top, v)
    BY <2>3, <1>3
  <2>5. CASE b = BucketIndex(top, v)
    BY <2>3, <2>5, <1>3
  <2>6. CASE b # BucketIndex(top, v)
    <3>1. BucketIndex(top, m) < BucketIndex(top, v)
      BY <2>3, <2>4, <2>6, <1>3, <1>6, NumBitsAssumption DEF Buckets
    <3>2. m < v
      BY <3>1, <2>2, <1>1, <1>3, IndexOrder
    <3>3. QED BY <3>2, <1>3, ValuesAreNat
  <2>7. QED BY <2>5, <2>6
<1>17. QED BY <1>4, <1>13, <1>15, <1>16 DEF g, c, r

(* pop() takes one copy of the top away and leaves the heap sound.         *)
LEMMA PopProperty ==
    ASSUME NEW h, HeapOK(h), h.size # 0
    PROVE  /\ HeapOK(Pop(h))
           /\ Peek(h) \in Values /\ Contents(h)[Peek(h)] > 0
           /\ Contents(Pop(h)) = [Contents(h) EXCEPT ![Peek(h)] = @ - 1]
           /\ Pop(h).size = h.size - 1
           /\ TopIsLeast(h) => TopIsLeast(Pop(h))
<1>1. Peek(h) \in Values /\ Contents(h)[Peek(h)] > 0 /\ RemoveTop(h).size = h.size - 1
  BY RemoveTopProperty
<1>2. CASE RemoveTop(h).buckets[0] # EmptyBucket \/ RemoveTop(h).size = 0
  <2>1. Pop(h) = RemoveTop(h)
    BY <1>2 DEF Pop
  <2>2. QED BY <1>1, <1>2, <2>1, PopSimple DEF LessTop
<1>3. CASE ~(RemoveTop(h).buckets[0] # EmptyBucket \/ RemoveTop(h).size = 0)
  <2>1. Pop(h) = Rebalance(RemoveTop(h))
    BY <1>3 DEF Pop
  <2>2. QED BY <1>1, <1>3, <2>1, RebalanceProperty DEF LessTop
<1>4. QED BY <1>2, <1>3

(* The constructed heap is empty. *)
LEMMA NewHeapOK == HeapOK(NewHeap) /\ Contents(NewHeap) = EmptyBucket
<1>1. /\ 0 \in Buckets /\ MaxValue \in Values /\ EmptyBucket \in [Values -> Nat]
      /\ \A v \in Values : EmptyBucket[v] = 0
  BY Pow2Positive, NumBitsAssumption DEF Buckets, Values, MaxValue, EmptyBucket
<1>2. /\ \A i \in Buckets : NewHeap.buckets[i] = EmptyBucket /\ NewHeap.mins[i] = MaxValue
      /\ NewHeap.size = 0
  BY DEF NewHeap
<1>3. NewHeap \in Heaps
  BY <1>1 DEF NewHeap, Heaps
<1>4. Shape(NewHeap)
  BY <1>1, <1>2 DEF Shape, WellPlaced, MinsExact, TopPresent, In
<1>5. Contents(NewHeap) = EmptyBucket
  <2>1. \A v \in Values : Contents(NewHeap)[v] = 0
    BY <1>1, <1>2 DEF Contents, HomeBucket
  <2>2. QED BY <2>1 DEF Contents, EmptyBucket
<1>6. SizeExact(NewHeap)
  <2>1. Slots(EmptyBucket) = {}
    BY <1>1, SlotsMembership
  <2>2. QED BY <1>2, <1>5, <2>1, FS_EmptySet DEF SizeExact
<1>7. QED BY <1>3, <1>4, <1>5, <1>6 DEF HeapOK

(* An empty heap shows nothing too large.                                  *)
LEMMA NewHeapTop == TopIsLeast(NewHeap)
  BY DEF TopIsLeast, NewHeap

(* The top stays a least value when nothing below it is pushed. *)
LEMMA PushTop ==
    ASSUME NEW h, HeapOK(h), TopIsLeast(h), NEW v \in Values, h.size = 0 \/ Peek(h) <= v
    PROVE  TopIsLeast(Push(h, v))
<1>1. /\ Contents(Push(h, v)) = [Contents(h) EXCEPT ![v] = @ + 1]
      /\ Peek(Push(h, v)) = IF h.size = 0 THEN v ELSE Peek(h)
  BY PushProperty
<1>2. h \in Heaps /\ Contents(h) \in [Values -> Nat] /\ h.size \in Nat
  BY ContentsType, BucketFacts DEF HeapOK, Shape
<1>3. CASE h.size = 0
  <2>1. \A w \in Values : Contents(h)[w] = 0
    BY <1>2, <1>3, SlotsNone DEF HeapOK, SizeExact
  <2>2. \A w \in Values : Contents(Push(h, v))[w] > 0 => w = v
    BY <1>1, <1>2, <2>1
  <2>3. QED BY <1>1, <1>3, <2>2, ValuesAreNat DEF TopIsLeast
<1>4. CASE h.size # 0
  <2>1. \A w \in Values : Contents(h)[w] > 0 => Peek(h) <= w
    BY <1>2, <1>4 DEF TopIsLeast
  <2>2. \A w \in Values : Contents(Push(h, v))[w] > 0 => Peek(h) <= w
    BY <1>1, <1>2, <1>4, <2>1
  <2>3. QED BY <1>1, <1>4, <2>2 DEF TopIsLeast
<1>5. QED BY <1>3, <1>4
-----------------------------------------------------------------------------
(* Every push and pop, by any client, keeps HeapOK. *)
IInv == HeapOK(heap)

(* Every push and every pop keeps the heap sound.                          *)
LEMMA HeapOKStep == IInv /\ [HeapNext]_heap => IInv'
<1>1. SUFFICES ASSUME HeapOK(heap), [HeapNext]_heap PROVE HeapOK(heap')
  BY DEF IInv
<1>2. CASE DoPop
  BY <1>1, <1>2, PopProperty DEF DoPop, Empty
<1>3. ASSUME NEW v \in Values, DoPush(v) PROVE HeapOK(heap')
  BY <1>1, <1>3, PushProperty DEF DoPush
<1>4. CASE UNCHANGED heap
  BY <1>1, <1>4
<1>5. QED BY <1>1, <1>2, <1>3, <1>4 DEF HeapNext

(* The heap is sound whatever its client pushes.                           *)
LEMMA HeapAlwaysOK == HeapSpec => []IInv
<1>1. HeapInit => IInv
  BY NewHeapOK DEF HeapInit, IInv
<1>2. QED BY <1>1, HeapOKStep, PTL DEF HeapSpec

(* The buckets, their minima and the size keep their types: no minimum     *)
(* leaves the range of a tick, no count goes below zero.                   *)
THEOREM HeapTypeCorrect == HeapSpec => []HeapTypeOK
<1>1. IInv => HeapTypeOK
  BY DEF IInv, HeapOK, HeapTypeOK
<1>2. QED BY <1>1, HeapAlwaysOK, PTL

(* RadixHeap.cc keeps every value in the bucket its distance from the top  *)
(* assigns it, keeps bucket_mins exact and bucket 0 inhabited, for any     *)
(* sequence of pushes and pops.                                            *)
THEOREM ShapeAlways == HeapSpec => []ShapeInv
<1>1. IInv => ShapeInv
  BY DEF IInv, HeapOK, ShapeInv
<1>2. QED BY <1>1, HeapAlwaysOK, PTL

(* No redistribution loses or duplicates a value: size_val stays the       *)
(* number of values in the buckets.                                        *)
THEOREM NoValueLostEver == HeapSpec => []NoValueLost
<1>1. IInv => NoValueLost
  BY DEF IInv, HeapOK, NoValueLost
<1>2. QED BY <1>1, HeapAlwaysOK, PTL

-----------------------------------------------------------------------------
(* In a sound heap, nothing below the top in its home bucket is nothing    *)
(* below the top in any bucket.                                            *)
LEMMA NoneBelowTopEquiv ==
    ASSUME NEW h, HeapOK(h)
    PROVE  TopIsLeast(h) <=> NoneBelowTop(h)
<1>1. h \in Heaps /\ WellPlaced(h) /\ TopPresent(h)
  BY DEF HeapOK, Shape
<1>2. \A v \in Values : HomeBucket(h, v) \in Buckets /\ Contents(h)[v] = h.buckets[HomeBucket(h, v)][v]
  BY <1>1, ContentsType
<1>3. ASSUME TopIsLeast(h), h.size > 0, NEW i \in Buckets, NEW v \in Values, In(v, h.buckets[i])
      PROVE  Peek(h) <= v
  <2>1. i = HomeBucket(h, v)
    BY <1>1, <1>3 DEF WellPlaced
  <2>2. Contents(h)[v] > 0
    BY <1>2, <1>3, <2>1 DEF In
  <2>3. QED BY <1>3, <2>2 DEF TopIsLeast
<1>4. ASSUME NoneBelowTop(h), h.size > 0, NEW v \in Values, Contents(h)[v] > 0
      PROVE  Peek(h) <= v
  <2>1. In(v, h.buckets[HomeBucket(h, v)])
    BY <1>2, <1>4 DEF In
  <2>2. QED BY <1>2, <1>4, <2>1 DEF NoneBelowTop
<1>5. QED BY <1>3, <1>4 DEF TopIsLeast, NoneBelowTop

(* The inductive form: what is held is not below the top. *)
TopInv == TopIsLeast(heap)

(* A monotone client always sees a minimum at the front. *)
LEMMA TopStep ==
    ASSUME MonotoneClient = TRUE
    PROVE  IInv /\ TopInv /\ [HeapNext]_heap => TopInv'
<1>1. SUFFICES ASSUME HeapOK(heap), TopIsLeast(heap), [HeapNext]_heap PROVE TopIsLeast(heap')
  BY DEF IInv, TopInv
<1>2. CASE DoPop
  BY <1>1, <1>2, PopProperty DEF DoPop, Empty
<1>3. ASSUME NEW v \in Values, DoPush(v) PROVE TopIsLeast(heap')
  BY <1>1, <1>3, PushTop DEF DoPush, Empty
<1>4. CASE UNCHANGED heap
  BY <1>1, <1>4
<1>5. QED BY <1>1, <1>2, <1>3, <1>4 DEF HeapNext

(* The top stays least throughout a run of a monotone client.              *)
LEMMA TopAlways ==
    ASSUME MonotoneClient = TRUE
    PROVE  HeapSpec => []TopInv
<1>1. HeapInit => TopInv
  BY NewHeapTop DEF HeapInit, TopInv
<1>2. IInv /\ TopInv /\ [HeapNext]_heap => TopInv'
  BY TopStep
<1>3. QED BY <1>1, <1>2, HeapAlwaysOK, PTL DEF HeapSpec

(* peek() returns the least value in any bucket, as long as no value below *)
(* the top is pushed.                                                      *)
THEOREM PeekIsMinAlways ==
    ASSUME MonotoneClient = TRUE
    PROVE  HeapSpec => []PeekIsMin
<1>1. IInv /\ TopInv => PeekIsMin
  BY NoneBelowTopEquiv DEF IInv, TopInv, PeekIsMin
<1>2. QED BY <1>1, HeapAlwaysOK, TopAlways, PTL

-----------------------------------------------------------------------------
(* The heap implements the abstract priority queue.                        *)

(* peek() shows a least element of the queue.                              *)
LEMMA FrontLeast ==
    ASSUME NEW h, HeapOK(h), TopIsLeast(h)
    PROVE  PQ!Least(Contents(h), IF Empty(h) THEN -1 ELSE Peek(h))
<1>1. h \in Heaps /\ WellPlaced(h) /\ TopPresent(h) /\ Contents(h) \in [Values -> Nat] /\ h.size \in Nat
  BY ContentsType, BucketFacts DEF HeapOK, Shape
<1>2. h.size = 0 <=> \A v \in Values : Contents(h)[v] = 0
  BY <1>1, SlotsNone DEF HeapOK, SizeExact
<1>3. (\A v \in Values : Contents(h)[v] = 0) <=> Contents(h) = PQ!Nothing
  BY <1>1 DEF PQ!Nothing
<1>4. CASE h.size = 0
  BY <1>2, <1>3, <1>4 DEF PQ!Least, Empty
<1>5. CASE h.size # 0
  <2>1. Peek(h) \in Values /\ Contents(h)[Peek(h)] > 0
    BY <1>5, PopProperty
  <2>2. \A v \in Values : Contents(h)[v] > 0 => Peek(h) <= v
    BY <1>1, <1>5 DEF TopIsLeast
  <2>3. QED BY <1>2, <1>3, <1>5, <2>1, <2>2 DEF PQ!Least, Empty
<1>6. QED BY <1>4, <1>5

(* Every push of RadixHeap.cc adds one copy of its value to an abstract    *)
(* multiset and every pop removes one copy of a least value; peek() shows  *)
(* a least value at all times.                                             *)
THEOREM HeapImplementsPriorityQueue ==
    ASSUME MonotoneClient = TRUE
    PROVE  HeapSpec => ImplementsPriorityQueue
<1>1. HeapInit => PQ!Init
  <2>1. SUFFICES ASSUME HeapInit PROVE PQ!Init
    OBVIOUS
  <2>2. heap.size = 0 /\ Contents(heap) = EmptyBucket
    BY <2>1, NewHeapOK DEF HeapInit, NewHeap
  <2>3. QED BY <2>2 DEF PQ!Init, PQ!Nothing, EmptyBucket, Empty
<1>2. IInv /\ TopInv /\ IInv' /\ TopInv' /\ [HeapNext]_heap
        => [PQ!Next]_<<Contents(heap), IF Empty(heap) THEN -1 ELSE Peek(heap)>>
  <2> DEFINE held  == Contents(heap)
             front == IF Empty(heap) THEN -1 ELSE Peek(heap)
  <2>1. SUFFICES ASSUME HeapOK(heap), TopIsLeast(heap), HeapOK(heap'), TopIsLeast(heap'), [HeapNext]_heap
                 PROVE  PQ!Next \/ UNCHANGED <<held, front>>
    BY DEF IInv, TopInv
  <2>2. PQ!Least(held', front')
    BY <2>1, FrontLeast
  <2>3. CASE DoPop
    <3>1. /\ heap.size # 0 /\ Peek(heap) \in Values
          /\ held' = [held EXCEPT ![Peek(heap)] = @ - 1]
      BY <2>1, <2>3, PopProperty DEF DoPop, Empty
    <3>2. front = Peek(heap) /\ front # -1
      BY <3>1, ValuesAreNat DEF Empty
    <3>3. PQ!TakeFront
      BY <2>2, <3>1, <3>2 DEF PQ!TakeFront
    <3>4. QED BY <3>3 DEF PQ!Next
  <2>4. ASSUME NEW v \in Values, DoPush(v) PROVE PQ!Next
    <3>1. held' = [held EXCEPT ![v] = @ + 1]
      BY <2>1, <2>4, PushProperty DEF DoPush
    <3>2. front = -1 \/ front <= v
      BY <2>4 DEF DoPush
    <3>3. PQ!Insert(v)
      BY <2>2, <3>1, <3>2 DEF PQ!Insert
    <3>4. QED BY <3>3 DEF PQ!Next
  <2>5. CASE UNCHANGED heap
    BY <2>5
  <2>6. QED BY <2>1, <2>3, <2>4, <2>5 DEF HeapNext
<1>3. QED BY <1>1, <1>2, HeapAlwaysOK, TopAlways, PTL DEF HeapSpec, ImplementsPriorityQueue, PQ!Spec
=============================================================================
