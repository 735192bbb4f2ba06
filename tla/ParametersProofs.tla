--------------------------- MODULE ParametersProofs ---------------------------
(***************************************************************************)
(* The trie of parameters is a map, whatever the parts of a name are, how  *)
(* many a path has and how many objects there are.                         *)
(*                                                                         *)
(* The operations are recursive functions.  That they satisfy their        *)
(* equations is proved first (Recursion, and one lemma per function); what *)
(* they do at a path follows by induction on the path, the name or the     *)
(* levels of a trie.  Induction is over sets of numbers (Induction) or of  *)
(* what has a rank (RankInduction).                                        *)
(***************************************************************************)
EXTENDS Parameters, FiniteSetTheorems, SequenceTheorems, WellFoundedInduction, TLAPS

(* The least-number principle, from the well-foundedness of strict         *)
(* inclusion on the initial segments of Nat, and induction from it.        *)
LEMMA LeastElement ==
    ASSUME NEW T \in SUBSET Nat, T # {}
    PROVE  \E m \in T : \A n \in T : m <= n
<1> DEFINE F == {0..n : n \in T}
<1>1. IsWellFoundedOn(StrictSubsetOrdering(Nat), FiniteSubsetsOf(Nat))
  BY FS_StrictSubsetOrderingWellFounded
<1>2. F \subseteq FiniteSubsetsOf(Nat)
  <2>1. SUFFICES ASSUME NEW n \in T PROVE 0..n \in FiniteSubsetsOf(Nat)
    OBVIOUS
  <2>2. IsFiniteSet(0..n)
    BY FS_Interval
  <2>3. QED BY <2>2 DEF FiniteSubsetsOf
<1>3. F # {}
  OBVIOUS
<1>4. PICK x \in F : \A y \in F : ~ (<<y, x>> \in StrictSubsetOrdering(Nat))
  <2> HIDE DEF F
  <2> QED BY <1>1, <1>2, <1>3, WFMin
<1>5. PICK m \in T : x = 0..m
  OBVIOUS
<1>6. ASSUME NEW n \in T, n < m PROVE FALSE
  <2>1. 0..n \subseteq 0..m /\ 0..n # 0..m
    BY <1>6
  <2>2. <<0..n, 0..m>> \in StrictSubsetOrdering(Nat)
    BY <2>1 DEF StrictSubsetOrdering
  <2>3. QED BY <2>2, <1>4, <1>5
<1>7. QED BY <1>6

LEMMA Induction ==
    ASSUME NEW A, 0 \in A, \A n \in Nat : n \in A => n + 1 \in A
    PROVE  Nat \subseteq A
<1> SUFFICES ASSUME Nat \ A # {} PROVE FALSE
  OBVIOUS
<1>1. PICK m \in Nat \ A : \A n \in Nat \ A : m <= n
  BY LeastElement
<1>2. m - 1 \in Nat /\ m - 1 \notin A
  BY <1>1
<1>3. QED BY <1>1, <1>2

(* Recursion: a map B on the functions from S to V has a fixed point if    *)
(* what it makes of a function at x depends on the values at lower ranks   *)
(* only, and lies in W[x] when those lie where W puts them.                *)
Descends(S, V, rank, W, B) ==
    /\ \A g \in [S -> V] : B[g] = [x \in S |-> B[g][x]]
    /\ \A x \in S : W[x] \subseteq V
    /\ \A x \in S, g \in [S -> V] :
           (\A y \in S : rank[y] < rank[x] => g[y] \in W[y]) => B[g][x] \in W[x]
    /\ \A x \in S, g, h \in [S -> V] :
           (\A y \in S : rank[y] < rank[x] => g[y] = h[y]) => B[g][x] = B[h][x]

LEMMA Recursion ==
    ASSUME NEW S, NEW V, V # {}, NEW rank \in [S -> Nat], NEW W, NEW B,
           Descends(S, V, rank, W, B)
    PROVE  \E f \in [S -> V] : f = B[f]
<1> PICK v \in V : TRUE
  OBVIOUS
<1>0. /\ \A g \in [S -> V] : B[g] = [x \in S |-> B[g][x]]
      /\ \A x \in S : W[x] \subseteq V
      /\ \A x \in S, g \in [S -> V] :
             (\A y \in S : rank[y] < rank[x] => g[y] \in W[y]) => B[g][x] \in W[x]
      /\ \A x \in S, g, h \in [S -> V] :
             (\A y \in S : rank[y] < rank[x] => g[y] = h[y]) => B[g][x] = B[h][x]
  BY DEF Descends
<1> USE <1>0
<1> DEFINE Good(n, g) == \A x \in S : rank[x] < n => g[x] = B[g][x] /\ g[x] \in W[x]
<1>1. ASSUME NEW n \in Nat, NEW m \in 0..n, NEW g, Good(n, g)
      PROVE  Good(m, g)
  BY <1>1
<1>2. \A n \in Nat : \A g, h \in [S -> V] :
          Good(n, g) /\ Good(n, h) => \A x \in S : rank[x] < n => g[x] = h[x]
  <2> DEFINE A == {n \in Nat : \A g, h \in [S -> V] :
                     Good(n, g) /\ Good(n, h) => \A x \in S : rank[x] < n => g[x] = h[x]}
  <2>1. 0 \in A
    OBVIOUS
  <2>2. ASSUME NEW n \in A PROVE n + 1 \in A
    <3>1. n \in Nat /\ n + 1 \in Nat /\ n \in 0..(n + 1)
      OBVIOUS
    <3>2. SUFFICES ASSUME NEW g \in [S -> V], NEW h \in [S -> V], Good(n + 1, g), Good(n + 1, h),
                          NEW x \in S, rank[x] < n + 1
                   PROVE  g[x] = h[x]
      BY <3>1
    <3>3. Good(n, g) /\ Good(n, h)
      BY <1>1, <3>1, <3>2
    <3>4. \A y \in S : rank[y] < n => g[y] = h[y]
      <4> HIDE DEF Good
      <4> QED BY <3>3
    <3>5. \A y \in S : rank[y] < rank[x] => g[y] = h[y]
      <4>1. SUFFICES ASSUME NEW y \in S, rank[y] < rank[x] PROVE rank[y] < n
        BY <3>4
      <4>2. rank[x] \in Nat /\ rank[y] \in Nat
        OBVIOUS
      <4>3. QED BY <3>1, <3>2, <4>1, <4>2
    <3>6. B[g][x] = B[h][x]
      BY <3>5
    <3>7. g[x] = B[g][x] /\ h[x] = B[h][x]
      BY <3>2
    <3>8. QED BY <3>6, <3>7
  <2> HIDE DEF A
  <2>3. Nat \subseteq A
    BY <2>1, <2>2, Induction
  <2>4. QED BY <2>3 DEF A
<1>3. \A n \in Nat : \E g \in [S -> V] : Good(n, g)
  <2> DEFINE A == {n \in Nat : \E g \in [S -> V] : Good(n, g)}
  <2>1. 0 \in A
    <3>1. [x \in S |-> v] \in [S -> V]
      OBVIOUS
    <3>2. \A x \in S : ~ (rank[x] < 0)
      OBVIOUS
    <3>3. QED BY <3>1, <3>2
  <2>2. ASSUME NEW n \in A PROVE n + 1 \in A
    <3>1. PICK g \in [S -> V] : Good(n, g)
      OBVIOUS
    <3> DEFINE h == [x \in S |-> IF rank[x] <= n THEN B[g][x] ELSE v]
    <3>2. n \in Nat /\ n + 1 \in Nat /\ \A x \in S : rank[x] \in Nat
      OBVIOUS
    <3>3. ASSUME NEW x \in S, rank[x] <= n PROVE \A y \in S : rank[y] < rank[x] => rank[y] < n /\ rank[y] <= n
      BY <3>2, <3>3
    <3>4. ASSUME NEW x \in S, rank[x] <= n PROVE B[g][x] \in W[x]
      <4>1. \A y \in S : rank[y] < rank[x] => g[y] \in W[y]
        BY <3>1, <3>3, <3>4
      <4>2. QED BY <4>1
    <3>5. h \in [S -> V]
      BY <3>4
    <3>6. ASSUME NEW x \in S, rank[x] <= n PROVE B[h][x] = B[g][x]
      <4>1. \A y \in S : rank[y] < rank[x] => h[y] = g[y]
        BY <3>1, <3>3, <3>6
      <4>2. QED BY <3>5, <4>1
    <3>7. Good(n + 1, h)
      <4>1. SUFFICES ASSUME NEW x \in S, rank[x] < n + 1 PROVE h[x] = B[h][x] /\ h[x] \in W[x]
        OBVIOUS
      <4>2. rank[x] <= n
        BY <3>2, <4>1
      <4>3. h[x] = B[g][x]
        BY <4>2
      <4>4. QED BY <3>4, <3>6, <4>2, <4>3
    <3>8. QED BY <3>2, <3>5, <3>7
  <2> HIDE DEF A
  <2>3. Nat \subseteq A
    BY <2>1, <2>2, Induction
  <2>4. QED BY <2>3 DEF A
<1> DEFINE G == [n \in Nat |-> CHOOSE g \in [S -> V] : Good(n, g)]
           f == [x \in S |-> G[rank[x] + 1][x]]
<1>4. \A n \in Nat : G[n] \in [S -> V] /\ Good(n, G[n])
  <2> HIDE DEF Good
  <2> QED BY <1>3
<1>5. f \in [S -> V]
  <2> HIDE DEF G
  <2> QED BY <1>4
<1>6. ASSUME NEW x \in S PROVE f[x] = B[f][x]
  <2>1. rank[x] \in Nat /\ rank[x] + 1 \in Nat /\ rank[x] < rank[x] + 1
    OBVIOUS
  <2>2. \A y \in S : rank[y] < rank[x] => f[y] = G[rank[x] + 1][y]
    <3>1. SUFFICES ASSUME NEW y \in S, rank[y] < rank[x] PROVE G[rank[y] + 1][y] = G[rank[x] + 1][y]
      BY DEF f
    <3>2. rank[y] + 1 \in Nat /\ rank[y] + 1 \in 0..(rank[x] + 1) /\ rank[y] < rank[y] + 1
      BY <2>1, <3>1
    <3>3. Good(rank[y] + 1, G[rank[x] + 1]) /\ Good(rank[y] + 1, G[rank[y] + 1])
      <4> HIDE DEF Good, G
      <4> QED BY <1>1, <1>4, <2>1, <3>2
    <3>4. QED
      <4> HIDE DEF Good, G
      <4> QED BY <1>2, <1>4, <2>1, <3>2, <3>3
  <2>3. B[f][x] = B[G[rank[x] + 1]][x]
    <3> HIDE DEF f, G
    <3> QED BY <1>4, <1>5, <2>1, <2>2
  <2>4. G[rank[x] + 1][x] = B[G[rank[x] + 1]][x]
    <3> HIDE DEF G
    <3> QED BY <1>4, <2>1
  <2>5. QED BY <2>3, <2>4
<1> HIDE DEF f
<1>7. f = B[f]
  <2>1. f = [x \in S |-> f[x]]
    BY <1>5
  <2>2. QED BY <1>5, <1>6, <2>1
<1>8. QED BY <1>5, <1>7
-----------------------------------------------------------------------------
(* Names and paths. *)

LEMMA PathFacts ==
    /\ \A p : p \in Path <=> p \in Seq(Parts) /\ Len(p) <= MaxParts
    /\ <<>> \in Path
    /\ \A p \in Path : p # <<>> => /\ Head(p) \in Parts /\ Tail(p) \in Path
                                   /\ Len(p) \in Nat \ {0} /\ Len(Tail(p)) = Len(p) - 1
<1>1. ASSUME NEW p
      PROVE  p \in Path <=> p \in Seq(Parts) /\ Len(p) <= MaxParts
  <2>1. ASSUME p \in Path PROVE p \in Seq(Parts) /\ Len(p) <= MaxParts
    <3>1. PICK n \in 0..MaxParts : p \in [1..n -> Parts]
      BY <2>1 DEF Path
    <3>2. p \in Seq(Parts) /\ Len(p) = n
      <4>1. n \in Nat
        BY ParametersAssumption
      <4>2. QED BY <3>1, <4>1
    <3>3. QED BY <3>1, <3>2, ParametersAssumption
  <2>2. ASSUME p \in Seq(Parts), Len(p) <= MaxParts PROVE p \in Path
    <3>1. Len(p) \in 0..MaxParts /\ p \in [1..Len(p) -> Parts]
      BY <2>2, LenProperties, ParametersAssumption
    <3>2. QED BY <3>1 DEF Path
  <2>3. QED BY <2>1, <2>2
<1>2. <<>> \in Path
  <2>1. <<>> \in Seq(Parts) /\ Len(<<>>) = 0 /\ 0 <= MaxParts
    BY EmptySeq, ParametersAssumption
  <2>2. QED BY <1>1, <2>1
<1>3. ASSUME NEW p \in Path, p # <<>>
      PROVE  /\ Head(p) \in Parts /\ Tail(p) \in Path
             /\ Len(p) \in Nat \ {0} /\ Len(Tail(p)) = Len(p) - 1
  <2>1. p \in Seq(Parts) /\ Len(p) <= MaxParts /\ Len(p) \in Nat \ {0}
    BY <1>1, <1>3, EmptySeq
  <2>2. Head(p) \in Parts /\ Tail(p) \in Seq(Parts) /\ Len(Tail(p)) = Len(p) - 1
    BY <1>3, <2>1, HeadTailProperties
  <2>3. Len(Tail(p)) <= MaxParts
    BY <2>1, <2>2, ParametersAssumption
  <2>4. QED BY <1>1, <2>1, <2>2, <2>3
<1>4. QED BY <1>1, <1>2, <1>3

(* The canonical name of a path. *)
LEMMA Spelled ==
    ASSUME NEW p \in Path
    PROVE  /\ Append(p, Blank) \in Name /\ PathOf(Append(p, Blank)) = p
           /\ p = <<>> => Append(p, Blank) = EmptyName
           /\ p # <<>> => /\ Append(p, Blank) # EmptyName
                          /\ Head(Append(p, Blank)) = Head(p)
                          /\ Rest(Append(p, Blank)) = Append(Tail(p), Blank)
<1>1. p \in Seq(Parts) /\ Blank \in Parts /\ Len(p) \in Nat
  BY PathFacts, LenProperties, ParametersAssumption
<1> DEFINE n == Append(p, Blank)
<1>2. /\ n \in Seq(Parts) /\ n # <<>> /\ Len(n) = Len(p) + 1
      /\ \A i \in 1..Len(p) : n[i] = p[i]
      /\ n[Len(p) + 1] = Blank
  BY <1>1, AppendProperties
<1>3. n \in Name
  BY DEF Name
<1>4. PathOf(n) = p
  <2>1. PathOf(n) = SubSeq(n, 1, Len(p))
    BY <1>1, <1>2 DEF PathOf, Last, Front
  <2>2. /\ SubSeq(n, 1, Len(p)) \in Seq(Parts) /\ Len(SubSeq(n, 1, Len(p))) = Len(p)
        /\ \A i \in 1..Len(p) : SubSeq(n, 1, Len(p))[i] = n[i]
    <3>1. \A i \in 1..Len(p) : n[i] \in Parts
      BY <1>1, <1>2, ElementOfSeq
    <3> HIDE DEF n
    <3>2. /\ SubSeq(n, 1, Len(p)) \in Seq(Parts)
          /\ Len(SubSeq(n, 1, Len(p))) = IF 1 <= Len(p) THEN Len(p) - 1 + 1 ELSE 0
          /\ \A i \in 1..(Len(p) - 1 + 1) : SubSeq(n, 1, Len(p))[i] = n[1 + i - 1]
      BY <1>1, <3>1, SubSeqProperties
    <3>3. QED BY <1>1, <3>2
  <2>3. QED BY <1>1, <1>2, <2>1, <2>2, SeqEqual
<1>5. p = <<>> => n = EmptyName
  BY DEF EmptyName
<1>6. ASSUME p # <<>>
      PROVE  n # EmptyName /\ Head(n) = Head(p) /\ Rest(n) = Append(Tail(p), Blank)
  <2>1. Len(p) # 0
    BY <1>1, <1>6, EmptySeq
  <2>2. Len(n) # 1 /\ Len(EmptyName) = 1
    BY <1>1, <1>2, <2>1 DEF EmptyName
  <2>3. Head(n) = Head(p) /\ Tail(n) = Append(Tail(p), Blank)
    BY <1>1, <1>6, HeadTailAppend
  <2>4. QED BY <2>2, <2>3 DEF Rest
<1>7. QED BY <1>3, <1>4, <1>5, <1>6

(* A name is taken apart as its path is. *)
LEMMA NameFacts ==
    ASSUME NEW n \in Name
    PROVE  /\ PathOf(n) \in Path /\ Len(PathOf(n)) \in Nat
           /\ n = EmptyName <=> PathOf(n) = <<>>
           /\ n # EmptyName => /\ Head(n) \in Parts /\ Rest(n) \in Name
                               /\ Head(PathOf(n)) = Head(n) /\ Tail(PathOf(n)) = PathOf(Rest(n))
                               /\ Len(PathOf(Rest(n))) = Len(PathOf(n)) - 1
<1>1. CASE \E p \in Path : n = Append(p, Blank)
  <2>1. PICK p \in Path : n = Append(p, Blank)
    BY <1>1
  <2>2. PathOf(n) = p /\ (p = <<>> => n = EmptyName)
    BY <2>1, Spelled
  <2>3. ASSUME p # <<>>
        PROVE  /\ n # EmptyName /\ Head(n) = Head(p) /\ Rest(n) = Append(Tail(p), Blank)
               /\ Head(n) \in Parts /\ Tail(p) \in Path /\ Rest(n) \in Name /\ PathOf(Rest(n)) = Tail(p)
               /\ Len(Tail(p)) = Len(p) - 1
    <3>1. n # EmptyName /\ Head(n) = Head(p) /\ Rest(n) = Append(Tail(p), Blank)
      BY <2>1, <2>3, Spelled
    <3>2. Head(p) \in Parts /\ Tail(p) \in Path /\ Len(Tail(p)) = Len(p) - 1
      BY <2>3, PathFacts
    <3>3. QED BY <3>1, <3>2, Spelled
  <2>4. Len(p) \in Nat
    BY PathFacts, LenProperties
  <2>5. QED BY <2>2, <2>3, <2>4
<1>2. CASE ~ \E p \in Path : n = Append(p, Blank)
  <2>1. n \in Path /\ n # <<>>
    BY <1>2 DEF Name
  <2>2. n \in Seq(Parts) /\ Len(n) \in Nat \ {0} /\ Len(n) <= MaxParts
    BY <2>1, PathFacts
  <2>3. Last(n) # Blank
    <3>1. SUFFICES ASSUME Last(n) = Blank PROVE \E p \in Path : n = Append(p, Blank)
      BY <1>2
    <3>2. PICK q \in Seq(Parts), c \in Parts : n = Append(q, c)
      BY <2>1, <2>2, SequenceEmptyOrAppend
    <3>3. Len(n) = Len(q) + 1 /\ n[Len(q) + 1] = c /\ Len(q) \in Nat
      BY <3>2, AppendProperties, LenProperties
    <3>4. c = Blank
      BY <3>1, <3>3 DEF Last
    <3>5. q \in Path
      BY <2>2, <3>3, PathFacts, ParametersAssumption
    <3>6. QED BY <3>2, <3>4, <3>5
  <2>4. PathOf(n) = n /\ n # EmptyName
    <3>1. Last(EmptyName) = Blank
      BY DEF Last, EmptyName
    <3>2. QED BY <2>3, <3>1 DEF PathOf
  <2>5. Head(n) \in Parts /\ Tail(n) \in Path /\ Len(Tail(n)) = Len(n) - 1
    BY <2>1, PathFacts
  <2>6. CASE Len(n) = 1
    <3>1. Rest(n) = EmptyName /\ Tail(n) = <<>>
      <4>1. Tail(n) \in Seq(Parts) /\ Len(Tail(n)) = 0
        <5>1. Tail(n) \in Seq(Parts)
          BY <2>5, PathFacts
        <5>2. QED BY <2>5, <2>6, <5>1
      <4>2. QED BY <2>6, <4>1, EmptySeq DEF Rest
    <3>2. EmptyName = Append(<<>>, Blank) /\ EmptyName \in Name /\ PathOf(EmptyName) = <<>>
      BY PathFacts, Spelled
    <3>3. QED BY <2>1, <2>2, <2>4, <2>5, <2>6, <3>1, <3>2
  <2>7. CASE Len(n) # 1
    <3>1. Rest(n) = Tail(n) /\ Tail(n) # <<>> /\ Tail(n) \in Name
      <4>1. Len(Tail(n)) # 0
        BY <2>2, <2>5, <2>7
      <4>2. QED BY <2>5, <2>7, <4>1, EmptySeq DEF Rest, Name
    <3>2. Last(Tail(n)) = Last(n)
      <4>1. Len(Tail(n)) \in 1..Len(Tail(n)) /\ \A i \in 1..Len(Tail(n)) : Tail(n)[i] = n[i + 1]
        <5>1. \A i \in 1..Len(Tail(n)) : Tail(n)[i] = n[i + 1]
          BY <2>1, <2>2, HeadTailProperties
        <5>2. Len(Tail(n)) >= 1 /\ Len(Tail(n)) \in Nat
          BY <2>2, <2>5, <2>7
        <5>3. QED BY <5>1, <5>2
      <4>2. QED BY <2>2, <2>5, <4>1 DEF Last
    <3>3. PathOf(Rest(n)) = Tail(n)
      BY <2>3, <3>1, <3>2 DEF PathOf
    <3>4. QED BY <2>1, <2>2, <2>4, <2>5, <3>1, <3>3
  <2>8. QED BY <2>6, <2>7
<1>3. QED BY <1>1, <1>2

-----------------------------------------------------------------------------
(* Induction on a rank. *)
LEMMA RankInduction ==
    ASSUME NEW S, NEW rank \in [S -> Nat], NEW A,
           \A x \in S : (\A y \in S : rank[y] < rank[x] => y \in A) => x \in A
    PROVE  S \subseteq A
<1> DEFINE Below == {n \in Nat : \A x \in S : rank[x] < n => x \in A}
<1>1. 0 \in Below
  OBVIOUS
<1>2. ASSUME NEW n \in Nat, n \in Below PROVE n + 1 \in Below
  <2>1. SUFFICES ASSUME NEW x \in S, rank[x] < n + 1 PROVE x \in A
    OBVIOUS
  <2>2. \A y \in S : rank[y] < rank[x] => y \in A
    <3>1. SUFFICES ASSUME NEW y \in S, rank[y] < rank[x] PROVE y \in A
      OBVIOUS
    <3>2. rank[x] \in Nat /\ rank[y] \in Nat
      OBVIOUS
    <3>3. rank[y] < n
      BY <2>1, <3>1, <3>2
    <3>4. QED BY <1>2, <3>3
  <2>3. QED BY <2>2
<1> HIDE DEF Below
<1>3. Nat \subseteq Below
  BY <1>1, <1>2, Induction
<1>4. ASSUME NEW x \in S PROVE x \in A
  <2>1. rank[x] \in Nat /\ rank[x] + 1 \in Nat /\ rank[x] < rank[x] + 1
    OBVIOUS
  <2>2. rank[x] + 1 \in Below
    BY <1>3, <2>1
  <2>3. QED BY <2>1, <2>2 DEF Below
<1>5. QED BY <1>4
-----------------------------------------------------------------------------
(* Tries. *)

Node(T) == [value : Params \cup {None}, children : [Parts -> T \cup {None}]]

(* The levels: the chains 0..n of them exist, agree, and make up Trees. *)
LEMMA TreesDef == Trees[0] = {} /\ \A n \in Nat : Trees[n + 1] = Node(Trees[n])
<1> DEFINE Chain(n, g) == g = [i \in 0..n |-> IF i = 0 THEN {} ELSE Node(g[i - 1])]
<1>1. \A n \in Nat : \E g : Chain(n, g)
  <2> DEFINE A == {n \in Nat : \E g : Chain(n, g)}
  <2>1. 0 \in A
    <3> DEFINE g == [i \in 0..0 |-> {}]
    <3>1. Chain(0, g)
      OBVIOUS
    <3>2. QED BY <3>1
  <2>2. ASSUME NEW n \in Nat, n \in A PROVE n + 1 \in A
    <3>1. PICK g : Chain(n, g)
      BY <2>2
    <3> DEFINE h == [i \in 0..(n + 1) |-> IF i = n + 1 THEN Node(g[n]) ELSE g[i]]
    <3>2. ASSUME NEW i \in 0..(n + 1)
          PROVE  h[i] = IF i = 0 THEN {} ELSE Node(h[i - 1])
      <4>1. CASE i = 0
        <5>1. g[0] = {}
          BY <3>1
        <5>2. QED BY <4>1, <5>1
      <4>2. CASE i = n + 1
        <5>1. i - 1 = n /\ n \in 0..(n + 1) /\ n # n + 1
          BY <4>2
        <5>2. h[i] = Node(g[n]) /\ h[i - 1] = g[n] /\ i # 0
          BY <4>2, <5>1
        <5>3. QED BY <5>2
      <4>3. CASE i # 0 /\ i # n + 1
        <5>1. i \in 0..n /\ i - 1 \in 0..(n + 1) /\ i - 1 # n + 1
          BY <4>3
        <5>2. g[i] = Node(g[i - 1])
          BY <3>1, <4>3, <5>1
        <5>3. h[i] = g[i] /\ h[i - 1] = g[i - 1]
          BY <4>3, <5>1
        <5>4. QED BY <4>3, <5>2, <5>3
      <4>4. QED BY <4>1, <4>2, <4>3
    <3>3. h = [i \in 0..(n + 1) |-> IF i = 0 THEN {} ELSE Node(h[i - 1])]
      <4>1. h = [i \in 0..(n + 1) |-> h[i]]
        OBVIOUS
      <4> HIDE DEF h
      <4>2. QED BY <3>2, <4>1
    <3> HIDE DEF h
    <3>4. QED BY <3>3
  <2> HIDE DEF A
  <2>3. Nat \subseteq A
    BY <2>1, <2>2, Induction
  <2>4. QED BY <2>3 DEF A
<1>2. \A i \in Nat : \A m, n \in Nat : i <= m /\ i <= n =>
          \A g, h : Chain(m, g) /\ Chain(n, h) => g[i] = h[i]
  <2> DEFINE A == {i \in Nat : \A m, n \in Nat : i <= m /\ i <= n =>
                     \A g, h : Chain(m, g) /\ Chain(n, h) => g[i] = h[i]}
  <2>1. 0 \in A
    <3>1. ASSUME NEW n \in Nat, NEW g, Chain(n, g) PROVE g[0] = {}
      <4>1. 0 \in 0..n
        OBVIOUS
      <4>2. QED BY <3>1, <4>1
    <3> HIDE DEF Chain
    <3>2. QED BY <3>1
  <2>2. ASSUME NEW i \in Nat, i \in A PROVE i + 1 \in A
    <3>1. ASSUME NEW n \in Nat, NEW g, Chain(n, g), i + 1 <= n PROVE g[i + 1] = Node(g[i])
      <4>1. i + 1 \in 0..n /\ i + 1 # 0 /\ i + 1 - 1 = i
        BY <3>1
      <4>2. g[i + 1] = IF i + 1 = 0 THEN {} ELSE Node(g[i + 1 - 1])
        <5> DEFINE k == i + 1
        <5>1. k \in 0..n
          BY <4>1
        <5> HIDE DEF k
        <5>2. g[k] = IF k = 0 THEN {} ELSE Node(g[k - 1])
          BY <3>1, <5>1
        <5>3. QED BY <5>2 DEF k
      <4>3. QED BY <4>1, <4>2
    <3>2. SUFFICES ASSUME NEW m \in Nat, NEW n \in Nat, i + 1 <= m, i + 1 <= n,
                          NEW g, NEW h, Chain(m, g), Chain(n, h)
                   PROVE  g[i + 1] = h[i + 1]
      <4> HIDE DEF Chain
      <4> QED OBVIOUS
    <3>3. i <= m /\ i <= n
      BY <3>2
    <3>4. g[i] = h[i]
      <4> HIDE DEF Chain
      <4> QED BY <2>2, <3>2, <3>3
    <3>5. QED BY <3>1, <3>2, <3>4
  <2> HIDE DEF A
  <2>3. Nat \subseteq A
    BY <2>1, <2>2, Induction
  <2>4. QED BY <2>3 DEF A
<1> DEFINE C == [n \in Nat |-> CHOOSE g : Chain(n, g)]
           f == [d \in Nat |-> C[d][d]]
<1>3. \A n \in Nat : Chain(n, C[n])
  <2> HIDE DEF Chain
  <2> QED BY <1>1
<1>4. ASSUME NEW d \in Nat PROVE f[d] = IF d = 0 THEN {} ELSE Node(f[d - 1])
  <2>1. d \in 0..d
    OBVIOUS
  <2>2. C[d][d] = IF d = 0 THEN {} ELSE Node(C[d][d - 1])
    <3> HIDE DEF C
    <3> QED BY <1>3, <2>1
  <2>3. ASSUME d # 0 PROVE C[d][d - 1] = f[d - 1]
    <3>1. d - 1 \in Nat /\ d - 1 <= d /\ d - 1 <= d - 1
      BY <2>3
    <3>2. C[d][d - 1] = C[d - 1][d - 1]
      <4> HIDE DEF C, Chain
      <4> QED BY <1>2, <1>3, <3>1
    <3>3. QED BY <3>1, <3>2
  <2>4. QED BY <2>2, <2>3
<1>5. f = [d \in Nat |-> IF d = 0 THEN {} ELSE Node(f[d - 1])]
  <2>1. f = [d \in Nat |-> f[d]]
    OBVIOUS
  <2> HIDE DEF f
  <2>2. QED BY <1>4, <2>1
<1> HIDE DEF f
<1>6. Trees = [d \in Nat |-> IF d = 0 THEN {} ELSE Node(Trees[d - 1])]
  <2>1. Trees = CHOOSE g : g = [d \in Nat |-> IF d = 0 THEN {} ELSE Node(g[d - 1])]
    BY DEF Trees, Node
  <2>2. \E g : g = [d \in Nat |-> IF d = 0 THEN {} ELSE Node(g[d - 1])]
    BY <1>5
  <2> HIDE DEF Trees
  <2>3. QED BY <2>1, <2>2
<1>7. Trees[0] = {}
  BY <1>6
<1>8. ASSUME NEW n \in Nat PROVE Trees[n + 1] = Node(Trees[n])
  <2>1. n + 1 \in Nat /\ n + 1 # 0 /\ n + 1 - 1 = n
    OBVIOUS
  <2>2. QED BY <1>6, <2>1
<1>9. QED BY <1>7, <1>8

LEMMA TreesMonotone ==
    ASSUME NEW m \in Nat, NEW n \in Nat, m <= n
    PROVE  Trees[m] \subseteq Trees[n]
<1>1. \A T, U : T \subseteq U => Node(T) \subseteq Node(U)
  BY DEF Node
<1> DEFINE A == {k \in Nat : Trees[k] \subseteq Trees[k + 1]}
<1>2. Nat \subseteq A
  <2>1. 0 \in A
    BY TreesDef
  <2>2. ASSUME NEW k \in Nat, k \in A PROVE k + 1 \in A
    <3>1. k + 1 \in Nat /\ Trees[k] \subseteq Trees[k + 1]
      BY <2>2
    <3>2. Trees[k + 1] = Node(Trees[k]) /\ Trees[(k + 1) + 1] = Node(Trees[k + 1])
      BY <3>1, TreesDef
    <3>3. QED BY <1>1, <3>1, <3>2
  <2> HIDE DEF A
  <2>3. QED BY <2>1, <2>2, Induction
<1> DEFINE B == {k \in Nat : m <= k => Trees[m] \subseteq Trees[k]}
<1>3. Nat \subseteq B
  <2>1. 0 \in B
    <3>1. m <= 0 => m = 0
      OBVIOUS
    <3>2. QED BY <3>1
  <2>2. ASSUME NEW k \in Nat, k \in B PROVE k + 1 \in B
    <3>1. k + 1 \in Nat /\ Trees[k] \subseteq Trees[k + 1]
      BY <1>2
    <3>2. CASE m <= k
      BY <2>2, <3>1, <3>2
    <3>3. CASE ~ (m <= k)
      <4>1. m <= k + 1 => m = k + 1
        BY <3>3
      <4>2. QED BY <3>1, <4>1
    <3>4. QED BY <3>2, <3>3
  <2> HIDE DEF B
  <2>3. QED BY <2>1, <2>2, Induction
<1>4. QED BY <1>3

LEMMA LevelFacts ==
    /\ \A k \in Nat : k <= MaxParts + 1 => Trees[k] \subseteq Trie /\ None \notin Trees[k]
    /\ MaxParts \in Nat /\ MaxParts + 1 \in Nat /\ Trie = Trees[MaxParts + 1] /\ None \notin Trie
    /\ None \notin Params /\ Blank \in Parts
<1>1. MaxParts \in Nat /\ MaxParts + 1 \in Nat /\ None \notin Trie /\ None \notin Params /\ Blank \in Parts
  BY ParametersAssumption
<1>2. Trie = Trees[MaxParts + 1]
  BY DEF Trie
<1>3. ASSUME NEW k \in Nat, k <= MaxParts + 1 PROVE Trees[k] \subseteq Trie /\ None \notin Trees[k]
  <2>1. Trees[k] \subseteq Trie
    BY <1>1, <1>2, <1>3, TreesMonotone
  <2>2. QED BY <1>1, <2>1
<1>4. QED BY <1>1, <1>2, <1>3

LEMMA LevelShape ==
    ASSUME NEW k \in Nat, NEW t \in Trees[k]
    PROVE  /\ k - 1 \in Nat
           /\ t = [value |-> t.value, children |-> t.children]
           /\ t.value \in Params \cup {None}
           /\ t.children \in [Parts -> Trees[k - 1] \cup {None}]
<1>1. k # 0
  BY TreesDef
<1>2. k - 1 \in Nat /\ k = (k - 1) + 1
  BY <1>1
<1>3. Trees[k] = Node(Trees[k - 1])
  BY <1>2, TreesDef
<1>4. QED BY <1>2, <1>3 DEF Node

LEMMA LevelMade ==
    ASSUME NEW k \in Nat, k # 0, NEW v \in Params \cup {None},
           NEW ch \in [Parts -> Trees[k - 1] \cup {None}]
    PROVE  [value |-> v, children |-> ch] \in Trees[k]
<1>1. k - 1 \in Nat /\ k = (k - 1) + 1
  OBVIOUS
<1>2. Trees[k] = Node(Trees[k - 1])
  BY <1>1, TreesDef
<1>3. QED BY <1>2 DEF Node

LEMMA EmptyTrieLevel == \A k \in Nat : k # 0 => EmptyTrie \in Trees[k]
<1>1. SUFFICES ASSUME NEW k \in Nat, k # 0 PROVE EmptyTrie \in Trees[k]
  OBVIOUS
<1>2. [c \in Parts |-> None] \in [Parts -> Trees[k - 1] \cup {None}]
  OBVIOUS
<1>3. QED BY <1>1, <1>2, LevelMade DEF EmptyTrie

(* A node of Trie, and what is below it. *)
LEMMA TrieShape ==
    ASSUME NEW t \in Trie
    PROVE  /\ t = [value |-> t.value, children |-> t.children]
           /\ t.value \in Params \cup {None}
           /\ t.children \in [Parts -> Trie \cup {None}]
           /\ \A c \in Parts : ChildOf(t, c) \in Trie
<1>1. /\ t = [value |-> t.value, children |-> t.children]
      /\ t.value \in Params \cup {None}
      /\ t.children \in [Parts -> Trees[(MaxParts + 1) - 1] \cup {None}]
  BY LevelFacts, LevelShape
<1>2. (MaxParts + 1) - 1 \in Nat /\ (MaxParts + 1) - 1 <= MaxParts + 1
  BY LevelFacts
<1>3. Trees[(MaxParts + 1) - 1] \subseteq Trie
  BY <1>2, LevelFacts
<1>4. t.children \in [Parts -> Trie \cup {None}]
  BY <1>1, <1>3
<1>5. EmptyTrie \in Trie
  <2>1. MaxParts + 1 # 0
    BY LevelFacts
  <2>2. QED BY <2>1, LevelFacts, EmptyTrieLevel
<1>6. ASSUME NEW c \in Parts PROVE ChildOf(t, c) \in Trie
  BY <1>4, <1>5 DEF ChildOf
<1>7. QED BY <1>1, <1>4, <1>6

(* The number of levels of a trie; a child has fewer. *)
Depth == [t \in Trie |-> CHOOSE d \in Nat : t \in Trees[d] /\ \A e \in Nat : t \in Trees[e] => d <= e]

LEMMA DepthFacts ==
    /\ Depth \in [Trie -> Nat]
    /\ \A t \in Trie : t \in Trees[Depth[t]]
    /\ \A t \in Trie, c \in Parts : t.children[c] # None =>
           t.children[c] \in Trie /\ Depth[t.children[c]] < Depth[t]
<1>1. ASSUME NEW t \in Trie
      PROVE  /\ Depth[t] \in Nat /\ t \in Trees[Depth[t]]
             /\ \A e \in Nat : t \in Trees[e] => Depth[t] <= e
  <2> DEFINE T == {d \in Nat : t \in Trees[d]}
  <2>1. T # {}
    BY LevelFacts
  <2>2. \E d \in T : \A e \in T : d <= e
    <3> HIDE DEF T
    <3>1. T \subseteq Nat
      BY DEF T
    <3>2. QED BY <2>1, <3>1, LeastElement
  <2>3. \E d \in Nat : t \in Trees[d] /\ \A e \in Nat : t \in Trees[e] => d <= e
    BY <2>2
  <2>4. QED BY <2>3 DEF Depth
<1>2. Depth \in [Trie -> Nat]
  <2>1. Depth = [t \in Trie |-> Depth[t]]
    BY DEF Depth
  <2>2. QED BY <1>1, <2>1
<1>3. ASSUME NEW t \in Trie, NEW c \in Parts, t.children[c] # None
      PROVE  t.children[c] \in Trie /\ Depth[t.children[c]] < Depth[t]
  <2>1. Depth[t] \in Nat /\ t \in Trees[Depth[t]]
    BY <1>1
  <2>2. Depth[t] - 1 \in Nat /\ t.children \in [Parts -> Trees[Depth[t] - 1] \cup {None}]
    BY <2>1, LevelShape
  <2>3. t.children[c] \in Trees[Depth[t] - 1] /\ t.children[c] \in Trie
    BY <1>3, <2>2, TrieShape
  <2>4. Depth[t.children[c]] \in Nat /\ Depth[t.children[c]] <= Depth[t] - 1
    BY <1>1, <2>2, <2>3
  <2>5. QED BY <2>1, <2>3, <2>4
<1>4. QED BY <1>1, <1>2, <1>3

(* The number of parts of a name; what follows the first has fewer. *)
NameRank == [n \in Name |-> Len(PathOf(n))]

LEMMA NameRankFacts ==
    /\ NameRank \in [Name -> Nat]
    /\ \A n \in Name : NameRank[n] <= MaxParts
    /\ \A n \in Name : n # EmptyName =>
           Head(n) \in Parts /\ Rest(n) \in Name /\ NameRank[n] = NameRank[Rest(n)] + 1
<1>1. \A n \in Name : NameRank[n] = Len(PathOf(n)) /\ NameRank[n] \in Nat /\ NameRank[n] <= MaxParts
  <2>1. SUFFICES ASSUME NEW n \in Name PROVE Len(PathOf(n)) \in Nat /\ Len(PathOf(n)) <= MaxParts
    BY DEF NameRank
  <2>2. PathOf(n) \in Path
    BY NameFacts
  <2>3. PathOf(n) \in Seq(Parts) /\ Len(PathOf(n)) <= MaxParts
    BY <2>2, PathFacts
  <2>4. QED BY <2>3, LenProperties
<1>2. NameRank \in [Name -> Nat]
  <2>1. NameRank = [n \in Name |-> NameRank[n]]
    BY DEF NameRank
  <2>2. QED BY <1>1, <2>1
<1>3. ASSUME NEW n \in Name, n # EmptyName
      PROVE  Head(n) \in Parts /\ Rest(n) \in Name /\ NameRank[n] = NameRank[Rest(n)] + 1
  <2>1. Head(n) \in Parts /\ Rest(n) \in Name /\ Len(PathOf(Rest(n))) = Len(PathOf(n)) - 1
    BY <1>3, NameFacts
  <2>2. NameRank[n] = Len(PathOf(n)) /\ NameRank[Rest(n)] = Len(PathOf(Rest(n)))
        /\ NameRank[n] \in Nat
    BY <1>1, <2>1
  <2>3. QED BY <2>1, <2>2
<1>4. QED BY <1>1, <1>2, <1>3
-----------------------------------------------------------------------------
(* The recursive functions of the model satisfy their equations.           *)

SubBody(f, n) == [t \in Trie |->
    IF n = EmptyName THEN t
    ELSE IF t.children[Head(n)] = None THEN None
    ELSE f[Rest(n)][t.children[Head(n)]]]

LEMMA SubEquation ==
    /\ \A n \in Name, t \in Trie : Sub[n][t] \in Trie \cup {None}
    /\ \A t \in Trie : EmptyName \in Name => Sub[EmptyName][t] = t
    /\ \A n \in Name, t \in Trie : n # EmptyName =>
           Sub[n][t] = IF t.children[Head(n)] = None THEN None
                       ELSE Sub[Rest(n)][t.children[Head(n)]]
<1> DEFINE V == [Trie -> Trie \cup {None}]
           W == [n \in Name |-> V]
           B == [g \in [Name -> V] |-> [n \in Name |-> SubBody(g, n)]]
<1>1. ASSUME NEW n \in Name, NEW f, n # EmptyName => f[Rest(n)] \in V
      PROVE  SubBody(f, n) \in V
  <2>1. SUFFICES ASSUME NEW t \in Trie, n # EmptyName, t.children[Head(n)] # None
                 PROVE  f[Rest(n)][t.children[Head(n)]] \in Trie \cup {None}
    BY DEF SubBody
  <2>2. Head(n) \in Parts
    BY <2>1, NameRankFacts
  <2>3. t.children[Head(n)] \in Trie
    BY <2>1, <2>2, TrieShape
  <2>4. QED BY <1>1, <2>1, <2>3
<1>2. \E f \in [Name -> V] : f = B[f]
  <2>1. [t \in Trie |-> None] \in V
    OBVIOUS
  <2>2. \A g \in [Name -> V] : B[g] = [n \in Name |-> B[g][n]]
    OBVIOUS
  <2>3. \A n \in Name : W[n] \subseteq V
    OBVIOUS
  <2>4. ASSUME NEW n \in Name, NEW g \in [Name -> V] PROVE B[g][n] = SubBody(g, n)
    OBVIOUS
  <2>5. ASSUME NEW n \in Name, n # EmptyName PROVE Rest(n) \in Name /\ NameRank[Rest(n)] < NameRank[n]
    BY <2>5, NameRankFacts
  <2>6. \A n \in Name, g \in [Name -> V] :
           (\A y \in Name : NameRank[y] < NameRank[n] => g[y] \in W[y]) => B[g][n] \in W[n]
    <3>1. SUFFICES ASSUME NEW n \in Name, NEW g \in [Name -> V] PROVE SubBody(g, n) \in V
      BY <2>4
    <3>2. n # EmptyName => g[Rest(n)] \in V
      BY <2>5
    <3> HIDE DEF V
    <3>3. QED BY <1>1, <3>2
  <2>7. \A n \in Name, g, h \in [Name -> V] :
           (\A y \in Name : NameRank[y] < NameRank[n] => g[y] = h[y]) => B[g][n] = B[h][n]
    <3>1. SUFFICES ASSUME NEW n \in Name, NEW g \in [Name -> V], NEW h \in [Name -> V],
                          \A y \in Name : NameRank[y] < NameRank[n] => g[y] = h[y]
                   PROVE  SubBody(g, n) = SubBody(h, n)
      BY <2>4
    <3>2. n # EmptyName => g[Rest(n)] = h[Rest(n)]
      BY <2>5, <3>1
    <3>3. QED BY <3>2 DEF SubBody
  <2>8. Descends(Name, V, NameRank, W, B)
    <3> HIDE DEF V, W, B
    <3>1. QED BY <2>2, <2>3, <2>6, <2>7 DEF Descends
  <2>9. NameRank \in [Name -> Nat]
    BY NameRankFacts
  <2> HIDE DEF V, W, B
  <2>10. QED BY <2>1, <2>8, <2>9, Recursion
<1>3. Sub = [n \in Name |-> SubBody(Sub, n)]
  <2>1. Sub = CHOOSE f : f = [n \in Name |-> SubBody(f, n)]
    BY DEF Sub, SubBody
  <2>2. \E f : f = [n \in Name |-> SubBody(f, n)]
    BY <1>2
  <2> HIDE DEF Sub
  <2>3. QED BY <2>1, <2>2
<1>4. \A n \in Name : Sub[n] \in V
  <2> DEFINE A == {n \in Name : Sub[n] \in V}
  <2>1. ASSUME NEW n \in Name, \A y \in Name : NameRank[y] < NameRank[n] => y \in A PROVE n \in A
    <3>1. n # EmptyName => Sub[Rest(n)] \in V
      BY <2>1, NameRankFacts
    <3> HIDE DEF V
    <3>2. QED BY <1>1, <1>3, <3>1
  <2> HIDE DEF A
  <2>2. Name \subseteq A
    BY <2>1, NameRankFacts, RankInduction
  <2>3. QED BY <2>2 DEF A
<1>5. ASSUME NEW n \in Name, NEW t \in Trie
      PROVE  Sub[n][t] = IF n = EmptyName THEN t
                         ELSE IF t.children[Head(n)] = None THEN None
                         ELSE Sub[Rest(n)][t.children[Head(n)]]
  <2>1. Sub[n] = SubBody(Sub, n)
    BY <1>3
  <2>2. QED BY <2>1 DEF SubBody
<1>6. QED BY <1>4, <1>5

LEMMA ChildLevel ==
    ASSUME NEW k \in Nat, k - 1 # 0, NEW t \in Trees[k], NEW c \in Parts
    PROVE  ChildOf(t, c) \in Trees[k - 1]
<1>1. k - 1 \in Nat /\ t.children[c] \in Trees[k - 1] \cup {None}
  BY LevelShape
<1>2. EmptyTrie \in Trees[k - 1]
  BY <1>1, EmptyTrieLevel
<1>3. QED BY <1>1, <1>2 DEF ChildOf

AddedBody(f, n) == [t \in Trie |-> [p \in Params |->
    IF n = EmptyName THEN [t EXCEPT !.value = p]
    ELSE [t EXCEPT !.children[Head(n)] = f[Rest(n)][ChildOf(t, Head(n))][p]]]]

LEMMA AddedEquation ==
    /\ \A n \in Name, t \in Trie, p \in Params : Added[n][t][p] \in Trie
    /\ \A n \in Name, t \in Trie, p \in Params :
           Added[n][t][p] =
               IF n = EmptyName THEN [value |-> p, children |-> t.children]
               ELSE [value |-> t.value, children |->
                     [t.children EXCEPT ![Head(n)] = Added[Rest(n)][ChildOf(t, Head(n))][p]]]
<1> DEFINE V == [Trie -> [Params -> Trie]]
           Keeps(n, v) == \A k \in 1..(MaxParts + 1) : NameRank[n] < k =>
                              \A t \in Trees[k], p \in Params : v[t][p] \in Trees[k]
           W == [n \in Name |-> {v \in V : Keeps(n, v)}]
           B == [g \in [Name -> V] |-> [n \in Name |-> AddedBody(g, n)]]
<1>1. ASSUME NEW n \in Name, NEW t \in Trie, NEW p \in Params, NEW f
      PROVE  AddedBody(f, n)[t][p] =
               IF n = EmptyName THEN [value |-> p, children |-> t.children]
               ELSE [value |-> t.value, children |->
                     [t.children EXCEPT ![Head(n)] = f[Rest(n)][ChildOf(t, Head(n))][p]]]
  <2>1. t = [value |-> t.value, children |-> t.children]
    BY TrieShape
  <2>2. AddedBody(f, n)[t][p] = IF n = EmptyName THEN [t EXCEPT !.value = p]
            ELSE [t EXCEPT !.children[Head(n)] = f[Rest(n)][ChildOf(t, Head(n))][p]]
    BY DEF AddedBody
  <2>3. [t EXCEPT !.value = p] = [value |-> p, children |-> t.children]
    BY <2>1
  <2>4. \A c, y : [t EXCEPT !.children[c] = y] = [value |-> t.value, children |-> [t.children EXCEPT ![c] = y]]
    BY <2>1
  <2>5. QED BY <2>2, <2>3, <2>4
<1>2. ASSUME NEW n \in Name, NEW f, n # EmptyName => f[Rest(n)] \in W[Rest(n)]
      PROVE  AddedBody(f, n) \in W[n]
  <2>1. ASSUME NEW k \in 1..(MaxParts + 1), NameRank[n] < k, NEW t \in Trees[k], NEW p \in Params
        PROVE  AddedBody(f, n)[t][p] \in Trees[k]
    <3>1. k \in Nat /\ k # 0 /\ t \in Trie
      BY LevelFacts
    <3>2. k - 1 \in Nat /\ t.value \in Params \cup {None}
          /\ t.children \in [Parts -> Trees[k - 1] \cup {None}]
      BY <3>1, LevelShape
    <3>3. CASE n = EmptyName
      <4>1. [value |-> p, children |-> t.children] \in Trees[k]
        BY <3>1, <3>2, LevelMade
      <4>2. QED BY <1>1, <3>1, <3>3, <4>1
    <3>4. CASE n # EmptyName
      <4> DEFINE y == f[Rest(n)][ChildOf(t, Head(n))][p]
      <4>1. /\ Head(n) \in Parts /\ Rest(n) \in Name
            /\ NameRank[Rest(n)] \in Nat /\ NameRank[n] = NameRank[Rest(n)] + 1
        BY <3>4, NameRankFacts
      <4>2. k - 1 \in 1..(MaxParts + 1) /\ k - 1 # 0 /\ NameRank[Rest(n)] < k - 1
        BY <2>1, <3>2, <4>1, LevelFacts
      <4>3. ChildOf(t, Head(n)) \in Trees[k - 1]
        BY <3>1, <4>1, <4>2, ChildLevel
      <4>4. y \in Trees[k - 1]
        <5>1. Keeps(Rest(n), f[Rest(n)])
          BY <1>2, <3>4, <4>1
        <5>2. QED BY <4>2, <4>3, <5>1
      <4> HIDE DEF y
      <4>5. [t.children EXCEPT ![Head(n)] = y] \in [Parts -> Trees[k - 1] \cup {None}]
        BY <3>2, <4>1, <4>4
      <4>6. [value |-> t.value, children |-> [t.children EXCEPT ![Head(n)] = y]] \in Trees[k]
        BY <3>1, <3>2, <4>5, LevelMade
      <4>7. AddedBody(f, n)[t][p]
                = [value |-> t.value, children |-> [t.children EXCEPT ![Head(n)] = y]]
        <5>1. AddedBody(f, n)[t][p] = IF n = EmptyName THEN [value |-> p, children |-> t.children]
                  ELSE [value |-> t.value, children |-> [t.children EXCEPT ![Head(n)] = y]]
          <6> HIDE DEF V, W, B
          <6>1. QED BY <1>1, <3>1 DEF y
        <5>2. QED BY <3>4, <5>1
      <4>8. QED BY <4>6, <4>7
    <3>5. QED BY <3>3, <3>4
  <2>2. AddedBody(f, n) \in V
    <3>1. MaxParts + 1 \in 1..(MaxParts + 1) /\ NameRank[n] < MaxParts + 1
      BY LevelFacts, NameRankFacts
    <3>2. \A t \in Trie, p \in Params : AddedBody(f, n)[t][p] \in Trie
      BY <2>1, <3>1, LevelFacts
    <3>3. AddedBody(f, n) = [t \in Trie |-> [p \in Params |-> AddedBody(f, n)[t][p]]]
      BY DEF AddedBody
    <3>4. QED BY <3>2, <3>3
  <2>3. Keeps(n, AddedBody(f, n))
    BY <2>1
  <2> HIDE DEF V, Keeps
  <2>4. QED BY <2>2, <2>3
<1>3. \E f \in [Name -> V] : f = B[f]
  <2>1. V # {}
    <3>1. [t \in Trie |-> [p \in Params |-> t]] \in V
      OBVIOUS
    <3>2. QED BY <3>1
  <2>2. \A g \in [Name -> V] : B[g] = [n \in Name |-> B[g][n]]
    OBVIOUS
  <2>3. \A n \in Name : W[n] \subseteq V
    OBVIOUS
  <2>4. ASSUME NEW n \in Name, NEW g \in [Name -> V] PROVE B[g][n] = AddedBody(g, n)
    OBVIOUS
  <2>5. ASSUME NEW n \in Name, n # EmptyName PROVE Rest(n) \in Name /\ NameRank[Rest(n)] < NameRank[n]
    BY <2>5, NameRankFacts
  <2>6. \A n \in Name, g \in [Name -> V] :
           (\A y \in Name : NameRank[y] < NameRank[n] => g[y] \in W[y]) => B[g][n] \in W[n]
    <3>1. SUFFICES ASSUME NEW n \in Name, NEW g \in [Name -> V],
                          \A y \in Name : NameRank[y] < NameRank[n] => g[y] \in W[y]
                   PROVE  AddedBody(g, n) \in W[n]
      BY <2>4
    <3> HIDE DEF W
    <3>2. n # EmptyName => g[Rest(n)] \in W[Rest(n)]
      BY <2>5, <3>1
    <3>3. QED BY <1>2, <3>2
  <2>7. \A n \in Name, g, h \in [Name -> V] :
           (\A y \in Name : NameRank[y] < NameRank[n] => g[y] = h[y]) => B[g][n] = B[h][n]
    <3>1. SUFFICES ASSUME NEW n \in Name, NEW g \in [Name -> V], NEW h \in [Name -> V],
                          \A y \in Name : NameRank[y] < NameRank[n] => g[y] = h[y]
                   PROVE  AddedBody(g, n) = AddedBody(h, n)
      BY <2>4
    <3>2. n # EmptyName => g[Rest(n)] = h[Rest(n)]
      BY <2>5, <3>1
    <3>3. QED BY <3>2 DEF AddedBody
  <2>8. NameRank \in [Name -> Nat]
    BY NameRankFacts
  <2> HIDE DEF V, W, B
  <2>9. Descends(Name, V, NameRank, W, B)
    BY <2>2, <2>3, <2>6, <2>7 DEF Descends
  <2>10. QED BY <2>1, <2>8, <2>9, Recursion
<1>4. Added = [n \in Name |-> AddedBody(Added, n)]
  <2>1. Added = CHOOSE f : f = [n \in Name |-> AddedBody(f, n)]
    BY DEF Added, AddedBody
  <2>2. \E f : f = [n \in Name |-> AddedBody(f, n)]
    BY <1>3
  <2> HIDE DEF Added
  <2>3. QED BY <2>1, <2>2
<1>5. \A n \in Name : Added[n] \in W[n]
  <2> DEFINE A == {n \in Name : Added[n] \in W[n]}
  <2>1. ASSUME NEW n \in Name, \A y \in Name : NameRank[y] < NameRank[n] => y \in A PROVE n \in A
    <3>1. ASSUME n # EmptyName PROVE Rest(n) \in Name /\ NameRank[Rest(n)] < NameRank[n]
      BY <3>1, NameRankFacts
    <3> HIDE DEF W
    <3>2. n # EmptyName => Added[Rest(n)] \in W[Rest(n)]
      BY <2>1, <3>1
    <3>3. Added[n] = AddedBody(Added, n)
      BY <1>4
    <3>4. QED BY <1>2, <3>2, <3>3
  <2> HIDE DEF A
  <2>2. Name \subseteq A
    BY <2>1, NameRankFacts, RankInduction
  <2>3. QED BY <2>2 DEF A
<1>6. ASSUME NEW n \in Name, NEW t \in Trie, NEW p \in Params
      PROVE  Added[n][t][p] =
               IF n = EmptyName THEN [value |-> p, children |-> t.children]
               ELSE [value |-> t.value, children |->
                     [t.children EXCEPT ![Head(n)] = Added[Rest(n)][ChildOf(t, Head(n))][p]]]
  <2>1. Added[n] = AddedBody(Added, n)
    BY <1>4
  <2>2. QED BY <1>1, <2>1
<1>7. ASSUME NEW n \in Name, NEW t \in Trie, NEW p \in Params PROVE Added[n][t][p] \in Trie
  BY <1>5
<1>8. QED BY <1>6, <1>7

VisitedBody(f, t) == [name \in Seq(Parts) |->
    (IF t.value = None THEN {} ELSE {<<name, t.value>>})
    \cup UNION {IF t.children[c] = None THEN {} ELSE f[t.children[c]][Named(name, c)] : c \in Parts}]

LEMMA NamedType == \A name \in Seq(Parts), c \in Parts : Named(name, c) \in Seq(Parts)
  BY AppendProperties DEF Named

LEMMA VisitedEquation ==
    /\ \A t \in Trie, name \in Seq(Parts) : Visited[t][name] \subseteq Seq(Parts) \X Params
    /\ \A t \in Trie, name \in Seq(Parts) : \A v : v \in Visited[t][name] <=>
           \/ t.value # None /\ v = <<name, t.value>>
           \/ \E c \in Parts : /\ t.children[c] # None
                               /\ v \in Visited[t.children[c]][Named(name, c)]
<1> DEFINE V == [Seq(Parts) -> SUBSET (Seq(Parts) \X Params)]
           W == [t \in Trie |-> V]
           B == [g \in [Trie -> V] |-> [t \in Trie |-> VisitedBody(g, t)]]
<1>1. ASSUME NEW t \in Trie, NEW f,
             \A c \in Parts : t.children[c] # None => f[t.children[c]] \in V
      PROVE  VisitedBody(f, t) \in V
  <2>1. SUFFICES ASSUME NEW name \in Seq(Parts), NEW v \in VisitedBody(f, t)[name]
                 PROVE  v \in Seq(Parts) \X Params
    BY DEF VisitedBody
  <2>2. CASE t.value # None /\ v = <<name, t.value>>
    <3>1. t.value \in Params
      BY <2>2, TrieShape
    <3>2. QED BY <2>2, <3>1
  <2>3. CASE \E c \in Parts : t.children[c] # None /\ v \in f[t.children[c]][Named(name, c)]
    <3>1. PICK c \in Parts : t.children[c] # None /\ v \in f[t.children[c]][Named(name, c)]
      BY <2>3
    <3>2. Named(name, c) \in Seq(Parts)
      BY NamedType
    <3>3. QED BY <1>1, <3>1, <3>2
  <2>4. QED BY <2>1, <2>2, <2>3 DEF VisitedBody
<1>2. \E f \in [Trie -> V] : f = B[f]
  <2>1. V # {}
    <3>1. [name \in Seq(Parts) |-> {}] \in V
      OBVIOUS
    <3>2. QED BY <3>1
  <2>2. \A g \in [Trie -> V] : B[g] = [t \in Trie |-> B[g][t]]
    OBVIOUS
  <2>3. \A t \in Trie : W[t] \subseteq V
    OBVIOUS
  <2>4. ASSUME NEW t \in Trie, NEW g \in [Trie -> V] PROVE B[g][t] = VisitedBody(g, t)
    OBVIOUS
  <2>5. ASSUME NEW t \in Trie, NEW c \in Parts, t.children[c] # None
        PROVE  t.children[c] \in Trie /\ Depth[t.children[c]] < Depth[t]
    BY <2>5, DepthFacts
  <2>6. \A t \in Trie, g \in [Trie -> V] :
           (\A y \in Trie : Depth[y] < Depth[t] => g[y] \in W[y]) => B[g][t] \in W[t]
    <3>1. SUFFICES ASSUME NEW t \in Trie, NEW g \in [Trie -> V] PROVE VisitedBody(g, t) \in V
      BY <2>4
    <3>2. \A c \in Parts : t.children[c] # None => g[t.children[c]] \in V
      BY <2>5
    <3> HIDE DEF V
    <3>3. QED BY <1>1, <3>2
  <2>7. \A t \in Trie, g, h \in [Trie -> V] :
           (\A y \in Trie : Depth[y] < Depth[t] => g[y] = h[y]) => B[g][t] = B[h][t]
    <3>1. SUFFICES ASSUME NEW t \in Trie, NEW g \in [Trie -> V], NEW h \in [Trie -> V],
                          \A y \in Trie : Depth[y] < Depth[t] => g[y] = h[y]
                   PROVE  VisitedBody(g, t) = VisitedBody(h, t)
      BY <2>4
    <3>2. \A c \in Parts : t.children[c] # None => g[t.children[c]] = h[t.children[c]]
      BY <2>5, <3>1
    <3>3. ASSUME NEW name
          PROVE  UNION {IF t.children[c] = None THEN {} ELSE g[t.children[c]][Named(name, c)] : c \in Parts}
               = UNION {IF t.children[c] = None THEN {} ELSE h[t.children[c]][Named(name, c)] : c \in Parts}
      BY <3>2
    <3>4. QED BY <3>3 DEF VisitedBody
  <2>8. Depth \in [Trie -> Nat]
    BY DepthFacts
  <2> HIDE DEF V, W, B
  <2>9. Descends(Trie, V, Depth, W, B)
    BY <2>2, <2>3, <2>6, <2>7 DEF Descends
  <2>10. QED BY <2>1, <2>8, <2>9, Recursion
<1>3. Visited = [t \in Trie |-> VisitedBody(Visited, t)]
  <2>1. Visited = CHOOSE f : f = [t \in Trie |-> VisitedBody(f, t)]
    BY DEF Visited, VisitedBody
  <2>2. \E f : f = [t \in Trie |-> VisitedBody(f, t)]
    BY <1>2
  <2> HIDE DEF Visited
  <2>3. QED BY <2>1, <2>2
<1>4. \A t \in Trie : Visited[t] \in V
  <2> DEFINE A == {t \in Trie : Visited[t] \in V}
  <2>1. ASSUME NEW t \in Trie, \A y \in Trie : Depth[y] < Depth[t] => y \in A PROVE t \in A
    <3>1. \A c \in Parts : t.children[c] # None => t.children[c] \in A
      BY <2>1, DepthFacts
    <3>2. \A c \in Parts : t.children[c] # None => Visited[t.children[c]] \in V
      BY <3>1
    <3>3. Visited[t] = VisitedBody(Visited, t)
      BY <1>3
    <3> HIDE DEF V
    <3>4. QED BY <1>1, <3>2, <3>3
  <2> HIDE DEF A
  <2>2. Trie \subseteq A
    BY <2>1, DepthFacts, RankInduction
  <2>3. QED BY <2>2 DEF A
<1>5. ASSUME NEW t \in Trie, NEW name \in Seq(Parts), NEW v
      PROVE  v \in Visited[t][name] <=>
                 \/ t.value # None /\ v = <<name, t.value>>
                 \/ \E c \in Parts : /\ t.children[c] # None
                                     /\ v \in Visited[t.children[c]][Named(name, c)]
  <2>1. Visited[t] = VisitedBody(Visited, t)
    BY <1>3
  <2>2. QED BY <2>1 DEF VisitedBody
<1>6. QED BY <1>4, <1>5

MergedBody(f, o) == [t \in Trie |->
    [value    |-> IF o.value = None THEN t.value ELSE Clone(o.value),
     children |-> [c \in Parts |->
         IF o.children[c] = None THEN t.children[c] ELSE f[o.children[c]][ChildOf(t, c)]]]]

LEMMA CloneType == \A p \in Params : Clone(p) \in Params
  BY DEF Clone, Params

LEMMA MergedEquation ==
    /\ \A o, t \in Trie : Merged[o][t] \in Trie
    /\ \A o, t \in Trie :
           Merged[o][t] =
               [value    |-> IF o.value = None THEN t.value ELSE Clone(o.value),
                children |-> [c \in Parts |-> IF o.children[c] = None THEN t.children[c]
                                              ELSE Merged[o.children[c]][ChildOf(t, c)]]]
<1> DEFINE V == [Trie -> Trie]
           Keeps(o, v) == \A k \in 1..(MaxParts + 1) :
                              o \in Trees[k] => \A t \in Trees[k] : v[t] \in Trees[k]
           W == [o \in Trie |-> {v \in V : Keeps(o, v)}]
           B == [g \in [Trie -> V] |-> [o \in Trie |-> MergedBody(g, o)]]
<1>1. ASSUME NEW o \in Trie, NEW f,
             \A c \in Parts : o.children[c] # None => f[o.children[c]] \in W[o.children[c]]
      PROVE  MergedBody(f, o) \in W[o]
  <2>1. ASSUME NEW k \in 1..(MaxParts + 1), o \in Trees[k], NEW t \in Trees[k]
        PROVE  MergedBody(f, o)[t] \in Trees[k]
    <3>1. k \in Nat /\ k # 0 /\ k - 1 \in Nat /\ t \in Trie /\ k - 1 <= MaxParts + 1
      BY LevelFacts
    <3>2. /\ t.value \in Params \cup {None} /\ o.value \in Params \cup {None}
          /\ t.children \in [Parts -> Trees[k - 1] \cup {None}]
          /\ o.children \in [Parts -> Trees[k - 1] \cup {None}]
      BY <2>1, <3>1, LevelShape
    <3> DEFINE v == IF o.value = None THEN t.value ELSE Clone(o.value)
               ch == [c \in Parts |-> IF o.children[c] = None THEN t.children[c]
                                      ELSE f[o.children[c]][ChildOf(t, c)]]
    <3>3. v \in Params \cup {None}
      BY <3>2, CloneType
    <3>4. ASSUME NEW c \in Parts, o.children[c] # None
          PROVE  f[o.children[c]][ChildOf(t, c)] \in Trees[k - 1]
      <4>1. o.children[c] \in Trees[k - 1]
        BY <3>2, <3>4
      <4>2. k - 1 # 0
        BY <4>1, TreesDef
      <4>3. k - 1 \in 1..(MaxParts + 1)
        BY <3>1, <4>2, LevelFacts
      <4>4. ChildOf(t, c) \in Trees[k - 1]
        BY <3>1, <4>2, ChildLevel
      <4>5. o.children[c] \in Trie
        BY <3>1, <4>1, LevelFacts
      <4>6. Keeps(o.children[c], f[o.children[c]])
        BY <1>1, <3>4, <4>5
      <4>7. QED BY <4>1, <4>3, <4>4, <4>6
    <3>5. ch \in [Parts -> Trees[k - 1] \cup {None}]
      BY <3>2, <3>4
    <3>6. MergedBody(f, o)[t] = [value |-> v, children |-> ch]
      BY <3>1 DEF MergedBody
    <3> HIDE DEF v, ch
    <3>7. QED BY <3>1, <3>3, <3>5, <3>6, LevelMade
  <2>2. MergedBody(f, o) \in V
    <3>1. MaxParts + 1 \in 1..(MaxParts + 1)
      BY LevelFacts
    <3>2. \A t \in Trie : MergedBody(f, o)[t] \in Trie
      BY <2>1, <3>1, LevelFacts
    <3>3. MergedBody(f, o) = [t \in Trie |-> MergedBody(f, o)[t]]
      BY DEF MergedBody
    <3>4. QED BY <3>2, <3>3
  <2>3. Keeps(o, MergedBody(f, o))
    BY <2>1
  <2> HIDE DEF V, Keeps
  <2>4. QED BY <2>2, <2>3
<1>2. \E f \in [Trie -> V] : f = B[f]
  <2>1. V # {}
    <3>1. [t \in Trie |-> t] \in V
      OBVIOUS
    <3>2. QED BY <3>1
  <2>2. \A g \in [Trie -> V] : B[g] = [o \in Trie |-> B[g][o]]
    OBVIOUS
  <2>3. \A o \in Trie : W[o] \subseteq V
    OBVIOUS
  <2>4. ASSUME NEW o \in Trie, NEW g \in [Trie -> V] PROVE B[g][o] = MergedBody(g, o)
    OBVIOUS
  <2>5. ASSUME NEW o \in Trie, NEW c \in Parts, o.children[c] # None
        PROVE  o.children[c] \in Trie /\ Depth[o.children[c]] < Depth[o]
    BY <2>5, DepthFacts
  <2>6. \A o \in Trie, g \in [Trie -> V] :
           (\A y \in Trie : Depth[y] < Depth[o] => g[y] \in W[y]) => B[g][o] \in W[o]
    <3>1. SUFFICES ASSUME NEW o \in Trie, NEW g \in [Trie -> V],
                          \A y \in Trie : Depth[y] < Depth[o] => g[y] \in W[y]
                   PROVE  MergedBody(g, o) \in W[o]
      BY <2>4
    <3> HIDE DEF W
    <3>2. \A c \in Parts : o.children[c] # None => g[o.children[c]] \in W[o.children[c]]
      BY <2>5, <3>1
    <3>3. QED BY <1>1, <3>2
  <2>7. \A o \in Trie, g, h \in [Trie -> V] :
           (\A y \in Trie : Depth[y] < Depth[o] => g[y] = h[y]) => B[g][o] = B[h][o]
    <3>1. SUFFICES ASSUME NEW o \in Trie, NEW g \in [Trie -> V], NEW h \in [Trie -> V],
                          \A y \in Trie : Depth[y] < Depth[o] => g[y] = h[y]
                   PROVE  MergedBody(g, o) = MergedBody(h, o)
      BY <2>4
    <3>2. \A c \in Parts : o.children[c] # None => g[o.children[c]] = h[o.children[c]]
      BY <2>5, <3>1
    <3>3. ASSUME NEW t
          PROVE  [c \in Parts |-> IF o.children[c] = None THEN t.children[c]
                                  ELSE g[o.children[c]][ChildOf(t, c)]]
               = [c \in Parts |-> IF o.children[c] = None THEN t.children[c]
                                  ELSE h[o.children[c]][ChildOf(t, c)]]
      BY <3>2
    <3>4. QED BY <3>3 DEF MergedBody
  <2>8. Depth \in [Trie -> Nat]
    BY DepthFacts
  <2> HIDE DEF V, W, B
  <2>9. Descends(Trie, V, Depth, W, B)
    BY <2>2, <2>3, <2>6, <2>7 DEF Descends
  <2>10. QED BY <2>1, <2>8, <2>9, Recursion
<1>3. Merged = [o \in Trie |-> MergedBody(Merged, o)]
  <2>1. Merged = CHOOSE f : f = [o \in Trie |-> MergedBody(f, o)]
    BY DEF Merged, MergedBody
  <2>2. \E f : f = [o \in Trie |-> MergedBody(f, o)]
    BY <1>2
  <2> HIDE DEF Merged
  <2>3. QED BY <2>1, <2>2
<1>4. \A o \in Trie : Merged[o] \in W[o]
  <2> DEFINE A == {o \in Trie : Merged[o] \in W[o]}
  <2>1. ASSUME NEW o \in Trie, \A y \in Trie : Depth[y] < Depth[o] => y \in A PROVE o \in A
    <3>1. \A c \in Parts : o.children[c] # None => o.children[c] \in A
      BY <2>1, DepthFacts
    <3> HIDE DEF W
    <3>2. \A c \in Parts : o.children[c] # None => Merged[o.children[c]] \in W[o.children[c]]
      BY <3>1
    <3>3. Merged[o] = MergedBody(Merged, o)
      BY <1>3
    <3>4. QED BY <1>1, <3>2, <3>3
  <2> HIDE DEF A
  <2>2. Trie \subseteq A
    BY <2>1, DepthFacts, RankInduction
  <2>3. QED BY <2>2 DEF A
<1>5. ASSUME NEW o \in Trie, NEW t \in Trie
      PROVE  Merged[o][t] =
               [value    |-> IF o.value = None THEN t.value ELSE Clone(o.value),
                children |-> [c \in Parts |-> IF o.children[c] = None THEN t.children[c]
                                              ELSE Merged[o.children[c]][ChildOf(t, c)]]]
  <2>1. Merged[o] = MergedBody(Merged, o)
    BY <1>3
  <2>2. QED BY <2>1 DEF MergedBody
<1>6. ASSUME NEW o \in Trie, NEW t \in Trie PROVE Merged[o][t] \in Trie
  BY <1>4
<1>7. QED BY <1>5, <1>6

-----------------------------------------------------------------------------
(* What a trie has at a path. *)

NodeAt(t, p) == Sub[Append(p, Blank)][t]

LEMMA NodeAtFacts ==
    /\ \A t \in Trie, p \in Path : NodeAt(t, p) \in Trie \cup {None}
    /\ \A t \in Trie : NodeAt(t, <<>>) = t
    /\ \A t \in Trie, p \in Path : p # <<>> =>
           NodeAt(t, p) = IF t.children[Head(p)] = None THEN None
                          ELSE NodeAt(t.children[Head(p)], Tail(p))
<1>1. ASSUME NEW t \in Trie, NEW p \in Path PROVE NodeAt(t, p) \in Trie \cup {None}
  BY Spelled, SubEquation DEF NodeAt
<1>2. ASSUME NEW t \in Trie PROVE NodeAt(t, <<>>) = t
  <2>1. Append(<<>>, Blank) = EmptyName /\ EmptyName \in Name
    BY PathFacts, Spelled
  <2>2. QED BY <2>1, SubEquation DEF NodeAt
<1>3. ASSUME NEW t \in Trie, NEW p \in Path, p # <<>>
      PROVE  NodeAt(t, p) = IF t.children[Head(p)] = None THEN None
                            ELSE NodeAt(t.children[Head(p)], Tail(p))
  <2>1. /\ Append(p, Blank) \in Name /\ Append(p, Blank) # EmptyName
        /\ Head(Append(p, Blank)) = Head(p) /\ Rest(Append(p, Blank)) = Append(Tail(p), Blank)
    BY <1>3, Spelled
  <2> DEFINE n == Append(p, Blank)
  <2>2. Sub[n][t] = IF t.children[Head(n)] = None THEN None
                    ELSE Sub[Rest(n)][t.children[Head(n)]]
    <3> HIDE DEF n
    <3>1. QED BY <2>1, SubEquation DEF n
  <2>3. QED BY <2>1, <2>2 DEF NodeAt
<1>4. QED BY <1>1, <1>2, <1>3

(* Every spelling of a path leads to the same node. *)
LEMMA AnySpelling == \A n \in Name, t \in Trie : Sub[n][t] = NodeAt(t, PathOf(n))
<1> DEFINE A == {n \in Name : \A t \in Trie : Sub[n][t] = NodeAt(t, PathOf(n))}
<1>1. ASSUME NEW n \in Name, \A m \in Name : NameRank[m] < NameRank[n] => m \in A PROVE n \in A
  <2>1. SUFFICES ASSUME NEW t \in Trie PROVE Sub[n][t] = NodeAt(t, PathOf(n))
    OBVIOUS
  <2>2. CASE n = EmptyName
    BY <2>2, NameFacts, NodeAtFacts, SubEquation
  <2>3. CASE n # EmptyName
    <3>1. /\ Head(n) \in Parts /\ Rest(n) \in Name /\ PathOf(n) \in Path /\ PathOf(n) # <<>>
          /\ Head(PathOf(n)) = Head(n) /\ Tail(PathOf(n)) = PathOf(Rest(n))
      BY <2>3, NameFacts
    <3>2. NameRank[Rest(n)] < NameRank[n]
      BY <2>3, NameRankFacts
    <3>3. Rest(n) \in A
      BY <1>1, <3>1, <3>2
    <3>4. CASE t.children[Head(n)] = None
      <4>1. Sub[n][t] = None
        BY <2>3, <3>4, SubEquation
      <4>2. NodeAt(t, PathOf(n)) = None
        BY <3>1, <3>4, NodeAtFacts
      <4>3. QED BY <4>1, <4>2
    <3>5. CASE t.children[Head(n)] # None
      <4> DEFINE u == t.children[Head(n)]
      <4>1. u \in Trie
        BY <3>1, <3>5, TrieShape
      <4>2. Sub[n][t] = Sub[Rest(n)][u]
        BY <2>3, <3>5, SubEquation
      <4>3. NodeAt(t, PathOf(n)) = NodeAt(u, PathOf(Rest(n)))
        BY <3>1, <3>5, NodeAtFacts
      <4>4. QED BY <3>3, <4>1, <4>2, <4>3
    <3>6. QED BY <3>4, <3>5
  <2>4. QED BY <2>2, <2>3
<1> HIDE DEF A
<1>2. Name \subseteq A
  BY <1>1, NameRankFacts, RankInduction
<1>3. QED BY <1>2 DEF A

LEMMA FindFacts ==
    ASSUME NEW t \in Trie, NEW n \in Name
    PROVE  Find(t, n) = At(t, PathOf(n)) /\ Find(t, n) \in Params \cup {None}
<1> DEFINE node == NodeAt(t, PathOf(n))
<1>1. PathOf(n) \in Path
  BY NameFacts
<1>2. Append(PathOf(n), Blank) \in Name /\ PathOf(Append(PathOf(n), Blank)) = PathOf(n)
  BY <1>1, Spelled
<1>3. Sub[n][t] = node /\ Sub[Append(PathOf(n), Blank)][t] = node
  BY <1>2, AnySpelling
<1>4. node \in Trie \cup {None}
  BY <1>1, NodeAtFacts
<1>5. Find(t, n) = (IF node = None THEN None ELSE node.value)
      /\ At(t, PathOf(n)) = (IF node = None THEN None ELSE node.value)
  BY <1>3 DEF Find, GetSubtrie, At
<1>6. node # None => node.value \in Params \cup {None}
  BY <1>4, TrieShape
<1>7. QED BY <1>5, <1>6

LEMMA AtFacts ==
    /\ \A t \in Trie, p \in Path : At(t, p) \in Params \cup {None}
    /\ \A t \in Trie, p \in Path : At(t, p) = IF NodeAt(t, p) = None THEN None ELSE NodeAt(t, p).value
    /\ \A t \in Trie : At(t, <<>>) = t.value
    /\ \A t \in Trie, p \in Path : p # <<>> =>
           At(t, p) = IF t.children[Head(p)] = None THEN None
                      ELSE At(t.children[Head(p)], Tail(p))
<1>1. \A t \in Trie, p \in Path : At(t, p) \in Params \cup {None}
  BY Spelled, FindFacts DEF At
<1>2. \A t, p : At(t, p) = IF NodeAt(t, p) = None THEN None ELSE NodeAt(t, p).value
  BY DEF At, Find, GetSubtrie, NodeAt
<1>3. ASSUME NEW t \in Trie PROVE At(t, <<>>) = t.value
  <2>1. NodeAt(t, <<>>) = t /\ t # None
    BY NodeAtFacts, LevelFacts
  <2>2. QED BY <1>2, <2>1
<1>4. ASSUME NEW t \in Trie, NEW p \in Path, p # <<>>
      PROVE  At(t, p) = IF t.children[Head(p)] = None THEN None
                        ELSE At(t.children[Head(p)], Tail(p))
  <2>1. NodeAt(t, p) = IF t.children[Head(p)] = None THEN None
                       ELSE NodeAt(t.children[Head(p)], Tail(p))
    BY <1>4, NodeAtFacts
  <2>2. QED BY <1>2, <2>1
<1>5. QED BY <1>1, <1>2, <1>3, <1>4

LEMMA EmptyTrieAt == \A p \in Path : At(EmptyTrie, p) = None /\ EmptyTrie \in Trie
<1>1. EmptyTrie \in Trie
  <2>1. MaxParts + 1 # 0
    BY LevelFacts
  <2>2. QED BY <2>1, LevelFacts, EmptyTrieLevel
<1>2. ASSUME NEW p \in Path, p # <<>> PROVE At(EmptyTrie, p) = None
  <2>1. Head(p) \in Parts
    BY <1>2, PathFacts
  <2>2. EmptyTrie.children[Head(p)] = None
    BY <2>1 DEF EmptyTrie
  <2>3. QED BY <1>1, <1>2, <2>2, AtFacts
<1>3. At(EmptyTrie, <<>>) = None
  BY <1>1, AtFacts DEF EmptyTrie
<1>4. QED BY <1>1, <1>2, <1>3

(* A child that is missing has as much as an empty one. *)
LEMMA ChildAt ==
    ASSUME NEW t \in Trie, NEW p \in Path, p # <<>>
    PROVE  At(t, p) = At(ChildOf(t, Head(p)), Tail(p))
<1>1. Tail(p) \in Path
  BY PathFacts
<1>2. At(t, p) = IF t.children[Head(p)] = None THEN None ELSE At(t.children[Head(p)], Tail(p))
  BY AtFacts
<1>3. At(EmptyTrie, Tail(p)) = None
  BY <1>1, EmptyTrieAt
<1>4. QED BY <1>2, <1>3 DEF ChildOf

PathRank == [p \in Path |-> Len(p)]

LEMMA PathRankFacts ==
    /\ PathRank \in [Path -> Nat]
    /\ \A p \in Path : p # <<>> => Tail(p) \in Path /\ PathRank[Tail(p)] < PathRank[p]
<1>1. \A p \in Path : Len(p) \in Nat
  BY PathFacts, LenProperties
<1>2. ASSUME NEW p \in Path, p # <<>> PROVE Tail(p) \in Path /\ PathRank[Tail(p)] < PathRank[p]
  <2>1. Tail(p) \in Path /\ Len(p) \in Nat /\ Len(Tail(p)) = Len(p) - 1
    BY <1>2, PathFacts
  <2>2. PathRank[p] = Len(p) /\ PathRank[Tail(p)] = Len(Tail(p))
    BY <2>1 DEF PathRank
  <2>3. PathRank[p] \in Nat /\ PathRank[Tail(p)] = PathRank[p] - 1
    BY ZenonT(30), <2>1, <2>2
  <2>4. QED BY <2>1, <2>3
<1>3. QED BY <1>1, <1>2 DEF PathRank

LEMMA SamePath ==
    ASSUME NEW p \in Path, NEW q \in Path, p # <<>>, q # <<>>, Head(p) = Head(q), Tail(p) = Tail(q)
    PROVE  p = q
<1>1. p \in Seq(Parts) /\ q \in Seq(Parts) /\ Len(p) \in Nat \ {0} /\ Len(q) \in Nat \ {0}
  BY PathFacts
<1>2. /\ Len(Tail(p)) = Len(p) - 1 /\ \A i \in 1..Len(Tail(p)) : Tail(p)[i] = p[i + 1]
      /\ Len(Tail(q)) = Len(q) - 1 /\ \A i \in 1..Len(Tail(q)) : Tail(q)[i] = q[i + 1]
  BY <1>1, HeadTailProperties
<1>3. Len(p) = Len(q)
  <2> DEFINE j == Len(p)
             k == Len(q)
  <2>1. j \in Nat /\ k \in Nat /\ j - 1 = k - 1
    BY Zenon, <1>1, <1>2
  <2> HIDE DEF j, k
  <2>2. j = k
    BY <2>1
  <2>3. QED BY <2>2 DEF j, k
<1>4. ASSUME NEW i \in 1..Len(p) PROVE p[i] = q[i]
  <2>1. CASE i = 1
    <3>1. Head(p) = p[1] /\ Head(q) = q[1]
      BY <1>1
    <3>2. QED BY <2>1, <3>1
  <2>2. CASE i # 1
    <3> DEFINE j == Len(p)
    <3>1. j \in Nat /\ i \in 1..j
      BY <1>1
    <3>2. i - 1 \in 1..(j - 1) /\ (i - 1) + 1 = i
      <4> HIDE DEF j
      <4>1. QED BY <2>2, <3>1
    <3>3. i - 1 \in 1..Len(Tail(p)) /\ (i - 1) + 1 = i
      BY Zenon, <1>2, <3>2
    <3>4. Tail(p)[i - 1] = p[i] /\ Tail(q)[i - 1] = q[i]
      BY <1>2, <3>3
    <3>5. QED BY <3>4
  <2>3. QED BY <2>1, <2>2
<1>5. QED BY <1>1, <1>3, <1>4, SeqEqual

-----------------------------------------------------------------------------
(* The operations, path by path. *)

(* add() changes what stands at the path of the name, and nothing else.    *)
LEMMA AddedAt ==
    \A n \in Name, t \in Trie, p \in Params, q \in Path :
        At(Added[n][t][p], q) = IF q = PathOf(n) THEN p ELSE At(t, q)
<1> DEFINE A == {n \in Name : \A t \in Trie, p \in Params, q \in Path :
                   At(Added[n][t][p], q) = IF q = PathOf(n) THEN p ELSE At(t, q)}
<1>1. ASSUME NEW n \in Name, \A m \in Name : NameRank[m] < NameRank[n] => m \in A PROVE n \in A
  <2>1. SUFFICES ASSUME NEW t \in Trie, NEW p \in Params, NEW q \in Path
                 PROVE  At(Added[n][t][p], q) = IF q = PathOf(n) THEN p ELSE At(t, q)
    OBVIOUS
  <2> DEFINE u == Added[n][t][p]
  <2>2. u \in Trie
    BY AddedEquation
  <2>3. q # <<>> => Head(q) \in Parts /\ Tail(q) \in Path
    BY PathFacts
  <2>4. t.children \in [Parts -> Trie \cup {None}]
    BY TrieShape
  <2>5. CASE n = EmptyName
    <3>1. PathOf(n) = <<>>
      BY <2>5, NameFacts
    <3>2. u = [value |-> p, children |-> t.children]
      BY <2>5, AddedEquation
    <3> HIDE DEF u
    <3>3. CASE q = <<>>
      BY <2>2, <3>1, <3>2, <3>3, AtFacts DEF u
    <3>4. CASE q # <<>>
      <4>1. At(u, q) = At(t, q)
        BY <2>2, <3>2, <3>4, AtFacts
      <4>2. QED BY <3>1, <3>4, <4>1 DEF u
    <3>5. QED BY <3>3, <3>4
  <2>6. CASE n # EmptyName
    <3> DEFINE c == Head(n)
               m == Rest(n)
               y == Added[m][ChildOf(t, c)][p]
    <3>1. /\ c \in Parts /\ m \in Name /\ NameRank[m] < NameRank[n]
          /\ PathOf(n) # <<>> /\ PathOf(n) \in Path /\ Head(PathOf(n)) = c /\ Tail(PathOf(n)) = PathOf(m)
      BY <2>6, NameFacts, NameRankFacts
    <3>2. ChildOf(t, c) \in Trie
      BY <3>1, TrieShape
    <3>3. y \in Trie /\ y # None
      BY <3>1, <3>2, AddedEquation, LevelFacts
    <3>4. u = [value |-> t.value, children |-> [t.children EXCEPT ![c] = y]]
      <4>1. u = IF n = EmptyName THEN [value |-> p, children |-> t.children]
                ELSE [value |-> t.value, children |-> [t.children EXCEPT ![c] = y]]
        BY AddedEquation
      <4>2. QED BY <2>6, <4>1
    <3>5. \A x \in Path : At(y, x) = IF x = PathOf(m) THEN p ELSE At(ChildOf(t, c), x)
      <4>1. m \in A
        BY <1>1, <3>1
      <4>2. QED BY <3>2, <4>1
    <3> HIDE DEF u, y, c, m
    <3>6. CASE q = <<>>
      <4>1. At(u, q) = t.value /\ At(t, q) = t.value
        BY <2>2, <3>4, <3>6, AtFacts
      <4>2. QED BY <3>1, <3>6, <4>1 DEF u
    <3>7. CASE q # <<>> /\ Head(q) = c
      <4>1. u.children[c] = y
        BY <2>4, <3>1, <3>4
      <4>2. At(u, q) = At(y, Tail(q))
        BY <2>2, <3>3, <3>7, <4>1, AtFacts
      <4>3. At(t, q) = At(ChildOf(t, c), Tail(q))
        BY <3>7, ChildAt
      <4>4. q = PathOf(n) <=> Tail(q) = PathOf(m)
        BY <3>1, <3>7, SamePath
      <4>5. QED BY <2>3, <3>5, <3>7, <4>2, <4>3, <4>4 DEF u
    <3>8. CASE q # <<>> /\ Head(q) # c
      <4>1. u.children[Head(q)] = t.children[Head(q)]
        BY <2>3, <2>4, <3>4, <3>8
      <4>2. At(u, q) = At(t, q)
        BY <2>2, <3>8, <4>1, AtFacts
      <4>3. QED BY <3>1, <3>8, <4>2 DEF u
    <3>9. QED BY <3>6, <3>7, <3>8
  <2>7. QED BY <2>5, <2>6
<1> HIDE DEF A
<1>2. Name \subseteq A
  BY <1>1, NameRankFacts, RankInduction
<1>3. QED BY <1>2 DEF A

(* operator= overlays: what the other has, as a copy, on what is there.    *)
LEMMA MergedAt ==
    \A q \in Path, o, t \in Trie :
        At(Merged[o][t], q) = IF At(o, q) # None THEN Clone(At(o, q)) ELSE At(t, q)
<1> DEFINE A == {q \in Path : \A o, t \in Trie :
                   At(Merged[o][t], q) = IF At(o, q) # None THEN Clone(At(o, q)) ELSE At(t, q)}
<1>1. ASSUME NEW q \in Path, \A x \in Path : PathRank[x] < PathRank[q] => x \in A PROVE q \in A
  <2>1. SUFFICES ASSUME NEW o \in Trie, NEW t \in Trie
                 PROVE  At(Merged[o][t], q) = IF At(o, q) # None THEN Clone(At(o, q)) ELSE At(t, q)
    OBVIOUS
  <2> DEFINE u == Merged[o][t]
             ch == [c \in Parts |-> IF o.children[c] = None THEN t.children[c]
                                    ELSE Merged[o.children[c]][ChildOf(t, c)]]
  <2>2. u \in Trie
    BY MergedEquation
  <2>3. u = [value |-> IF o.value = None THEN t.value ELSE Clone(o.value), children |-> ch]
    BY MergedEquation
  <2>4. CASE q = <<>>
    <3>1. At(u, q) = u.value /\ At(o, q) = o.value /\ At(t, q) = t.value
      BY <2>2, <2>4, AtFacts
    <3> HIDE DEF ch
    <3>2. u.value = IF o.value = None THEN t.value ELSE Clone(o.value)
      BY <2>3
    <3>3. QED BY <3>1, <3>2
  <2>5. CASE q # <<>>
    <3> DEFINE c == Head(q)
    <3>1. c \in Parts /\ Tail(q) \in Path /\ Tail(q) \in A
      BY <1>1, <2>5, PathFacts, PathRankFacts
    <3>2. u.children[c] = ch[c]
      <4> HIDE DEF ch, u
      <4>1. QED BY <2>3
    <3>3. CASE o.children[c] = None
      <4>1. u.children[c] = t.children[c]
        BY <3>1, <3>2, <3>3
      <4>2. At(o, q) = None
        BY <2>5, <3>3, AtFacts
      <4>3. At(u, q) = At(t, q)
        <5> HIDE DEF u
        <5>1. QED BY <2>2, <2>5, <4>1, AtFacts
      <4>4. QED BY <4>2, <4>3
    <3>4. CASE o.children[c] # None
      <4> DEFINE p == o.children[c]
                 r == ChildOf(t, c)
                 y == Merged[p][r]
      <4>1. p \in Trie /\ r \in Trie
        BY <3>1, <3>4, TrieShape
      <4>2. y \in Trie /\ y # None
        BY <4>1, MergedEquation, LevelFacts
      <4>3. u.children[c] = y
        BY <3>1, <3>2, <3>4
      <4>4. At(u, q) = At(y, Tail(q))
        <5> HIDE DEF u, y
        <5>1. QED BY <2>2, <2>5, <4>2, <4>3, AtFacts
      <4>5. At(o, q) = At(p, Tail(q)) /\ At(t, q) = At(r, Tail(q))
        BY <2>5, <3>4, AtFacts, ChildAt
      <4>6. At(y, Tail(q)) = IF At(p, Tail(q)) # None THEN Clone(At(p, Tail(q))) ELSE At(r, Tail(q))
        BY <3>1, <4>1
      <4> HIDE DEF u, y, p, r
      <4>7. QED BY <4>4, <4>5, <4>6 DEF u
    <3>5. QED BY <3>3, <3>4
  <2>6. QED BY <2>4, <2>5
<1> HIDE DEF A
<1>2. Path \subseteq A
  BY <1>1, PathRankFacts, RankInduction
<1>3. QED BY <1>2 DEF A

LEMMA ConsFacts ==
    ASSUME NEW c \in Parts, NEW q \in Seq(Parts)
    PROVE  /\ <<c>> \o q \in Seq(Parts) /\ <<c>> \o q # <<>>
           /\ Len(<<c>> \o q) = Len(q) + 1
           /\ Head(<<c>> \o q) = c /\ Tail(<<c>> \o q) = q
<1> DEFINE p == <<c>> \o q
<1>1. <<c>> \in Seq(Parts) /\ Len(<<c>>) = 1 /\ <<c>>[1] = c /\ Len(q) \in Nat
  BY LenProperties
<1>2. /\ p \in Seq(Parts) /\ Len(p) = 1 + Len(q)
      /\ \A i \in 1..(1 + Len(q)) : p[i] = IF i <= 1 THEN <<c>>[i] ELSE q[i - 1]
  BY <1>1, ConcatProperties
<1> HIDE DEF p
<1>3. p # <<>>
  <2>1. Len(p) # 0
    BY <1>1, <1>2
  <2>2. QED BY <2>1, EmptySeq
<1>4. Head(p) = c
  <2>1. 1 \in 1..(1 + Len(q))
    BY <1>1
  <2>2. p[1] = c
    BY <1>1, <1>2, <2>1
  <2>3. QED BY <1>2, <1>3, <2>2
<1>5. Tail(p) = q
  <2>1. /\ Tail(p) \in Seq(Parts) /\ Len(Tail(p)) = Len(p) - 1
        /\ \A i \in 1..Len(Tail(p)) : Tail(p)[i] = p[i + 1]
    BY <1>2, <1>3, HeadTailProperties
  <2> DEFINE k == Len(q)
             r == Tail(p)
  <2>2. k \in Nat /\ Len(p) = 1 + k /\ Len(r) = Len(p) - 1
    BY <1>1, <1>2, <2>1
  <2>3. \A i \in 1..Len(r) : r[i] = p[i + 1]
    BY <2>1
  <2>4. r \in Seq(Parts)
    BY <2>1
  <2> HIDE DEF r
  <2>5. Len(r) = k
    <3> HIDE DEF k
    <3>1. QED BY <2>2
  <2>6. ASSUME NEW i \in 1..k PROVE r[i] = q[i]
    <3> HIDE DEF k
    <3>1. i \in Nat /\ i + 1 \in 1..(1 + k) /\ ~ (i + 1 <= 1) /\ (i + 1) - 1 = i
      BY <2>2
    <3>2. p[i + 1] = q[(i + 1) - 1]
      BY <1>2, <3>1 DEF k
    <3>3. QED BY <2>3, <2>5, <3>1, <3>2
  <2>7. r = q
    BY <2>4, <2>5, <2>6, SeqEqual
  <2>8. QED BY <2>7 DEF r
<1>6. QED BY <1>2, <1>3, <1>4, <1>5, <1>1 DEF p

LEMMA ConcatPath ==
    ASSUME NEW p \in Path, p # <<>>, NEW x \in Path
    PROVE  /\ p = <<Head(p)>> \o Tail(p)
           /\ p \o x = <<Head(p)>> \o (Tail(p) \o x)
           /\ Tail(p) \o x \in Seq(Parts) /\ p \o x \in Seq(Parts) /\ p \o x # <<>>
           /\ Head(p \o x) = Head(p) /\ Tail(p \o x) = Tail(p) \o x
           /\ Len(p \o x) = Len(p) + Len(x) /\ Len(Tail(p) \o x) = Len(Tail(p)) + Len(x)
<1>1. Head(p) \in Parts /\ Tail(p) \in Path /\ p \in Seq(Parts) /\ x \in Seq(Parts)
      /\ Tail(p) \in Seq(Parts) /\ <<Head(p)>> \in Seq(Parts)
      /\ Len(p) \in Nat \ {0} /\ Len(Tail(p)) = Len(p) - 1
  BY PathFacts
<1> DEFINE r == <<Head(p)>> \o Tail(p)
<1>2. /\ r \in Seq(Parts) /\ r # <<>> /\ Len(r) = Len(Tail(p)) + 1
      /\ Head(r) = Head(p) /\ Tail(r) = Tail(p)
  BY <1>1, ConsFacts
<1> HIDE DEF r
<1>3. Len(r) = Len(p)
  BY <1>1, <1>2
<1>4. r \in Path
  BY <1>2, <1>3, PathFacts
<1>5. p = r
  BY <1>2, <1>4, SamePath
<1>6. p \o x = <<Head(p)>> \o (Tail(p) \o x)
  BY <1>1, <1>5, ConcatAssociative DEF r
<1>7. Tail(p) \o x \in Seq(Parts) /\ Len(Tail(p) \o x) = Len(Tail(p)) + Len(x)
      /\ Len(p \o x) = Len(p) + Len(x)
  BY <1>1, ConcatProperties
<1> DEFINE z == Tail(p) \o x
<1>8. /\ <<Head(p)>> \o z \in Seq(Parts) /\ <<Head(p)>> \o z # <<>>
      /\ Head(<<Head(p)>> \o z) = Head(p) /\ Tail(<<Head(p)>> \o z) = z
  <2>1. z \in Seq(Parts)
    BY <1>7
  <2> HIDE DEF z
  <2>2. QED BY <1>1, <2>1, ConsFacts
<1>9. QED BY <1>5, <1>6, <1>7, <1>8 DEF r

(* A part of a trie: fewer levels, and the same parameters.                *)
LEMMA NodeLevel ==
    \A p \in Path, k \in Nat, t \in Trie : t \in Trees[k] /\ NodeAt(t, p) # None =>
        Len(p) < k /\ NodeAt(t, p) \in Trees[k - Len(p)]
<1> DEFINE A == {p \in Path : \A k \in Nat, t \in Trie : t \in Trees[k] /\ NodeAt(t, p) # None =>
                   Len(p) < k /\ NodeAt(t, p) \in Trees[k - Len(p)]}
<1>1. ASSUME NEW p \in Path, \A x \in Path : PathRank[x] < PathRank[p] => x \in A PROVE p \in A
  <2>1. SUFFICES ASSUME NEW k \in Nat, NEW t \in Trie, t \in Trees[k], NodeAt(t, p) # None
                 PROVE  Len(p) < k /\ NodeAt(t, p) \in Trees[k - Len(p)]
    OBVIOUS
  <2>2. k - 1 \in Nat /\ t.children \in [Parts -> Trees[k - 1] \cup {None}]
    BY <2>1, LevelShape
  <2>3. CASE p = <<>>
    <3>1. Len(p) = 0 /\ NodeAt(t, p) = t /\ 0 < k /\ k - 0 = k
      BY <2>2, <2>3, EmptySeq, NodeAtFacts
    <3>2. QED BY <2>1, <3>1
  <2>4. CASE p # <<>>
    <3> DEFINE u == t.children[Head(p)]
               x == Tail(p)
               l == Len(p)
    <3>1. Head(p) \in Parts /\ x \in Path /\ x \in A
      BY <1>1, <2>4, PathFacts, PathRankFacts
    <3>2. l \in Nat /\ Len(x) = l - 1
      BY <2>4, PathFacts
    <3>3. u # None /\ NodeAt(t, p) = NodeAt(u, x)
      BY <2>1, <2>4, NodeAtFacts
    <3>4. u \in Trees[k - 1] /\ u \in Trie
      BY <2>2, <3>1, <3>3, TrieShape
    <3>5. Len(x) < k - 1 /\ NodeAt(u, x) \in Trees[(k - 1) - Len(x)]
      BY <2>1, <2>2, <3>1, <3>3, <3>4
    <3> HIDE DEF u, x, l
    <3>6. l < k /\ (k - 1) - Len(x) = k - l
      BY <2>2, <3>2, <3>5
    <3>7. QED BY <3>3, <3>5, <3>6 DEF l
  <2>5. QED BY <2>3, <2>4
<1> HIDE DEF A
<1>2. Path \subseteq A
  BY <1>1, PathRankFacts, RankInduction
<1>3. QED BY <1>2 DEF A

LEMMA NodeConcat ==
    \A p \in Path, x \in Path, t \in Trie : p \o x \in Path =>
        NodeAt(t, p \o x) = IF NodeAt(t, p) = None THEN None ELSE NodeAt(NodeAt(t, p), x)
<1> DEFINE A == {p \in Path : \A x \in Path, t \in Trie : p \o x \in Path =>
                   NodeAt(t, p \o x) = IF NodeAt(t, p) = None THEN None ELSE NodeAt(NodeAt(t, p), x)}
<1>1. ASSUME NEW p \in Path, \A q \in Path : PathRank[q] < PathRank[p] => q \in A PROVE p \in A
  <2>1. SUFFICES ASSUME NEW x \in Path, NEW t \in Trie, p \o x \in Path
                 PROVE  NodeAt(t, p \o x) = IF NodeAt(t, p) = None THEN None ELSE NodeAt(NodeAt(t, p), x)
    OBVIOUS
  <2>2. CASE p = <<>>
    <3>1. x \in Seq(Parts)
      BY PathFacts
    <3>2. p \o x = x
      BY <2>2, <3>1, ConcatEmptySeq
    <3>3. NodeAt(t, p) = t /\ t # None
      BY <2>2, NodeAtFacts, LevelFacts
    <3>4. QED BY <3>2, <3>3
  <2>3. CASE p # <<>>
    <3> DEFINE u == t.children[Head(p)]
               q == Tail(p)
               r == p \o x
    <3>1. Head(p) \in Parts /\ q \in Path /\ q \in A
      BY <1>1, <2>3, PathFacts, PathRankFacts
    <3>2. Head(r) = Head(p) /\ Tail(r) = q \o x /\ r # <<>>
      BY <2>3, ConcatPath
    <3>3. r \in Path
      BY <2>1
    <3>4. NodeAt(t, p) = IF u = None THEN None ELSE NodeAt(u, q)
      BY <2>3, NodeAtFacts
    <3> HIDE DEF r
    <3>5. NodeAt(t, r) = IF u = None THEN None ELSE NodeAt(u, q \o x)
      <4>1. NodeAt(t, r) = IF t.children[Head(r)] = None THEN None
                           ELSE NodeAt(t.children[Head(r)], Tail(r))
        BY <3>2, <3>3, NodeAtFacts
      <4>2. QED BY <3>2, <4>1
    <3>6. q \o x \in Path
      BY <3>2, <3>3, PathFacts
    <3>7. u # None => u \in Trie
      BY <3>1, TrieShape
    <3>8. u # None => NodeAt(u, q \o x) = IF NodeAt(u, q) = None THEN None ELSE NodeAt(NodeAt(u, q), x)
      BY <3>1, <3>6, <3>7
    <3> HIDE DEF u, q
    <3>9. QED BY <3>4, <3>5, <3>8 DEF r
  <2>4. QED BY <2>2, <2>3
<1> HIDE DEF A
<1>2. Path \subseteq A
  BY <1>1, PathRankFacts, RankInduction
<1>3. QED BY <1>2 DEF A

LEMMA PartAt ==
    ASSUME NEW t \in Trie, NEW p \in Path, NodeAt(t, p) # None, NEW x \in Path
    PROVE  At(NodeAt(t, p), x) = IF p \o x \in Path THEN At(t, p \o x) ELSE None
<1> DEFINE part == NodeAt(t, p)
<1>1. part \in Trie
  BY NodeAtFacts
<1>2. CASE p \o x \in Path
  <2> DEFINE r == p \o x
  <2>1. NodeAt(t, r) = NodeAt(part, x)
    BY <1>2, NodeConcat
  <2>2. At(t, r) = IF NodeAt(t, r) = None THEN None ELSE NodeAt(t, r).value
    <3> HIDE DEF r
    <3>1. r \in Path
      BY <1>2 DEF r
    <3>2. QED BY <3>1, AtFacts
  <2>3. At(part, x) = IF NodeAt(part, x) = None THEN None ELSE NodeAt(part, x).value
    <3> HIDE DEF part
    <3>1. QED BY <1>1, AtFacts
  <2>4. QED BY <1>2, <2>1, <2>2, <2>3
<1>3. CASE p \o x \notin Path
  <2>1. p \in Seq(Parts) /\ x \in Seq(Parts) /\ Len(p) \in Nat /\ Len(x) \in Nat
    BY PathFacts, LenProperties
  <2>2. p \o x \in Seq(Parts) /\ Len(p \o x) = Len(p) + Len(x)
    BY <2>1, ConcatProperties
  <2>3. ~ (Len(p) + Len(x) <= MaxParts)
    BY <1>3, <2>2, PathFacts
  <2> DEFINE k == MaxParts + 1
  <2>4. Len(p) < k /\ part \in Trees[k - Len(p)] /\ k \in Nat
    BY LevelFacts, NodeLevel
  <2>5. k - Len(p) \in Nat /\ ~ (Len(x) < k - Len(p))
    <3>1. MaxParts \in Nat
      BY LevelFacts
    <3>2. QED BY <2>1, <2>3, <2>4, <3>1
  <2>6. NodeAt(part, x) = None
    <3> HIDE DEF part, k
    <3>1. QED BY <1>1, <2>4, <2>5, NodeLevel
  <2>7. At(part, x) = None
    <3> HIDE DEF part
    <3>1. QED BY <1>1, <2>6, AtFacts
  <2>8. QED BY <1>3, <2>7
<1>4. QED BY <1>2, <1>3
-----------------------------------------------------------------------------
(* What all() and visit() meet. *)

LEMMA VisitedAreThere ==
    \A t \in Trie, name \in Seq(Parts) : \A v :
        v \in Visited[t][name] => v[2] # None /\ \E q \in Path : v[2] = At(t, q)
<1> DEFINE A == {k \in Nat : k <= MaxParts + 1 =>
                   \A t \in Trees[k], name \in Seq(Parts) : \A v : v \in Visited[t][name] =>
                       v[2] # None /\ \E q \in Path : Len(q) < k /\ v[2] = At(t, q)}
<1>1. 0 \in A
  BY TreesDef
<1>2. ASSUME NEW k \in Nat, k \in A PROVE k + 1 \in A
  <2>1. SUFFICES ASSUME k + 1 <= MaxParts + 1, NEW t \in Trees[k + 1], NEW name \in Seq(Parts),
                        NEW v, v \in Visited[t][name]
                 PROVE  v[2] # None /\ \E q \in Path : Len(q) < k + 1 /\ v[2] = At(t, q)
    OBVIOUS
  <2>2. MaxParts \in Nat /\ k + 1 \in Nat /\ k <= MaxParts + 1 /\ k <= MaxParts
    BY <2>1, LevelFacts
  <2>3. t \in Trie /\ (k + 1) - 1 = k
    BY <2>1, <2>2, LevelFacts
  <2>4. t.children \in [Parts -> Trees[k] \cup {None}]
    BY <2>2, <2>3, LevelShape
  <2>5. CASE t.value # None /\ v = <<name, t.value>>
    <3>1. <<>> \in Path /\ Len(<<>>) < k + 1 /\ At(t, <<>>) = t.value
      BY <2>2, <2>3, PathFacts, AtFacts
    <3>2. v[2] = t.value
      BY <2>5
    <3>3. QED BY <2>5, <3>1, <3>2
  <2>6. CASE \E c \in Parts : t.children[c] # None /\ v \in Visited[t.children[c]][Named(name, c)]
    <3>1. PICK c \in Parts : t.children[c] # None /\ v \in Visited[t.children[c]][Named(name, c)]
      BY <2>6
    <3> DEFINE u == t.children[c]
    <3>2. u \in Trees[k] /\ Named(name, c) \in Seq(Parts)
      BY <2>4, <3>1, NamedType
    <3>3. v[2] # None /\ \E q \in Path : Len(q) < k /\ v[2] = At(u, q)
      BY <1>2, <2>2, <3>1, <3>2
    <3>4. PICK q \in Path : Len(q) < k /\ v[2] = At(u, q)
      BY <3>3
    <3> DEFINE p == <<c>> \o q
    <3>5. q \in Seq(Parts) /\ Len(q) \in Nat
      BY PathFacts, LenProperties
    <3>6. p \in Seq(Parts) /\ p # <<>> /\ Len(p) = Len(q) + 1 /\ Head(p) = c /\ Tail(p) = q
      BY <3>5, ConsFacts
    <3> HIDE DEF p
    <3>7. p \in Path /\ Len(p) < k + 1
      <4>1. Len(p) <= MaxParts /\ Len(p) < k + 1
        BY <2>2, <3>4, <3>5, <3>6
      <4>2. QED BY <3>6, <4>1, PathFacts
    <3>8. At(t, p) = At(u, q)
      <4>1. At(t, p) = IF t.children[Head(p)] = None THEN None ELSE At(t.children[Head(p)], Tail(p))
        BY <2>3, <3>6, <3>7, AtFacts
      <4>2. QED BY <3>1, <3>6, <4>1
    <3>9. QED BY <3>3, <3>4, <3>7, <3>8
  <2>7. QED BY <2>1, <2>3, <2>5, <2>6, VisitedEquation
<1> HIDE DEF A
<1>3. Nat \subseteq A
  BY <1>1, <1>2, Induction
<1>4. MaxParts + 1 \in A
  BY <1>3, LevelFacts
<1>5. QED BY <1>4, LevelFacts DEF A

(* The name that visit() makes up on the way from a node called name.      *)
NameFrom(name, q) == IF name = EmptyName /\ q # <<>> THEN q ELSE name \o q

LEMMA AllAreVisited ==
    \A q \in Path, t \in Trie, name \in Seq(Parts) : At(t, q) # None =>
        /\ \E v \in Visited[t][name] : v[2] = At(t, q)
        /\ (\A i \in 1..Len(q) : q[i] # Blank) => <<NameFrom(name, q), At(t, q)>> \in Visited[t][name]
<1> DEFINE A == {q \in Path : \A t \in Trie, name \in Seq(Parts) : At(t, q) # None =>
                   /\ \E v \in Visited[t][name] : v[2] = At(t, q)
                   /\ (\A i \in 1..Len(q) : q[i] # Blank) =>
                          <<NameFrom(name, q), At(t, q)>> \in Visited[t][name]}
<1>1. ASSUME NEW q \in Path, \A x \in Path : PathRank[x] < PathRank[q] => x \in A PROVE q \in A
  <2>1. SUFFICES ASSUME NEW t \in Trie, NEW name \in Seq(Parts), At(t, q) # None
                 PROVE  /\ \E v \in Visited[t][name] : v[2] = At(t, q)
                        /\ (\A i \in 1..Len(q) : q[i] # Blank) =>
                               <<NameFrom(name, q), At(t, q)>> \in Visited[t][name]
    OBVIOUS
  <2>2. CASE q = <<>>
    <3>1. At(t, q) = t.value
      BY <2>2, AtFacts
    <3>2. <<name, t.value>> \in Visited[t][name]
      BY <2>1, <3>1, VisitedEquation
    <3>3. NameFrom(name, q) = name
      BY <2>2, ConcatEmptySeq DEF NameFrom
    <3>4. <<name, t.value>>[2] = t.value
      OBVIOUS
    <3>5. QED BY <3>1, <3>2, <3>3, <3>4
  <2>3. CASE q # <<>>
    <3> DEFINE c == Head(q)
               x == Tail(q)
               u == t.children[c]
               new == Named(name, c)
    <3>1. c \in Parts /\ x \in Path /\ x \in A
      BY <1>1, <2>3, PathFacts, PathRankFacts
    <3>2. u # None /\ At(t, q) = At(u, x)
      BY <2>1, <2>3, AtFacts
    <3>3. u \in Trie
      BY <3>1, <3>2, TrieShape
    <3>4. new \in Seq(Parts)
      BY <3>1, NamedType
    <3>5. /\ \E v \in Visited[u][new] : v[2] = At(u, x)
          /\ (\A i \in 1..Len(x) : x[i] # Blank) => <<NameFrom(new, x), At(u, x)>> \in Visited[u][new]
      <4> HIDE DEF c, x, u, new
      <4>1. QED BY <2>1, <3>1, <3>2, <3>3, <3>4
    <3>6. \A v : v \in Visited[u][new] => v \in Visited[t][name]
      BY <3>1, <3>2, VisitedEquation
    <3>7. ASSUME \A i \in 1..Len(q) : q[i] # Blank
          PROVE  (\A i \in 1..Len(x) : x[i] # Blank) /\ NameFrom(new, x) = NameFrom(name, q)
      <4>1. /\ q \in Seq(Parts) /\ x \in Seq(Parts) /\ Len(q) \in Nat \ {0}
            /\ Len(x) = Len(q) - 1 /\ \A i \in 1..Len(x) : x[i] = q[i + 1]
        BY <2>3, <3>1, PathFacts, HeadTailProperties
      <4>2. c # Blank
        <5>1. c = q[1] /\ 1 \in 1..Len(q)
          BY <2>3, <4>1
        <5>2. QED BY <3>7, <5>1
      <4>3. ASSUME NEW i \in 1..Len(x) PROVE x[i] # Blank
        <5> DEFINE l == Len(q)
        <5>1. l \in Nat /\ i \in 1..(l - 1)
          BY Zenon, <4>1
        <5>2. i + 1 \in 1..l
          <6> HIDE DEF l
          <6>1. QED BY <5>1
        <5>3. QED BY <3>7, <4>1, <5>2
      <4>4. q = <<c>> \o x
        BY <2>3, ConcatPath
      <4>5. CASE name = EmptyName
        <5>1. new = <<c>> /\ new # EmptyName
          <6>1. new = <<c>>
            BY <4>5 DEF Named
          <6>2. <<c>>[1] = c /\ EmptyName[1] = Blank
            BY DEF EmptyName
          <6> HIDE DEF c, new
          <6>3. QED BY <4>2, <6>1, <6>2
        <5>2. NameFrom(new, x) = <<c>> \o x
          BY <5>1 DEF NameFrom
        <5>3. NameFrom(name, q) = q
          BY <2>3, <4>5 DEF NameFrom
        <5>4. QED BY <4>3, <4>4, <5>2, <5>3
      <4>6. CASE name # EmptyName
        <5>1. new = Append(name, c) /\ new = name \o <<c>>
          BY <3>1, <4>6, AppendIsConcat DEF Named
        <5>2. new # EmptyName
          <6>1. new[Len(name) + 1] = c /\ Len(new) = Len(name) + 1 /\ Len(name) \in Nat
            BY <3>1, <5>1, AppendProperties, LenProperties
          <6>2. EmptyName[1] = Blank /\ Len(EmptyName) = 1
            BY DEF EmptyName
          <6> HIDE DEF c, new
          <6>3. ASSUME new = EmptyName PROVE FALSE
            <7>1. Len(name) + 1 = 1
              BY <6>1, <6>2, <6>3
            <7>2. QED BY <4>2, <6>1, <6>2, <6>3, <7>1
          <6>4. QED BY <6>3
        <5>3. NameFrom(new, x) = new \o x
          BY <5>2 DEF NameFrom
        <5>4. NameFrom(name, q) = name \o q
          BY <4>6 DEF NameFrom
        <5>5. <<c>> \in Seq(Parts)
          BY <3>1
        <5> HIDE DEF c, x, new
        <5>6. name \o q = (name \o <<c>>) \o x
          BY <4>1, <4>4, <5>5, ConcatAssociative
        <5>7. QED BY <4>3, <5>1, <5>3, <5>4, <5>6
      <4>7. QED BY <4>5, <4>6
    <3> HIDE DEF c, x, u, new
    <3>8. \E v \in Visited[t][name] : v[2] = At(t, q)
      BY <3>2, <3>5, <3>6
    <3>9. (\A i \in 1..Len(q) : q[i] # Blank) => <<NameFrom(name, q), At(t, q)>> \in Visited[t][name]
      BY <3>2, <3>5, <3>6, <3>7
    <3>10. QED BY <3>8, <3>9
  <2>4. QED BY <2>2, <2>3
<1> HIDE DEF A
<1>2. Path \subseteq A
  BY <1>1, PathRankFacts, RankInduction
<1>3. QED BY <1>2 DEF A

-----------------------------------------------------------------------------
(* Types. *)

(* What the calls put into an object is a trie. *)
LEMMA CallTypes ==
    ASSUME TypeOK
    PROVE  /\ \A o \in Objects, n \in Name, p \in Params : AddGeneric(trie[o], n, p) \in Trie
           /\ \A o \in Objects, n \in Name : Find(trie[o], n) \in Params \cup {None}
           /\ \A from, to \in Objects : Assigned(trie[to], trie[from]) \in Trie
           /\ \A from \in Objects, n \in Name : GetSubtrie(trie[from], n) # None =>
                  Assigned(EmptyTrie, GetSubtrie(trie[from], n)) \in Trie
<1>1. \A o \in Objects : trie[o] \in Trie
  BY DEF TypeOK
<1>2. EmptyTrie \in Trie
  BY PathFacts, EmptyTrieAt
<1>3. \A o \in Objects, n \in Name, p \in Params : AddGeneric(trie[o], n, p) \in Trie
  BY <1>1, AddedEquation DEF AddGeneric
<1>4. \A o \in Objects, n \in Name : Find(trie[o], n) \in Params \cup {None}
  BY <1>1, FindFacts
<1>5. \A from, to \in Objects : Assigned(trie[to], trie[from]) \in Trie
  BY <1>1, MergedEquation DEF Assigned
<1>6. \A from \in Objects, n \in Name : GetSubtrie(trie[from], n) # None =>
          Assigned(EmptyTrie, GetSubtrie(trie[from], n)) \in Trie
  <2>1. SUFFICES ASSUME NEW from \in Objects, NEW n \in Name, GetSubtrie(trie[from], n) # None
                 PROVE  Assigned(EmptyTrie, GetSubtrie(trie[from], n)) \in Trie
    OBVIOUS
  <2>2. GetSubtrie(trie[from], n) \in Trie
    BY <1>1, <2>1, SubEquation DEF GetSubtrie
  <2>3. QED BY <1>2, <2>2, MergedEquation DEF Assigned
<1>7. QED BY <1>3, <1>4, <1>5, <1>6

(* Every call that is about one parameter is an AddGeneric() of it.        *)
LEMMA OneParameter ==
    ASSUME TypeOK, NEW o \in Objects, NEW name \in Names,
           \/ \E v \in Value : Add(o, name, v) \/ \E ok \in BOOLEAN : SetValue(o, name, v, ok)
           \/ AddUnset(o, name) \/ Validator(o, name)
           \/ \E new \in BOOLEAN : HasValue(o, name, new)
    PROVE  name \in Name /\ \E p \in Params : Becomes(o, AddGeneric(trie[o], name, p))
<1>1. name \in Name /\ Default \in Value
  BY ParametersAssumption
<1>2. Find(trie[o], name) # None => Find(trie[o], name) \in Params
  BY <1>1, CallTypes
<1> DEFINE f == Find(trie[o], name)
<1>3. ASSUME NEW v \in Value, Add(o, name, v)
      PROVE  \E p \in Params : Becomes(o, AddGeneric(trie[o], name, p))
  <2>1. [has |-> TRUE, value |-> v, validated |-> FALSE] \in Params
    BY DEF Params
  <2>2. QED BY <1>3, <2>1 DEF Add
<1>4. ASSUME AddUnset(o, name)
      PROVE  \E p \in Params : Becomes(o, AddGeneric(trie[o], name, p))
  <2>1. [has |-> FALSE, value |-> Default, validated |-> FALSE] \in Params
    BY <1>1 DEF Params
  <2>2. QED BY <1>4, <2>1 DEF AddUnset
<1>5. ASSUME Validator(o, name)
      PROVE  \E p \in Params : Becomes(o, AddGeneric(trie[o], name, p))
  <2>1. f # None /\ Becomes(o, AddGeneric(trie[o], name, [f EXCEPT !.validated = TRUE]))
    BY <1>5 DEF Validator, Modify
  <2>2. [f EXCEPT !.validated = TRUE] \in Params
    BY <1>2, <2>1 DEF Params
  <2>3. QED BY <2>1, <2>2
<1>6. ASSUME NEW v \in Value, NEW ok \in BOOLEAN, SetValue(o, name, v, ok)
      PROVE  \E p \in Params : Becomes(o, AddGeneric(trie[o], name, p))
  <2>1. f # None /\ Becomes(o, AddGeneric(trie[o], name, [f EXCEPT !.value = v, !.has = @ \/ ok]))
    BY <1>6 DEF SetValue, Modify
  <2>2. [f EXCEPT !.value = v, !.has = @ \/ ok] \in Params
    <3> HIDE DEF f
    <3>1. f \in Params
      BY <1>2, <2>1 DEF f
    <3>2. f.has \in BOOLEAN /\ (f.has \/ ok) \in BOOLEAN
      BY <3>1 DEF Params
    <3>3. QED BY <3>1, <3>2 DEF Params
  <2>3. QED BY <2>1, <2>2
<1>7. ASSUME NEW new \in BOOLEAN, HasValue(o, name, new)
      PROVE  \E p \in Params : Becomes(o, AddGeneric(trie[o], name, p))
  <2>1. f # None /\ Becomes(o, AddGeneric(trie[o], name, [f EXCEPT !.has = new]))
    BY <1>7 DEF HasValue, Modify
  <2>2. [f EXCEPT !.has = new] \in Params
    BY <1>2, <2>1 DEF Params
  <2>3. QED BY <2>1, <2>2
<1>8. QED BY <1>1, <1>3, <1>4, <1>5, <1>6, <1>7

(* One step: a parameter changes, or an object or a part of one is copied. *)
LEMMA EveryStep ==
    ASSUME TypeOK, Next
    PROVE  \/ \E o \in Objects, n \in Name, p \in Params : Becomes(o, AddGeneric(trie[o], n, p))
           \/ \E from, to \in Objects : Assign(from, to)
           \/ \E from, to \in Objects, n \in Name : GetSubtree(from, n, to)
<1>1. Names \subseteq Name
  BY ParametersAssumption
<1>2. CASE \E o \in Objects, name \in Names :
             \/ \E v \in Value : Add(o, name, v) \/ \E ok \in BOOLEAN : SetValue(o, name, v, ok)
             \/ AddUnset(o, name) \/ Validator(o, name)
             \/ \E new \in BOOLEAN : HasValue(o, name, new)
  BY <1>2, OneParameter
<1>3. CASE \E from, to \in Objects : Assign(from, to) \/ \E name \in Names : GetSubtree(from, name, to)
  BY <1>1, <1>3
<1>4. QED BY <1>2, <1>3 DEF Next

LEMMA TypeStep == ASSUME TypeOK, [Next]_vars PROVE TypeOK'
<1>1. ASSUME NEW o \in Objects, NEW t \in Trie, Becomes(o, t) PROVE TypeOK'
  <2>1. calls' \in 0..MaxCalls
    <3>1. MaxCalls \in Nat
      BY ParametersAssumption
    <3>2. QED BY <1>1, <3>1 DEF Becomes, TypeOK
  <2>2. trie' \in [Objects -> Trie]
    BY <1>1 DEF Becomes, TypeOK
  <2>3. QED BY <2>1, <2>2 DEF TypeOK
<1>2. ASSUME NEW o \in Objects, NEW n \in Name, NEW p \in Params, Becomes(o, AddGeneric(trie[o], n, p))
      PROVE  TypeOK'
  BY <1>1, <1>2, CallTypes
<1>3. ASSUME NEW from \in Objects, NEW to \in Objects, Assign(from, to) PROVE TypeOK'
  BY <1>1, <1>3, CallTypes DEF Assign
<1>4. ASSUME NEW from \in Objects, NEW to \in Objects, NEW n \in Name, GetSubtree(from, n, to)
      PROVE  TypeOK'
  <2>1. GetSubtrie(trie[from], n) # None
        /\ Becomes(to, Assigned(EmptyTrie, GetSubtrie(trie[from], n)))
    BY <1>4 DEF GetSubtree
  <2>2. QED BY <1>1, <2>1, CallTypes
<1>5. CASE UNCHANGED vars
  BY <1>5 DEF vars, TypeOK
<1>6. QED BY <1>2, <1>3, <1>4, <1>5, EveryStep

(* Every object is a trie of its declared shape, never deeper than the     *)
(* names allow.                                                            *)
THEOREM ParametersTypeCorrect == Spec => []TypeOK
<1>1. Init => TypeOK
  <2>1. EmptyTrie \in Trie /\ MaxCalls \in Nat
    BY PathFacts, EmptyTrieAt, ParametersAssumption
  <2>2. QED BY <2>1 DEF Init, TypeOK
<1>2. TypeOK /\ [Next]_vars => TypeOK'
  BY TypeStep
<1>3. QED BY <1>1, <1>2, PTL DEF Spec

-----------------------------------------------------------------------------
(* The trie as a map. *)

LEMMA MapFacts ==
    ASSUME NEW t \in Trie
    PROVE  /\ MapOf(t) = [x \in {y \in Path : At(t, y) # None} |-> At(t, x)]
           /\ \A x : x \in DOMAIN MapOf(t) <=> x \in Path /\ At(t, x) # None
           /\ \A x \in DOMAIN MapOf(t) : MapOf(t)[x] = At(t, x)
<1> DEFINE at == [x \in Path |-> At(t, x)]
<1>1. MapOf(t) = [x \in {y \in Path : at[y] # None} |-> at[x]]
  BY DEF MapOf
<1>2. {y \in Path : at[y] # None} = {y \in Path : At(t, y) # None}
  OBVIOUS
<1>3. \A x \in {y \in Path : At(t, y) # None} : at[x] = At(t, x)
  OBVIOUS
<1>4. MapOf(t) = [x \in {y \in Path : At(t, y) # None} |-> At(t, x)]
  <2> HIDE DEF at
  <2>1. QED BY <1>1, <1>2, <1>3
<1>5. QED BY <1>4

LEMMA SameMap ==
    ASSUME NEW t \in Trie, NEW D, NEW f, f = [x \in D |-> f[x]],
           \A x : x \in D <=> x \in Path /\ At(t, x) # None,
           \A x \in D : f[x] = At(t, x)
    PROVE  MapOf(t) = f
<1>1. D = {y \in Path : At(t, y) # None}
  OBVIOUS
<1>2. QED BY <1>1, MapFacts

(* find(), check() and visit() agree with the map. *)
LEMMA ReadersAgree ==
    ASSUME NEW t \in Trie
    PROVE  /\ \A n \in Name :
                  Find(t, n) = IF PathOf(n) \in DOMAIN MapOf(t) THEN MapOf(t)[PathOf(n)] ELSE None
           /\ AllValid(t) = \A x \in DOMAIN MapOf(t) : Valid(MapOf(t)[x])
           /\ {shown[2] : shown \in Visit(t)} = {Shown(MapOf(t)[x]) : x \in DOMAIN MapOf(t)}
           /\ \A x \in DOMAIN MapOf(t) : Blank \notin ToSet(x) =>
                  <<IF x = <<>> THEN EmptyName ELSE x, Shown(MapOf(t)[x])>> \in Visit(t)
<1> DEFINE map == MapOf(t)
           all == Visited[t][EmptyName]
<1>1. \A x : x \in DOMAIN map <=> x \in Path /\ At(t, x) # None
  BY MapFacts
<1>2. \A x \in DOMAIN map : map[x] = At(t, x)
  BY MapFacts
<1>3. EmptyName \in Seq(Parts)
  BY LevelFacts DEF EmptyName
<1>4. ASSUME NEW v \in all PROVE \E x \in DOMAIN map : v[2] = map[x]
  <2>1. v[2] # None /\ \E q \in Path : v[2] = At(t, q)
    BY <1>3, VisitedAreThere
  <2> HIDE DEF map
  <2>2. QED BY <1>1, <1>2, <2>1
<1>5. ASSUME NEW x \in DOMAIN map
      PROVE  /\ \E v \in all : v[2] = map[x]
             /\ Blank \notin ToSet(x) => <<IF x = <<>> THEN EmptyName ELSE x, map[x]>> \in all
  <2>1. x \in Path /\ At(t, x) # None /\ map[x] = At(t, x)
    BY <1>1, <1>2
  <2>2. x \in Seq(Parts)
    BY <2>1, PathFacts
  <2>3. \E v \in all : v[2] = map[x]
    BY <1>3, <2>1, AllAreVisited
  <2>4. ASSUME Blank \notin ToSet(x)
        PROVE  <<IF x = <<>> THEN EmptyName ELSE x, map[x]>> \in all
    <3>1. \A i \in 1..Len(x) : x[i] # Blank
      <4>1. DOMAIN x = 1..Len(x)
        BY <2>2, LenProperties
      <4>2. QED BY <2>4, <4>1 DEF ToSet
    <3>2. <<NameFrom(EmptyName, x), At(t, x)>> \in all
      BY <1>3, <2>1, <3>1, AllAreVisited
    <3>3. NameFrom(EmptyName, x) = IF x = <<>> THEN EmptyName ELSE x
      <4>1. EmptyName \o <<>> = EmptyName
        BY <1>3, ConcatEmptySeq
      <4>2. QED BY <4>1 DEF NameFrom
    <3>4. QED BY <2>1, <3>2, <3>3
  <2>5. QED BY <2>3, <2>4
<1> HIDE DEF map, all
<1>6. ASSUME NEW n \in Name
      PROVE  Find(t, n) = IF PathOf(n) \in DOMAIN map THEN map[PathOf(n)] ELSE None
  <2>1. Find(t, n) = At(t, PathOf(n)) /\ PathOf(n) \in Path
    BY FindFacts, NameFacts
  <2>2. QED BY <1>1, <1>2, <2>1
<1>7. AllValid(t) = \A x \in DOMAIN map : Valid(map[x])
  <2>1. AllValid(t) = \A v \in all : Valid(v[2])
    BY DEF AllValid, all
  <2>2. (\A v \in all : Valid(v[2])) <=> \A x \in DOMAIN map : Valid(map[x])
    BY <1>4, <1>5
  <2>3. QED BY <2>1, <2>2
<1>8. Visit(t) = {<<v[1], Shown(v[2])>> : v \in all}
  BY DEF Visit, all
<1>9. {shown[2] : shown \in Visit(t)} = {Shown(map[x]) : x \in DOMAIN map}
  <2>1. ASSUME NEW shown \in Visit(t) PROVE \E x \in DOMAIN map : shown[2] = Shown(map[x])
    <3>1. PICK v \in all : shown = <<v[1], Shown(v[2])>>
      BY <1>8
    <3>2. PICK x \in DOMAIN map : v[2] = map[x]
      BY <1>4
    <3>3. shown[2] = Shown(map[x])
      BY <3>1, <3>2
    <3>4. QED BY <3>3
  <2>2. ASSUME NEW x \in DOMAIN map PROVE \E shown \in Visit(t) : shown[2] = Shown(map[x])
    <3>1. PICK v \in all : v[2] = map[x]
      BY <1>5
    <3>2. <<v[1], Shown(v[2])>> \in Visit(t) /\ <<v[1], Shown(v[2])>>[2] = Shown(map[x])
      BY <1>8, <3>1
    <3>3. QED BY <3>2
  <2>3. QED BY <2>1, <2>2
<1>10. ASSUME NEW x \in DOMAIN map, Blank \notin ToSet(x)
       PROVE  <<IF x = <<>> THEN EmptyName ELSE x, Shown(map[x])>> \in Visit(t)
  <2> DEFINE name == IF x = <<>> THEN EmptyName ELSE x
  <2>1. <<name, map[x]>> \in all
    BY <1>5, <1>10
  <2> HIDE DEF name
  <2>2. <<name, Shown(map[x])>> \in Visit(t)
    BY <1>8, <2>1
  <2>3. QED BY <2>2 DEF name
<1>11. QED BY <1>6, <1>7, <1>9, <1>10 DEF map

(* What find() answers for any spelling of a name, what check() makes of   *)
(* all parameters and what visit() shows, with which name, is what the     *)
(* calls so far have put into the map.                                     *)
THEOREM ReadsAgreeAlways == Spec => []ReadsAgree
<1>1. TypeOK => ReadsAgree
  <2>1. SUFFICES ASSUME TypeOK, NEW o \in Objects
                 PROVE  LET map == MapOf(trie[o]) IN
            /\ \A n \in Name :
                Find(trie[o], n) = IF PathOf(n) \in DOMAIN map THEN map[PathOf(n)] ELSE None
            /\ AllValid(trie[o]) = \A x \in DOMAIN map : Valid(map[x])
            /\ {shown[2] : shown \in Visit(trie[o])} = {Shown(map[x]) : x \in DOMAIN map}
            /\ \A x \in DOMAIN map : Blank \notin ToSet(x) =>
                <<IF x = <<>> THEN EmptyName ELSE x, Shown(map[x])>> \in Visit(trie[o])
    BY DEF ReadsAgree
  <2>2. trie[o] \in Trie
    BY <2>1 DEF TypeOK
  <2> DEFINE t == trie[o]
  <2> HIDE DEF t
  <2>3. t \in Trie
    BY <2>2 DEF t
  <2>4. /\ \A n \in Name :
               Find(t, n) = IF PathOf(n) \in DOMAIN MapOf(t) THEN MapOf(t)[PathOf(n)] ELSE None
        /\ AllValid(t) = \A x \in DOMAIN MapOf(t) : Valid(MapOf(t)[x])
        /\ {shown[2] : shown \in Visit(t)} = {Shown(MapOf(t)[x]) : x \in DOMAIN MapOf(t)}
        /\ \A x \in DOMAIN MapOf(t) : Blank \notin ToSet(x) =>
               <<IF x = <<>> THEN EmptyName ELSE x, Shown(MapOf(t)[x])>> \in Visit(t)
    BY <2>3, ReadersAgree
  <2>5. QED BY <2>4 DEF t
<1>2. QED BY <1>1, ParametersTypeCorrect, PTL

-----------------------------------------------------------------------------
(* The refinement, call by call. *)

LEMMA ChangeRefines ==
    ASSUME TypeOK, NEW o \in Objects, NEW n \in Name, NEW p \in Params,
           Becomes(o, AddGeneric(trie[o], n, p))
    PROVE  PM!Set(o, PathOf(n), p)
<1> DEFINE t == trie[o]
           u == Added[n][t][p]
           path == PathOf(n)
           f == MapOf(t)
           g == [z \in DOMAIN f \cup {path} |-> IF z = path THEN p ELSE f[z]]
           map == [x \in Objects |-> MapOf(trie[x])]
           new == [x \in Objects |-> MapOf(trie'[x])]
<1>1. t \in Trie /\ u \in Trie /\ path \in Path /\ p # None
  BY AddedEquation, NameFacts, LevelFacts DEF TypeOK
<1>2. trie' = [trie EXCEPT ![o] = u] /\ trie \in [Objects -> Trie]
  BY DEF Becomes, AddGeneric, TypeOK
<1>3. \A q \in Path : At(u, q) = IF q = path THEN p ELSE At(t, q)
  <2>1. \A q \in Path : At(Added[n][t][p], q) = IF q = PathOf(n) THEN p ELSE At(t, q)
    BY <1>1, AddedAt
  <2>2. QED BY <2>1
<1>4. MapOf(u) = g
  <2>1. /\ \A x : x \in DOMAIN f <=> x \in Path /\ At(t, x) # None
        /\ \A x \in DOMAIN f : f[x] = At(t, x)
    BY <1>1, MapFacts
  <2> HIDE DEF f, u, t, path
  <2>2. g = [z \in DOMAIN f \cup {path} |-> g[z]]
    OBVIOUS
  <2>3. \A x : x \in DOMAIN f \cup {path} <=> x \in Path /\ At(u, x) # None
    BY <1>1, <1>3, <2>1
  <2>4. \A x \in DOMAIN f \cup {path} : g[x] = At(u, x)
    BY <1>1, <1>3, <2>1
  <2> HIDE DEF g
  <2>5. QED BY <1>1, <2>2, <2>3, <2>4, SameMap
<1> HIDE DEF u, f
<1>5. new[o] = g /\ \A x \in Objects : x # o => new[x] = map[x]
  BY <1>2, <1>4
<1>6. path \in DOMAIN g /\ g[path] = p
  OBVIOUS
<1> HIDE DEF g
<1>7. new = [map EXCEPT ![o] = g]
  <2>1. \A x \in Objects : new[x] = [map EXCEPT ![o] = g][x]
    BY <1>5
  <2>2. new = [x \in Objects |-> new[x]]
    OBVIOUS
  <2>3. [map EXCEPT ![o] = g] = [x \in Objects |-> [map EXCEPT ![o] = g][x]]
    OBVIOUS
  <2> HIDE DEF new, map
  <2>4. QED BY <2>1, <2>2, <2>3
<1>8. map[o] = f
  BY DEF f
<1>9. g = PM!Put(map[o], path, p)
  BY <1>8 DEF PM!Put, g
<1>10. new = [map EXCEPT ![o] = PM!Put(map[o], path, p)]
  <2> HIDE DEF new, map
  <2>1. QED BY <1>7, <1>9
<1>11. QED BY <1>10 DEF PM!Set

(* A call is recorded with the path its name spells.                       *)
LEMMA CallNamed ==
    ASSUME NEW method, NEW o, NEW n, NEW arg, call' = <<method, o, n, arg>>
    PROVE  <<call'[1], call'[2], PathOf(call'[3]), call'[4]>> = <<method, o, PathOf(n), arg>>
OBVIOUS

(* The parameter find() returns is the one the map has at the path.        *)
LEMMA FoundInMap ==
    ASSUME TypeOK, NEW o \in Objects, NEW n \in Name, Find(trie[o], n) # None
    PROVE  LET map == [x \in Objects |-> MapOf(trie[x])]
           IN  /\ PathOf(n) \in DOMAIN map[o] /\ map[o][PathOf(n)] = Find(trie[o], n)
               /\ Find(trie[o], n) \in Params
<1>1. trie[o] \in Trie
  BY DEF TypeOK
<1>2. Find(trie[o], n)
          = IF PathOf(n) \in DOMAIN MapOf(trie[o]) THEN MapOf(trie[o])[PathOf(n)] ELSE None
  BY <1>1, ReadersAgree
<1>3. Find(trie[o], n) \in Params
  BY CallTypes
<1>4. QED BY <1>2, <1>3

(* The calls about one parameter change it to what they were given.        *)
LEMMA AddRefines ==
    ASSUME TypeOK, NEW o \in Objects, NEW n \in Name
    PROVE  /\ \A v \in Value : Add(o, n, v) => PM!Add(o, PathOf(n), v)
           /\ AddUnset(o, n) => PM!AddUnset(o, PathOf(n))
<1>1. ASSUME NEW v \in Value, Add(o, n, v) PROVE PM!Add(o, PathOf(n), v)
  <2>1. [has |-> TRUE, value |-> v, validated |-> FALSE] \in Params
    BY DEF Params
  <2>2. PM!Set(o, PathOf(n), [has |-> TRUE, value |-> v, validated |-> FALSE])
    BY <1>1, <2>1, ChangeRefines DEF Add
  <2>3. call' = <<"add", o, n, v>>
    BY <1>1 DEF Add
  <2>4. QED BY <2>2, <2>3, CallNamed DEF PM!Add
<1>2. ASSUME AddUnset(o, n) PROVE PM!AddUnset(o, PathOf(n))
  <2>1. [has |-> FALSE, value |-> Default, validated |-> FALSE] \in Params
    BY ParametersAssumption DEF Params
  <2>2. PM!Set(o, PathOf(n), [has |-> FALSE, value |-> Default, validated |-> FALSE])
    BY <1>2, <2>1, ChangeRefines DEF AddUnset
  <2>3. call' = <<"add_unset", o, n, None>>
    BY <1>2 DEF AddUnset
  <2>4. QED BY <2>2, <2>3, CallNamed DEF PM!AddUnset
<1>3. QED BY <1>1, <1>2

LEMMA ModifyRefines ==
    ASSUME TypeOK, NEW o \in Objects, NEW n \in Name
    PROVE  /\ Validator(o, n) => PM!Validator(o, PathOf(n))
           /\ \A v \in Value, ok \in BOOLEAN : SetValue(o, n, v, ok) => PM!SetValue(o, PathOf(n), v, ok)
           /\ \A new \in BOOLEAN : HasValue(o, n, new) => PM!HasValue(o, PathOf(n), new)
<1> DEFINE f == Find(trie[o], n)
           map == [x \in Objects |-> MapOf(trie[x])]
<1>1. f # None => PathOf(n) \in DOMAIN map[o] /\ map[o][PathOf(n)] = f /\ f \in Params
  BY FoundInMap
<1>2. ASSUME NEW p \in Params, Modify(o, n, p) PROVE PM!Set(o, PathOf(n), p)
  BY <1>2, ChangeRefines DEF Modify
<1>3. ASSUME Validator(o, n) PROVE PM!Validator(o, PathOf(n))
  <2>1. f # None /\ Modify(o, n, [f EXCEPT !.validated = TRUE]) /\ call' = <<"validator", o, n, None>>
    BY <1>3 DEF Validator
  <2> HIDE DEF f
  <2>2. [f EXCEPT !.validated = TRUE] \in Params
    BY <1>1, <2>1 DEF Params
  <2>3. PM!Set(o, PathOf(n), [map[o][PathOf(n)] EXCEPT !.validated = TRUE])
    <3> HIDE DEF map
    <3>1. QED BY <1>1, <1>2, <2>1, <2>2
  <2>4. QED BY <1>1, <2>1, <2>3, CallNamed DEF PM!Validator
<1>4. ASSUME NEW v \in Value, NEW ok \in BOOLEAN, SetValue(o, n, v, ok)
      PROVE  PM!SetValue(o, PathOf(n), v, ok)
  <2>1. /\ f # None /\ Modify(o, n, [f EXCEPT !.value = v, !.has = @ \/ ok])
        /\ call' = <<"value", o, n, <<v, ok>>>>
    BY <1>4 DEF SetValue
  <2> HIDE DEF f
  <2>2. [f EXCEPT !.value = v, !.has = @ \/ ok] \in Params
    <3>1. f.has \in BOOLEAN /\ (f.has \/ ok) \in BOOLEAN
      BY <1>1, <2>1 DEF Params
    <3>2. QED BY <1>1, <2>1, <3>1 DEF Params
  <2>3. PM!Set(o, PathOf(n), [map[o][PathOf(n)] EXCEPT !.value = v, !.has = @ \/ ok])
    <3> HIDE DEF map
    <3>1. QED BY <1>1, <1>2, <2>1, <2>2
  <2>4. QED BY <1>1, <2>1, <2>3, CallNamed DEF PM!SetValue
<1>5. ASSUME NEW new \in BOOLEAN, HasValue(o, n, new) PROVE PM!HasValue(o, PathOf(n), new)
  <2>1. /\ f # None /\ Modify(o, n, [f EXCEPT !.has = new])
        /\ call' = <<"has_value", o, n, new>>
    BY <1>5 DEF HasValue
  <2> HIDE DEF f
  <2>2. [f EXCEPT !.has = new] \in Params
    BY <1>1, <2>1 DEF Params
  <2>3. PM!Set(o, PathOf(n), [map[o][PathOf(n)] EXCEPT !.has = new])
    <3> HIDE DEF map
    <3>1. QED BY <1>1, <1>2, <2>1, <2>2
  <2>4. QED BY <1>1, <2>1, <2>3, CallNamed DEF PM!HasValue
<1>6. QED BY <1>3, <1>4, <1>5

(* What Overlay() of the abstract specification makes of two tries. *)
LEMMA Overlaid ==
    ASSUME NEW t \in Trie, NEW from \in Trie, NEW path \in Path, NEW part \in Trie,
           \A x \in Path : At(part, x) = IF path \o x \in Path THEN At(from, path \o x) ELSE None
    PROVE  MapOf(Merged[part][t]) = PM!Overlay(MapOf(t), MapOf(from), path)
<1> DEFINE u == Merged[part][t]
           f == MapOf(from)
           g == MapOf(t)
           in == {x \in Path : path \o x \in DOMAIN f}
           h == [x \in DOMAIN g \cup in |-> IF x \in in THEN PM!Copied(f[path \o x]) ELSE g[x]]
<1>1. u \in Trie
  BY MergedEquation
<1>2. \A x \in Path : At(u, x) = IF At(part, x) # None THEN Clone(At(part, x)) ELSE At(t, x)
  BY MergedAt
<1>3. \A x : x \in DOMAIN g <=> x \in Path /\ At(t, x) # None
  BY MapFacts
<1>4. \A x \in DOMAIN g : g[x] = At(t, x)
  BY MapFacts
<1>5. \A x : x \in in <=> x \in Path /\ At(part, x) # None
  <2>1. \A x : x \in DOMAIN f <=> x \in Path /\ At(from, x) # None
    BY MapFacts
  <2> HIDE DEF f
  <2>2. QED BY <2>1
<1>6. \A x \in in : f[path \o x] = At(part, x)
  <2>1. \A x \in DOMAIN f : x \in Path /\ f[x] = At(from, x)
    BY MapFacts
  <2> HIDE DEF f
  <2>2. QED BY <2>1
<1>7. \A x \in Path : At(part, x) # None => Clone(At(part, x)) # None
  BY AtFacts, CloneType, LevelFacts
<1>8. \A p : PM!Copied(p) = Clone(p)
  BY DEF PM!Copied, Clone
<1>9. h = PM!Overlay(g, f, path)
  BY DEF PM!Overlay
<1> HIDE DEF u, f, g, in
<1>10. h = [x \in DOMAIN g \cup in |-> h[x]]
  OBVIOUS
<1>11. \A x : x \in DOMAIN g \cup in <=> x \in Path /\ At(u, x) # None
  BY <1>2, <1>3, <1>5, <1>7
<1>12. ASSUME NEW x \in DOMAIN g \cup in PROVE h[x] = At(u, x)
  <2>1. CASE x \in in
    <3>1. h[x] = Clone(At(part, x))
      BY <1>6, <1>8, <2>1
    <3>2. QED BY <1>2, <1>5, <2>1, <3>1
  <2>2. CASE x \notin in
    <3>1. h[x] = g[x] /\ x \in DOMAIN g
      BY <2>2
    <3>2. QED BY <1>2, <1>3, <1>4, <1>5, <2>2, <3>1
  <2>3. QED BY <2>1, <2>2
<1>13. MapOf(u) = h
  <2> HIDE DEF h
  <2>1. QED BY <1>1, <1>10, <1>11, <1>12, SameMap
<1>14. QED BY <1>9, <1>13 DEF u, f, g

LEMMA BecomesMap ==
    ASSUME TypeOK, NEW o \in Objects, NEW t \in Trie, Becomes(o, t)
    PROVE  [x \in Objects |-> MapOf(trie'[x])]
               = [[x \in Objects |-> MapOf(trie[x])] EXCEPT ![o] = MapOf(t)]
<1>1. trie' = [trie EXCEPT ![o] = t] /\ trie \in [Objects -> Trie]
  BY DEF Becomes, TypeOK
<1>2. \A x \in Objects : trie'[x] = IF x = o THEN t ELSE trie[x]
  BY <1>1
<1>3. QED BY <1>2

LEMMA AssignRefines ==
    ASSUME TypeOK, NEW from \in Objects, NEW to \in Objects, Assign(from, to)
    PROVE  PM!Assign(from, to)
<1> DEFINE map == [x \in Objects |-> MapOf(trie[x])]
           new == [x \in Objects |-> MapOf(trie'[x])]
<1>1. trie[from] \in Trie /\ trie[to] \in Trie /\ <<>> \in Path
  BY PathFacts DEF TypeOK
<1>2. \A x \in Path : <<>> \o x = x
  BY PathFacts, ConcatEmptySeq
<1>3. \A x \in Path : At(trie[from], x)
          = IF <<>> \o x \in Path THEN At(trie[from], <<>> \o x) ELSE None
  BY <1>2
<1>4. MapOf(Merged[trie[from]][trie[to]]) = PM!Overlay(MapOf(trie[to]), MapOf(trie[from]), <<>>)
  BY <1>1, <1>3, Overlaid
<1>5. Assigned(trie[to], trie[from]) \in Trie /\ Becomes(to, Assigned(trie[to], trie[from]))
  BY CallTypes DEF Assign
<1>6. new = [map EXCEPT ![to] = MapOf(Assigned(trie[to], trie[from]))]
  BY <1>5, BecomesMap
<1>7. map[to] = MapOf(trie[to]) /\ map[from] = MapOf(trie[from])
  OBVIOUS
<1>8. new = [map EXCEPT ![to] = PM!Overlay(map[to], map[from], <<>>)]
  <2> HIDE DEF new, map
  <2>1. QED BY <1>4, <1>6, <1>7 DEF Assigned
<1>9. call' = <<"operator=", to, EmptyName, from>> /\ PathOf(EmptyName) = <<>>
  BY NameFacts, ParametersAssumption DEF Assign
<1>10. <<call'[1], call'[2], PathOf(call'[3]), call'[4]>> = <<"operator=", to, <<>>, from>>
  BY <1>9
<1>11. QED BY <1>8, <1>10 DEF PM!Assign

LEMMA EmptyMap == MapOf(EmptyTrie) = <<>>
<1>1. EmptyTrie \in Trie /\ \A x \in Path : At(EmptyTrie, x) = None
  BY PathFacts, EmptyTrieAt
<1>2. {y \in Path : At(EmptyTrie, y) # None} = {}
  BY <1>1
<1>3. MapOf(EmptyTrie) = [x \in {} |-> At(EmptyTrie, x)]
  BY <1>1, <1>2, MapFacts
<1>4. QED BY <1>3

LEMMA FetchRefines ==
    ASSUME TypeOK, NEW from \in Objects, NEW to \in Objects, NEW n \in Name, GetSubtree(from, n, to)
    PROVE  PM!Fetch(from, PathOf(n), to)
<1> DEFINE map == [x \in Objects |-> MapOf(trie[x])]
           new == [x \in Objects |-> MapOf(trie'[x])]
           part == GetSubtrie(trie[from], n)
<1>1. trie[from] \in Trie /\ PathOf(n) \in Path /\ EmptyTrie \in Trie
  BY PathFacts, NameFacts, EmptyTrieAt DEF TypeOK
<1>2. part # None /\ Becomes(to, Assigned(EmptyTrie, part))
  BY DEF GetSubtree
<1>3. part = NodeAt(trie[from], PathOf(n))
  BY <1>1, AnySpelling DEF GetSubtrie
<1>4. part \in Trie
  BY <1>1, <1>2, <1>3, NodeAtFacts
<1>5. \A x \in Path : At(part, x)
          = IF PathOf(n) \o x \in Path THEN At(trie[from], PathOf(n) \o x) ELSE None
  BY <1>1, <1>2, <1>3, PartAt
<1> HIDE DEF part
<1>6. MapOf(Merged[part][EmptyTrie]) = PM!Overlay(MapOf(EmptyTrie), MapOf(trie[from]), PathOf(n))
  BY <1>1, <1>4, <1>5, Overlaid
<1>7. Merged[part][EmptyTrie] \in Trie
  BY <1>1, <1>4, MergedEquation
<1>8. new = [map EXCEPT ![to] = MapOf(Merged[part][EmptyTrie])]
  BY <1>2, <1>7, BecomesMap DEF Assigned
<1>9. map[from] = MapOf(trie[from])
  OBVIOUS
<1>10. new = [map EXCEPT ![to] = PM!Overlay(<<>>, map[from], PathOf(n))]
  <2> HIDE DEF new, map
  <2>1. QED BY <1>6, <1>8, <1>9, EmptyMap
<1>11. call' = <<"get_subtree", to, n, from>>
  BY DEF GetSubtree
<1>12. QED BY <1>10, <1>11, CallNamed DEF PM!Fetch

(* Every call changes the one parameter it names, to what it was given,    *)
(* and no other; what is copied, or fetched under a name, is what the      *)
(* original has there: the trie implements a map from paths to parameters. *)
THEOREM ParametersImplementMap == Spec => ImplementsParameterMap
<1>1. Init => PM!Init
  <2>1. SUFFICES ASSUME Init PROVE PM!Init
    OBVIOUS
  <2>2. \A o \in Objects : MapOf(trie[o]) = <<>>
    BY <2>1, EmptyMap DEF Init
  <2>3. call = <<"none", None, EmptyName, None>> /\ PathOf(EmptyName) = <<>>
    BY <2>1, NameFacts, ParametersAssumption DEF Init
  <2>4. <<call[1], call[2], PathOf(call[3]), call[4]>> = <<"none", None, <<>>, None>>
    BY <2>3
  <2>5. QED BY <2>2, <2>4 DEF PM!Init
<1>2. TypeOK /\ [Next]_vars => [PM!Next]_(PM!vars)
  <2>1. SUFFICES ASSUME TypeOK, [Next]_vars
                 PROVE  PM!Next \/ UNCHANGED PM!vars
    OBVIOUS
  <2>2. Names \subseteq Name /\ \A n \in Name : PathOf(n) \in Path
    BY NameFacts, ParametersAssumption
  <2>3. ASSUME NEW o \in Objects, NEW n \in Names, NEW v \in Value, Add(o, n, v) PROVE PM!Next
    BY <2>1, <2>2, <2>3, AddRefines DEF PM!Next
  <2>4. ASSUME NEW o \in Objects, NEW n \in Names, AddUnset(o, n) PROVE PM!Next
    BY <2>1, <2>2, <2>4, AddRefines DEF PM!Next
  <2>5. ASSUME NEW o \in Objects, NEW n \in Names, Validator(o, n) PROVE PM!Next
    BY <2>1, <2>2, <2>5, ModifyRefines DEF PM!Next
  <2>6. ASSUME NEW o \in Objects, NEW n \in Names, NEW v \in Value, NEW ok \in BOOLEAN,
               SetValue(o, n, v, ok)
        PROVE  PM!Next
    BY <2>1, <2>2, <2>6, ModifyRefines DEF PM!Next
  <2>7. ASSUME NEW o \in Objects, NEW n \in Names, NEW new \in BOOLEAN, HasValue(o, n, new)
        PROVE  PM!Next
    BY <2>1, <2>2, <2>7, ModifyRefines DEF PM!Next
  <2>8. ASSUME NEW from \in Objects, NEW to \in Objects, Assign(from, to) PROVE PM!Next
    BY <2>1, <2>8, AssignRefines DEF PM!Next
  <2>9. ASSUME NEW from \in Objects, NEW to \in Objects, NEW n \in Names, GetSubtree(from, n, to)
        PROVE  PM!Next
    <3>1. PM!Fetch(from, PathOf(n), to) /\ PathOf(n) \in Path
      BY <2>1, <2>2, <2>9, FetchRefines
    <3>2. QED BY <3>1 DEF PM!Next
  <2>10. CASE UNCHANGED vars
    BY <2>10 DEF vars, PM!vars
  <2>11. QED BY <2>1, <2>3, <2>4, <2>5, <2>6, <2>7, <2>8, <2>9, <2>10 DEF Next
<1>3. QED BY <1>1, <1>2, ParametersTypeCorrect, PTL DEF Spec, ImplementsParameterMap, PM!Spec
=============================================================================
