----------------------------- MODULE Induction ------------------------------
(***************************************************************************)
(* Induction over the numbers, said with sets: a property is the set of    *)
(* the numbers that have it, so no operator has to be passed.              *)
(***************************************************************************)
EXTENDS Integers, Sequences, FiniteSetsExt, WellFoundedInduction, SequenceTheorems,
        FiniteSetTheorems, TLAPS

\* Every set of natural numbers that has an element has a least one.
LEMMA LeastNumber ==
  ASSUME NEW T, T \subseteq Nat, T # {}
  PROVE  \E x \in T : \A y \in T : x <= y
<1> DEFINE R == OpToRel(<, Nat)
<1>1. \A x, y \in Nat : <<y, x>> \in R <=> y < x
  BY Zenon DEF OpToRel
<1>2. IsWellFoundedOn(R, Nat)
  BY NatLessThanWellFounded, Zenon
<1> HIDE DEF R
<1>3. PICK x \in T : \A y \in T : ~ (<<y, x>> \in R)
  BY <1>2, WFMin
<1>4. \A y \in T : y \in Nat /\ x \in Nat /\ ~(y < x)
  BY <1>1, <1>3
<1>5. \A y \in T : x <= y
  BY <1>4
<1> QED BY <1>5

\* A set that holds 0, and with each number the next, holds them all.
LEMMA SetInduction ==
  ASSUME NEW T, 0 \in T, \A n \in Nat : n \in T => n + 1 \in T
  PROVE  \A n \in Nat : n \in T
<1> DEFINE U == Nat \ T
<1> SUFFICES ASSUME U # {} PROVE FALSE
  OBVIOUS
<1>1. PICK x \in U : \A y \in U : x <= y
  <2>1. U \subseteq Nat OBVIOUS
  <2> HIDE DEF U
  <2> QED BY <2>1, LeastNumber
<1>2. x # 0 /\ x - 1 \in Nat
  OBVIOUS
<1>3. x - 1 \in T
  BY <1>1, <1>2
<1> QED BY <1>3

\* The least element of a set of natural numbers.
LEMMA MinIsLeast ==
  ASSUME NEW T, T \subseteq Nat, T # {}
  PROVE  Min(T) \in T /\ \A y \in T : Min(T) <= y
BY LeastNumber DEF Min

\* A function on 0..m by recursion: base, then by G from each value, with the
\* number, to the next.
IsRecursion(f, m, V, base, G) ==
  f \in [0..m -> V] /\ f[0] = base /\ \A n \in 1..m : f[n] = G[<<n, f[n - 1]>>]

LEMMA RecursionOverNumbers ==
  ASSUME NEW L \in Nat, NEW V, NEW base \in V, NEW G, G \in [(1..L) \X V -> V]
  PROVE  \E f : IsRecursion(f, L, V, base, G)
<1> DEFINE IsRun(f, m) == IsRecursion(f, m, V, base, G)
           T == {m \in Nat : m <= L => \E f : IsRun(f, m)}
<1> USE DEF IsRecursion
<1>1. 0 \in T
  <2> DEFINE f == [n \in 0..0 |-> base]
  <2>1. IsRun(f, 0)
    OBVIOUS
  <2> HIDE DEF f, IsRun
  <2> QED BY <2>1
<1>2. ASSUME NEW m \in Nat, m \in T PROVE m + 1 \in T
  <2>1. SUFFICES ASSUME m + 1 <= L PROVE \E f : IsRun(f, m + 1)
    OBVIOUS
  <2>2. PICK f : IsRun(f, m)
    <3> HIDE DEF IsRun
    <3> QED BY <1>2, <2>1
  <2> DEFINE g == [n \in 0..(m + 1) |-> IF n <= m THEN f[n] ELSE G[<<m + 1, f[m]>>]]
  <2>3. f \in [0..m -> V] /\ f[m] \in V /\ m + 1 \in 1..L
    BY <2>1, <2>2
  <2>4. G[<<m + 1, f[m]>>] \in V
    BY <2>3
  <2>5. g \in [0..(m + 1) -> V]
    BY <2>3, <2>4
  <2>6. \A n \in 0..m : g[n] = f[n]
    OBVIOUS
  <2>7. g[m + 1] = G[<<m + 1, f[m]>>]
    OBVIOUS
  <2> HIDE DEF g
  <2>8. ASSUME NEW n \in 1..(m + 1) PROVE g[n] = G[<<n, g[n - 1]>>]
    <3>1. CASE n \in 1..m
      <4>1. n \in 0..m /\ n - 1 \in 0..m
        BY <3>1
      <4> QED BY <2>2, <2>6, <3>1, <4>1
    <3>2. CASE n = m + 1
      <4>1. n - 1 = m /\ m \in 0..m
        BY <3>2
      <4> QED BY <2>6, <2>7, <3>2, <4>1
    <3> QED BY <3>1, <3>2
  <2>9. g[0] = base
    <3>1. 0 \in 0..m
      OBVIOUS
    <3> QED BY <2>2, <2>6, <3>1
  <2> QED BY <2>5, <2>8, <2>9
<1>3. L \in T
  <2> HIDE DEF T
  <2> QED BY <1>1, <1>2, SetInduction
<1> QED BY <1>3

\* A function that is defined by the recursion as long as its values are in V
\* is such a function: its values are.
LEMMA RecursionStays ==
  ASSUME NEW L \in Nat, NEW V, NEW base \in V, NEW G, G \in [(1..L) \X V -> V],
         NEW f, f = [n \in 0..L |-> f[n]], f[0] = base,
         \A n \in 1..L : f[n - 1] \in V => f[n] = G[<<n, f[n - 1]>>]
  PROVE  IsRecursion(f, L, V, base, G)
<1> DEFINE T == {n \in Nat : n <= L => f[n] \in V}
<1>1. 0 \in T
  OBVIOUS
<1>2. ASSUME NEW n \in Nat, n \in T PROVE n + 1 \in T
  <2>1. SUFFICES ASSUME n + 1 <= L PROVE f[n + 1] \in V
    OBVIOUS
  <2>2. n + 1 \in 1..L /\ (n + 1) - 1 = n /\ f[n] \in V
    BY <1>2, <2>1
  <2>3. f[n + 1] = G[<<n + 1, f[n]>>]
    BY <2>2
  <2> QED BY <2>2, <2>3
<1>3. \A n \in Nat : n \in T
  <2> HIDE DEF T
  <2> QED BY <1>1, <1>2, SetInduction
<1>4. \A n \in 0..L : f[n] \in V
  BY <1>3
<1>5. f \in [0..L -> V]
  BY <1>4
<1>6. \A n \in 1..L : f[n] = G[<<n, f[n - 1]>>]
  <2>1. \A n \in 1..L : n - 1 \in 0..L
    OBVIOUS
  <2> QED BY <1>4, <2>1
<1> QED BY <1>5, <1>6 DEF IsRecursion

\* Two functions with the same start and the same steps are the same.
LEMMA SameRecursion ==
  ASSUME NEW L \in Nat, NEW f, NEW g, f[0] = g[0],
         \A n \in 1..L : f[n - 1] = g[n - 1] => f[n] = g[n]
  PROVE  f[L] = g[L]
<1> DEFINE T == {n \in Nat : n <= L => f[n] = g[n]}
<1>1. 0 \in T
  OBVIOUS
<1>2. ASSUME NEW n \in Nat, n \in T PROVE n + 1 \in T
  <2>1. n + 1 <= L => n + 1 \in 1..L /\ (n + 1) - 1 = n
    OBVIOUS
  <2> QED BY <1>2, <2>1
<1>3. \A n \in Nat : n \in T
  <2> HIDE DEF T
  <2> QED BY <1>1, <1>2, SetInduction
<1> QED BY <1>3

-----------------------------------------------------------------------------
(* Selections: some of the elements of a sequence, in their order *)

\* f[n] is the selection from the first n elements: those with a number in Keep.
Selects(f, n, s, Keep) ==
  IF n = 0 THEN << >> ELSE IF n \in Keep THEN Append(f[n - 1], s[n]) ELSE f[n - 1]

IsSelection(f, L, s, Keep) == f = [n \in 0..L |-> Selects(f, n, s, Keep)]

UpTo(Keep, n) == {k \in Keep : k <= n}

LEMMA SelectionExists ==
  ASSUME NEW L \in Nat, NEW S, NEW s, NEW Keep, \A k \in Keep : s[k] \in S
  PROVE  \E f : IsSelection(f, L, s, Keep)
<1> DEFINE G == [x \in (1..L) \X Seq(S) |->
                   IF x[1] \in Keep THEN Append(x[2], s[x[1]]) ELSE x[2]]
<1>1. \A n \in 1..L, v \in Seq(S) :
        /\ (IF n \in Keep THEN Append(v, s[n]) ELSE v) \in Seq(S)
        /\ G[<<n, v>>] = IF n \in Keep THEN Append(v, s[n]) ELSE v
  BY AppendProperties
<1>2. G \in [(1..L) \X Seq(S) -> Seq(S)]
  BY <1>1
<1>3. << >> \in Seq(S)
  BY EmptySeq
<1> HIDE DEF G
<1>4. PICK f : IsRecursion(f, L, Seq(S), << >>, G)
  BY <1>2, <1>3, RecursionOverNumbers
<1>5. /\ f \in [0..L -> Seq(S)] /\ f[0] = << >>
      /\ \A n \in 1..L : f[n] = G[<<n, f[n - 1]>>]
  BY <1>4 DEF IsRecursion
<1>6. ASSUME NEW n \in 0..L PROVE f[n] = Selects(f, n, s, Keep)
  <2>1. n # 0 => n \in 1..L /\ n - 1 \in 0..L
    OBVIOUS
  <2> QED BY <1>1, <1>5, <2>1 DEF Selects
<1>7. f = [n \in 0..L |-> Selects(f, n, s, Keep)]
  BY <1>5, <1>6
<1> QED BY <1>7 DEF IsSelection

\* g has one element for each number to keep: where the count of the numbers says.
IsInOrder(g, S, s, Keep) ==
  /\ g \in Seq(S)
  /\ Len(g) = Cardinality(Keep)
  /\ \A k \in Keep : /\ Cardinality(UpTo(Keep, k)) \in 1..Cardinality(Keep)
                     /\ g[Cardinality(UpTo(Keep, k))] = s[k]

\* How many numbers there are up to the next.
LEMMA CountNext ==
  ASSUME NEW n \in Nat, NEW Keep, \A k \in Keep : k \in Nat /\ k # 0
  PROVE  /\ Cardinality(UpTo(Keep, n)) \in Nat
         /\ Cardinality(UpTo(Keep, n + 1))
              = IF n + 1 \in Keep THEN Cardinality(UpTo(Keep, n)) + 1 ELSE Cardinality(UpTo(Keep, n))
<1>1. IsFiniteSet(UpTo(Keep, n)) /\ Cardinality(UpTo(Keep, n)) \in Nat
  <2>1. UpTo(Keep, n) \in SUBSET (1..n)
    BY DEF UpTo
  <2>2. IsFiniteSet(1..n)
    BY FS_Interval
  <2>3. IsFiniteSet(UpTo(Keep, n))
    BY <2>1, <2>2, FS_Subset
  <2> QED BY <2>3, FS_CardinalityType
<1>2. n + 1 \notin UpTo(Keep, n)
  BY DEF UpTo
<1>3. CASE n + 1 \in Keep
  <2>1. UpTo(Keep, n + 1) = UpTo(Keep, n) \cup {n + 1}
    BY <1>3 DEF UpTo
  <2>2. Cardinality(UpTo(Keep, n) \cup {n + 1}) = Cardinality(UpTo(Keep, n)) + 1
    BY <1>1, <1>2, FS_AddElement
  <2> QED BY <1>1, <1>3, <2>1, <2>2
<1>4. CASE n + 1 \notin Keep
  <2>1. UpTo(Keep, n + 1) = UpTo(Keep, n)
    BY <1>4 DEF UpTo
  <2> QED BY <1>1, <1>4, <2>1
<1> QED BY <1>3, <1>4

\* A selection is in order.
LEMMA SelectionCounts ==
  ASSUME NEW L \in Nat, NEW S, NEW s, NEW Keep, \A k \in Keep : k \in 1..L,
         \A k \in Keep : s[k] \in S,
         NEW f, IsSelection(f, L, s, Keep)
  PROVE  IsInOrder(f[L], S, s, Keep)
<1>1. \A n \in 0..L : f[n] = Selects(f, n, s, Keep)
  BY DEF IsSelection
<1> DEFINE T == {n \in Nat : n <= L =>
                   /\ f[n] \in Seq(S)
                   /\ Len(f[n]) = Cardinality(UpTo(Keep, n))
                   /\ \A k \in Keep : k <= n =>
                        /\ Cardinality(UpTo(Keep, k)) \in 1..Len(f[n])
                        /\ f[n][Cardinality(UpTo(Keep, k))] = s[k]}
<1>2. 0 \in T
  <2>1. f[0] = << >>
    BY <1>1 DEF Selects
  <2>2. << >> \in Seq(S) /\ Len(<< >>) = 0
    BY EmptySeq
  <2>3. UpTo(Keep, 0) = {} /\ \A k \in Keep : ~(k <= 0)
    BY DEF UpTo
  <2>4. Cardinality({}) = 0
    BY FS_EmptySet
  <2> QED BY <2>1, <2>2, <2>3, <2>4
<1>3. ASSUME NEW n \in Nat, n \in T PROVE n + 1 \in T
  <2>1. SUFFICES ASSUME n + 1 <= L
        PROVE  /\ f[n + 1] \in Seq(S)
               /\ Len(f[n + 1]) = Cardinality(UpTo(Keep, n + 1))
               /\ \A k \in Keep : k <= n + 1 =>
                    /\ Cardinality(UpTo(Keep, k)) \in 1..Len(f[n + 1])
                    /\ f[n + 1][Cardinality(UpTo(Keep, k))] = s[k]
    OBVIOUS
  <2>2. /\ n + 1 \in 0..L /\ n + 1 # 0 /\ (n + 1) - 1 = n
        /\ \A k \in Keep : k <= n + 1 => k <= n \/ k = n + 1
    BY <2>1
  <2>3. /\ f[n] \in Seq(S)
        /\ Len(f[n]) = Cardinality(UpTo(Keep, n))
        /\ \A k \in Keep : k <= n =>
             /\ Cardinality(UpTo(Keep, k)) \in 1..Len(f[n])
             /\ f[n][Cardinality(UpTo(Keep, k))] = s[k]
    BY <1>3, <2>1
  <2>4. f[n + 1] = IF n + 1 \in Keep THEN Append(f[n], s[n + 1]) ELSE f[n]
    BY <1>1, <2>2 DEF Selects
  <2>5. PICK c \in Nat : c = Cardinality(UpTo(Keep, n))
    BY CountNext
  <2>6. Cardinality(UpTo(Keep, n + 1)) = IF n + 1 \in Keep THEN c + 1 ELSE c
    BY <2>5, CountNext
  <2>7. CASE n + 1 \in Keep
    <3>1. PICK e \in S : e = s[n + 1]
      BY <2>7
    <3>2. PICK g \in Seq(S) : g = f[n]
      BY <2>3
    <3>3. PICK h : h = Append(g, e)
      OBVIOUS
    <3>4. h \in Seq(S)
      BY <3>3, AppendProperties
    <3>5. Len(h) = Len(g) + 1
      BY <3>3, AppendProperties
    <3>6. \A i \in 1..Len(g) : h[i] = g[i]
      BY <3>3, AppendProperties
    <3>7. h[Len(g) + 1] = e
      BY <3>3, AppendProperties
    <3>8. Len(g) = c /\ f[n + 1] = h
      BY <2>3, <2>4, <2>5, <2>7, <3>1, <3>2, <3>3
    <3>9. ASSUME NEW k \in Keep, k <= n + 1
          PROVE  /\ Cardinality(UpTo(Keep, k)) \in 1..Len(h)
                 /\ h[Cardinality(UpTo(Keep, k))] = s[k]
      <4>1. CASE k <= n
        <5>1. PICK d \in 1..c : d = Cardinality(UpTo(Keep, k)) /\ g[d] = s[k]
          BY <2>3, <3>2, <3>8, <4>1
        <5> QED BY <3>5, <3>6, <3>8, <5>1
      <4>2. CASE k = n + 1
        <5>1. Cardinality(UpTo(Keep, k)) = c + 1 /\ s[k] = e
          BY <2>6, <2>7, <3>1, <4>2
        <5> QED BY <3>5, <3>7, <3>8, <5>1
      <4> QED BY <2>2, <3>9, <4>1, <4>2
    <3>10. Len(h) = Cardinality(UpTo(Keep, n + 1))
      BY <2>6, <2>7, <3>5, <3>8
    <3> QED BY <3>4, <3>9, <3>10, <3>8
  <2>8. CASE n + 1 \notin Keep
    <3>1. f[n + 1] = f[n] /\ Cardinality(UpTo(Keep, n + 1)) = Cardinality(UpTo(Keep, n))
      BY <2>4, <2>5, <2>6, <2>8
    <3>2. \A k \in Keep : k <= n + 1 => k <= n
      BY <2>2, <2>8
    <3> QED BY <2>3, <3>1, <3>2
  <2> QED BY <2>7, <2>8
<1>4. L \in T
  <2> HIDE DEF T
  <2> QED BY <1>2, <1>3, SetInduction
<1>5. UpTo(Keep, L) = Keep /\ \A k \in Keep : k <= L
  BY DEF UpTo
<1> QED BY <1>4, <1>5 DEF IsInOrder
=============================================================================
