-------------------------- MODULE AppServiceProofs --------------------------
(***************************************************************************)
(* Theorems about AppService, for every application: any number of builder *)
(* calls, of resources and what configures them, of types of state, of     *)
(* instances and of requests.                                              *)
(*                                                                         *)
(* The invariant has three parts.  What the builder holds is what the      *)
(* calls in the log declared (Built), and stays once the application is    *)
(* built.  Each instance holds what the builder did when it was started,   *)
(* and has not inserted the state yet, or is past it (Instance).  The      *)
(* shared extensions hold the declared state or nothing (Shared).          *)
(*                                                                         *)
(* The first sections are about what the builders compute, for every chain *)
(* of calls: the loops of Resource's builder and of the filters, by        *)
(* induction over their length.                                            *)
(***************************************************************************)
EXTENDS AppService, Induction, SequenceTheorems, FiniteSetTheorems

\* The last and the first of some calls.
LEMMA LatestIsLast ==
  ASSUME NEW n \in Nat, NEW S, S \subseteq 1..n, S # {}
  PROVE  Latest(S) \in S /\ \A j \in S : j <= Latest(S)
<1> DEFINE T == {n - k : k \in S}
<1>1. PICK x \in T : \A y \in T : x <= y
  <2>1. \A k \in S : n - k \in Nat
    OBVIOUS
  <2>2. T \subseteq Nat /\ T # {}
    BY <2>1
  <2> HIDE DEF T
  <2> QED BY <2>2, LeastNumber
<1>2. PICK k \in S : x = n - k
  OBVIOUS
<1>3. ASSUME NEW j \in S PROVE j <= k
  <2>1. n - j \in T
    OBVIOUS
  <2>2. n - k <= n - j
    BY <1>1, <1>2, <2>1
  <2> QED BY <2>2
<1> QED BY <1>3 DEF Latest

LEMMA EarliestIsFirst ==
  ASSUME NEW S, S \subseteq Nat, S # {}
  PROVE  Earliest(S) \in S /\ \A j \in S : Earliest(S) <= j
BY LeastNumber DEF Earliest

-----------------------------------------------------------------------------
(* Newest: what is wrapped around the rest comes first *)

LEMMA NewestOfNone == Newest({}) = << >>
BY FS_EmptySet DEF Newest

LEMMA NewestOfMore ==
  ASSUME NEW n \in Nat, NEW S \in SUBSET (1..n), Newest(S) \in Seq(Nat)
  PROVE  /\ Newest(S \cup {n + 1}) = <<n + 1>> \o Newest(S)
         /\ Newest(S \cup {n + 1}) \in Seq(Nat)
<1> DEFINE c == Cardinality(S)
           U == S \cup {n + 1}
           After(T, k) == {j \in T : j > k}
           Places(T, m) == {k \in T : Cardinality(After(T, k)) = m - 1}
<1>1. /\ IsFiniteSet(S) /\ c \in Nat /\ n + 1 \notin S
      /\ Cardinality(U) = c + 1
  <2>1. IsFiniteSet(1..n)
    BY FS_Interval
  <2>2. IsFiniteSet(S)
    BY <2>1, FS_Subset
  <2>3. n + 1 \notin S
    OBVIOUS
  <2> QED BY <2>2, <2>3, FS_AddElement, FS_CardinalityType
<1>2. \A k \in S : /\ Cardinality(After(S, k)) \in Nat
                   /\ Cardinality(After(U, k)) = Cardinality(After(S, k)) + 1
  <2> SUFFICES ASSUME NEW k \in S
               PROVE  /\ Cardinality(After(S, k)) \in Nat
                      /\ Cardinality(After(U, k)) = Cardinality(After(S, k)) + 1
    OBVIOUS
  <2>1. After(U, k) = After(S, k) \cup {n + 1} /\ n + 1 \notin After(S, k)
    OBVIOUS
  <2>2. IsFiniteSet(After(S, k))
    <3>1. After(S, k) \in SUBSET S
      OBVIOUS
    <3> HIDE DEF After
    <3> QED BY <1>1, <3>1, FS_Subset
  <2> HIDE DEF After, U
  <2> QED BY <2>1, <2>2, FS_AddElement, FS_CardinalityType
<1>3. Cardinality(After(U, n + 1)) = 0
  <2>1. \A j \in U : ~(j > n + 1)
    OBVIOUS
  <2>2. After(U, n + 1) = {}
    BY <2>1
  <2> HIDE DEF After, U
  <2> QED BY <2>2, FS_EmptySet
<1>4. Newest(S) = [m \in 1..c |-> CHOOSE k : k \in Places(S, m)]
  BY DEF Newest
<1>5. Newest(U) = [m \in 1..(c + 1) |-> CHOOSE k : k \in Places(U, m)]
  BY <1>1 DEF Newest
<1> DEFINE inS == [k \in Nat |-> Cardinality(After(S, k))]
           inU == [k \in Nat |-> Cardinality(After(U, k))]
<1>6. /\ S \subseteq Nat /\ n + 1 \in Nat
      /\ \A k \in S : inS[k] = Cardinality(After(S, k)) /\ inU[k] = Cardinality(After(U, k))
      /\ inU[n + 1] = Cardinality(After(U, n + 1))
  <2>1. S \subseteq Nat /\ n + 1 \in Nat
    OBVIOUS
  <2> HIDE DEF After, U
  <2> QED BY <2>1
<1> HIDE DEF After, c, inS, inU
<1>7. /\ \A k \in S : inU[k] = inS[k] + 1 /\ inS[k] \in Nat
      /\ inU[n + 1] = 0
  BY <1>2, <1>3, <1>6
<1>8. ASSUME NEW m \in 1..(c + 1), NEW k
      PROVE  k \in Places(U, m) <=> \/ k \in S /\ inS[k] + 2 = m
                                    \/ k = n + 1 /\ m = 1
  <2>1. CASE k \in S
    <3>1. inU[k] = m - 1 <=> inS[k] + 2 = m
      BY <1>1, <1>7, <2>1
    <3>2. k # n + 1
      BY <1>1, <2>1
    <3> QED BY <1>6, <2>1, <3>1, <3>2
  <2>2. CASE k = n + 1
    <3>1. inU[k] = m - 1 <=> m = 1
      BY <1>1, <1>7, <2>2
    <3> QED BY <1>1, <1>6, <2>2, <3>1
  <2>3. CASE k \notin U
    BY <2>3
  <2> QED BY <2>1, <2>2, <2>3
<1>9. ASSUME NEW m \in 2..(c + 1), NEW k
      PROVE  k \in Places(S, m - 1) <=> k \in S /\ inS[k] + 2 = m
  <2>1. CASE k \in S
    <3>1. inS[k] = (m - 1) - 1 <=> inS[k] + 2 = m
      BY <1>1, <1>7, <2>1
    <3> QED BY <1>6, <2>1, <3>1
  <2> QED BY <2>1
<1> HIDE DEF Places, U
<1>10. Places(U, 1) = {n + 1} /\ \A m \in 2..(c + 1) : Places(U, m) = Places(S, m - 1)
  <2>1. \A k \in S : inS[k] + 2 # 1
    BY <1>7
  <2>2. 1 \in 1..(c + 1)
    BY <1>1
  <2>3. Places(U, 1) = {n + 1}
    BY <1>8, <2>1, <2>2
  <2>4. ASSUME NEW m \in 2..(c + 1) PROVE Places(U, m) = Places(S, m - 1)
    <3>1. m \in 1..(c + 1) /\ m # 1
      BY <1>1
    <3>2. \A k : k \in Places(U, m) <=> k \in Places(S, m - 1)
      BY <1>8, <1>9, <3>1
    <3> QED BY <3>2
  <2> QED BY <2>3, <2>4
<1>11. Len(Newest(S)) = c
  BY <1>1, <1>4, LenProperties
<1> DEFINE more == <<n + 1>> \o Newest(S)
<1>12. /\ more \in Seq(Nat) /\ Len(more) = c + 1
      /\ \A m \in 1..(c + 1) : more[m] = IF m <= 1 THEN <<n + 1>>[m] ELSE Newest(S)[m - 1]
  <2>1. <<n + 1>> \in Seq(Nat) /\ Len(<<n + 1>>) = 1
    OBVIOUS
  <2> QED BY <1>1, <1>11, <2>1, ConcatProperties
<1>13. more = [m \in 1..(c + 1) |-> more[m]]
  BY <1>1, <1>12, LenProperties
<1> HIDE DEF more
<1>14. ASSUME NEW m \in 1..(c + 1) PROVE Newest(U)[m] = more[m]
  <2>1. CASE m = 1
    BY <1>1, <1>5, <1>10, <1>12, <2>1
  <2>2. CASE m # 1
    <3>1. m \in 2..(c + 1) /\ m - 1 \in 1..c
      BY <1>1, <2>2
    <3>2. Newest(S)[m - 1] = CHOOSE k : k \in Places(S, m - 1)
      BY <1>4, <3>1
    <3>3. Newest(U)[m] = CHOOSE k : k \in Places(U, m)
      BY <1>5
    <3> QED BY <1>10, <1>12, <3>1, <3>2, <3>3
  <2> QED BY <2>1, <2>2
<1>15. Newest(U) = more
  BY <1>5, <1>13, <1>14
<1> QED BY <1>12, <1>15 DEF more, U

-----------------------------------------------------------------------------
(* ResourceOf: one call after the other *)

LEMMA ResourceIsBuilt ==
  ASSUME NEW calls, Len(calls) \in Nat
  PROVE  \E f : /\ f = [n \in 0..Len(calls) |->
                          IF n = 0 THEN NewResource ELSE Configured(f[n - 1], n, calls[n])]
                /\ ResourceOf(calls) = f[Len(calls)]
<1> DEFINE Value(f, n) == IF n = 0 THEN NewResource ELSE Configured(f[n - 1], n, calls[n])
           T == {m \in Nat : \E f : f = [n \in 0..m |-> Value(f, n)]}
<1>1. 0 \in T
  <2> DEFINE f == [n \in 0..0 |-> NewResource]
  <2>1. f = [n \in 0..0 |-> Value(f, n)]
    OBVIOUS
  <2> QED BY <2>1
<1>2. ASSUME NEW m \in Nat, m \in T PROVE m + 1 \in T
  <2>1. PICK f : f = [n \in 0..m |-> Value(f, n)]
    BY <1>2
  <2> DEFINE g == [n \in 0..(m + 1) |-> IF n <= m THEN f[n] ELSE Configured(f[m], m + 1, calls[m + 1])]
  <2>2. ASSUME NEW n \in 0..(m + 1) PROVE g[n] = Value(g, n)
    <3>1. CASE n = 0
      BY <2>1, <3>1
    <3>2. CASE n # 0 /\ n <= m
      <4>1. n - 1 \in 0..m /\ n \in 0..m /\ n - 1 \in 0..(m + 1)
        BY <3>2
      <4>2. g[n] = f[n] /\ g[n - 1] = f[n - 1]
        BY <3>2, <4>1
      <4>3. f[n] = Value(f, n)
        BY <2>1, <4>1
      <4> QED BY <3>2, <4>2, <4>3
    <3>3. CASE n = m + 1
      <4>1. m \in 0..(m + 1) /\ g[m] = f[m] /\ n - 1 = m
        BY <3>3
      <4> QED BY <3>3, <4>1
    <3> QED BY <3>1, <3>2, <3>3
  <2>3. g = [n \in 0..(m + 1) |-> Value(g, n)]
    BY <2>2
  <2> HIDE DEF g
  <2> QED BY <2>3
<1>3. Len(calls) \in T
  <2> HIDE DEF T
  <2> QED BY <1>1, <1>2, SetInduction
<1>4. PICK f : f = [n \in 0..Len(calls) |-> Value(f, n)]
  BY <1>3
<1> DEFINE b == CHOOSE g : g = [n \in 0..Len(calls) |->
                  IF n = 0 THEN NewResource ELSE Configured(g[n - 1], n, calls[n])]
<1>5. b = [n \in 0..Len(calls) |->
             IF n = 0 THEN NewResource ELSE Configured(b[n - 1], n, calls[n])]
  BY <1>4
<1>6. ResourceOf(calls) = b[Len(calls)]
  BY DEF ResourceOf
<1> QED BY <1>5, <1>6

RouteCalls == {"verb", "method", "route", "to"}

\* The first n calls of one kind.
Among(calls, n, kinds) == {j \in 1..n : calls[j].call \in kinds}

\* What the resource's builder holds after n calls: its routes in the order
\* of the calls that added them, its middlewares the last one outermost, the
\* last default.
HoldsRoutes(routes, calls, n) ==
  /\ routes \in Seq([at : 1..n, filters : Seq(Filters)])
  /\ \A k \in 1..Len(routes) :
       /\ calls[routes[k].at].call \in RouteCalls
       /\ routes[k].filters = FiltersOf(calls[routes[k].at])
       /\ \A j \in 1..(k - 1) : routes[j].at < routes[k].at
  /\ \A j \in Among(calls, n, RouteCalls) : \E k \in 1..Len(routes) : routes[k].at = j

HoldsLayers(layers, calls, n) ==
  /\ layers \in Seq(Nat)
  /\ layers = Newest(Among(calls, n, {"middleware"}))

HoldsDefault(at, calls, n) ==
  LET of == Among(calls, n, {"default_resource"}) IN
  at = IF of = {} THEN 0 ELSE Latest(of)

Holds(res, calls, n) ==
  /\ res = [routes |-> res.routes, default |-> res.default, endpoint |-> res.endpoint]
  /\ HoldsRoutes(res.routes, calls, n)
  /\ HoldsLayers(res.endpoint, calls, n)
  /\ HoldsDefault(res.default, calls, n)

LEMMA FiltersType ==
  ASSUME NEW c \in ResourceCalls, c.call \in RouteCalls
  PROVE  FiltersOf(c) \in Seq(Filters)
<1>1. /\ \A S : << >> \in Seq(S)
      /\ \A m \in Methods : MethodFilter(m) \in Filters
  <2>1. \A S : << >> \in Seq(S)
    BY EmptySeq
  <2>2. ASSUME NEW m \in Methods PROVE MethodFilter(m) \in Filters
    <3>1. [op |-> "method", method |-> m] \in FilterNodes
      BY DEF FilterNodes
    <3>2. MethodFilter(m) \in Seq(FilterNodes) /\ MethodFilter(m) # << >>
      BY <3>1 DEF MethodFilter
    <3>3. \A k \in DOMAIN MethodFilter(m) : MethodFilter(m)[k].op = "method"
      BY DEF MethodFilter
    <3> QED BY <3>2, <3>3 DEF Filters
  <2> QED BY <2>1, <2>2
<1>2. CASE c.call = "verb"
  <2>1. c.method \in Methods
    BY <1>2 DEF ResourceCalls
  <2> QED BY <1>1, <1>2, <2>1, AppendProperties DEF FiltersOf, OnMethod
<1>3. CASE c.call = "method"
  <2>1. c.method \in Methods /\ c.filters \in Seq(Filters)
    BY <1>3 DEF ResourceCalls
  <2>2. Append(<< >>, MethodFilter(c.method)) \in Seq(Filters)
    BY <1>1, <2>1, AppendProperties
  <2> QED BY <1>3, <2>1, <2>2, ConcatProperties DEF FiltersOf, OnMethod, Guarded
<1>4. CASE c.call = "route"
  <2>1. c.filters \in Seq(Filters)
    BY <1>4 DEF ResourceCalls
  <2> QED BY <1>1, <1>4, <2>1, ConcatProperties DEF FiltersOf, Guarded
<1>5. CASE c.call = "to"
  BY <1>1, <1>5 DEF FiltersOf
<1> QED BY <1>2, <1>3, <1>4, <1>5 DEF RouteCalls

LEMMA NothingHeld == ASSUME NEW calls PROVE Holds(NewResource, calls, 0)
<1>1. \A S : << >> \in Seq(S) /\ Len(<< >>) = 0
  BY EmptySeq
<1>2. \A kinds : Among(calls, 0, kinds) = {}
  BY DEF Among
<1>3. HoldsRoutes(<< >>, calls, 0)
  BY <1>1, <1>2 DEF HoldsRoutes
<1>4. HoldsLayers(<< >>, calls, 0)
  BY <1>1, <1>2, NewestOfNone DEF HoldsLayers
<1>5. HoldsDefault(0, calls, 0)
  BY <1>2 DEF HoldsDefault
<1> QED BY <1>3, <1>4, <1>5 DEF Holds, NewResource

\* One more call is, or is not, of a kind.
LEMMA OneMoreAmong ==
  ASSUME NEW calls, NEW n \in Nat, NEW kinds
  PROVE  /\ Among(calls, n, kinds) \subseteq 1..n
         /\ calls[n + 1].call \in kinds =>
              Among(calls, n + 1, kinds) = Among(calls, n, kinds) \cup {n + 1}
         /\ calls[n + 1].call \notin kinds =>
              Among(calls, n + 1, kinds) = Among(calls, n, kinds)
<1>1. \A j : j \in 1..(n + 1) <=> j \in 1..n \/ j = n + 1
  OBVIOUS
<1> QED BY <1>1 DEF Among

LEMMA RoutesKeep ==
  ASSUME NEW calls, NEW n \in Nat, NEW routes, HoldsRoutes(routes, calls, n),
         calls[n + 1].call \notin RouteCalls
  PROVE  HoldsRoutes(routes, calls, n + 1)
<1>1. [at : 1..n, filters : Seq(Filters)] \subseteq [at : 1..(n + 1), filters : Seq(Filters)]
  <2>1. 1..n \subseteq 1..(n + 1)
    OBVIOUS
  <2> QED BY <2>1
<1>2. routes \in Seq([at : 1..(n + 1), filters : Seq(Filters)])
  <2>1. routes \in Seq([at : 1..n, filters : Seq(Filters)])
    BY DEF HoldsRoutes
  <2> QED BY <1>1, <2>1, SeqMonotonic
<1>3. Among(calls, n + 1, RouteCalls) = Among(calls, n, RouteCalls)
  BY OneMoreAmong
<1> QED BY <1>2, <1>3 DEF HoldsRoutes

LEMMA RouteAdded ==
  ASSUME NEW calls, NEW n \in Nat, NEW routes, HoldsRoutes(routes, calls, n),
         calls[n + 1].call \in RouteCalls, calls[n + 1] \in ResourceCalls
  PROVE  HoldsRoutes(Append(routes, [at |-> n + 1, filters |-> FiltersOf(calls[n + 1])]),
                     calls, n + 1)
<1> DEFINE route == [at |-> n + 1, filters |-> FiltersOf(calls[n + 1])]
           more == Append(routes, route)
           L == Len(routes)
           Type == [at : 1..(n + 1), filters : Seq(Filters)]
<1>1. routes \in Seq(Type)
  <2>1. 1..n \subseteq 1..(n + 1)
    OBVIOUS
  <2>2. [at : 1..n, filters : Seq(Filters)] \subseteq Type
    BY <2>1
  <2>3. routes \in Seq([at : 1..n, filters : Seq(Filters)])
    BY DEF HoldsRoutes
  <2> HIDE DEF Type
  <2> QED BY <2>2, <2>3, SeqMonotonic
<1>2. route \in Type
  BY FiltersType
<1>3. /\ more \in Seq(Type) /\ Len(more) = L + 1 /\ L \in Nat
      /\ \A k \in 1..L : more[k] = routes[k]
      /\ more[L + 1] = route
  <2> HIDE DEF route, Type
  <2> QED BY <1>1, <1>2, AppendProperties, LenProperties
<1>4. \A k \in 1..L : routes[k].at \in 1..n
  <2>1. \A k \in 1..L : routes[k] \in [at : 1..n, filters : Seq(Filters)]
    BY ElementOfSeq DEF HoldsRoutes
  <2> QED BY <2>1
<1>5. route.at = n + 1 /\ route.filters = FiltersOf(calls[n + 1])
  OBVIOUS
<1> HIDE DEF more, route, L
<1>6. ASSUME NEW k \in 1..(L + 1)
      PROVE  /\ calls[more[k].at].call \in RouteCalls
             /\ more[k].filters = FiltersOf(calls[more[k].at])
             /\ \A j \in 1..(k - 1) : more[j].at < more[k].at
  <2>1. CASE k = L + 1
    <3>1. ASSUME NEW j \in 1..(k - 1) PROVE more[j].at < n + 1
      <4>1. j \in 1..L /\ more[j] = routes[j]
        BY <1>3, <2>1
      <4>2. routes[j].at \in 1..n
        BY <1>4, <4>1
      <4> QED BY <4>1, <4>2
    <3> QED BY <1>3, <1>5, <2>1, <3>1
  <2>2. CASE k # L + 1
    <3>1. k \in 1..L /\ \A j \in 1..(k - 1) : j \in 1..L
      BY <1>3, <2>2
    <3>2. /\ calls[routes[k].at].call \in RouteCalls
          /\ routes[k].filters = FiltersOf(calls[routes[k].at])
          /\ \A j \in 1..(k - 1) : routes[j].at < routes[k].at
      BY <3>1 DEF HoldsRoutes, L
    <3> QED BY <1>3, <3>1, <3>2
  <2> QED BY <2>1, <2>2
<1>7. ASSUME NEW j \in Among(calls, n + 1, RouteCalls)
      PROVE  \E k \in 1..(L + 1) : more[k].at = j
  <2>1. j \in Among(calls, n, RouteCalls) \/ j = n + 1
    BY OneMoreAmong
  <2>2. CASE j \in Among(calls, n, RouteCalls)
    <3>1. PICK k \in 1..L : routes[k].at = j
      BY <2>2 DEF HoldsRoutes, L
    <3>2. k \in 1..(L + 1) /\ more[k].at = j
      BY <1>3, <3>1
    <3> QED BY <3>2
  <2>3. CASE j = n + 1
    <3>1. L + 1 \in 1..(L + 1) /\ more[L + 1].at = j
      BY <1>3, <1>5, <2>3
    <3> QED BY <3>1
  <2> QED BY <2>1, <2>2, <2>3
<1>8. HoldsRoutes(more, calls, n + 1)
  BY <1>3, <1>6, <1>7 DEF HoldsRoutes
<1> QED BY <1>8 DEF more, route

LEMMA LayersKeep ==
  ASSUME NEW calls, NEW n \in Nat, NEW layers, HoldsLayers(layers, calls, n),
         calls[n + 1].call # "middleware"
  PROVE  HoldsLayers(layers, calls, n + 1)
BY OneMoreAmong DEF HoldsLayers

LEMMA LayerAdded ==
  ASSUME NEW calls, NEW n \in Nat, NEW layers, HoldsLayers(layers, calls, n),
         calls[n + 1].call = "middleware"
  PROVE  HoldsLayers(<<n + 1>> \o layers, calls, n + 1)
<1> DEFINE S == Among(calls, n, {"middleware"})
<1>1. S \subseteq 1..n /\ Among(calls, n + 1, {"middleware"}) = S \cup {n + 1}
  BY OneMoreAmong
<1>2. Newest(S) \in Seq(Nat) /\ layers = Newest(S)
  BY DEF HoldsLayers
<1> HIDE DEF S
<1>3. /\ Newest(S \cup {n + 1}) = <<n + 1>> \o Newest(S)
      /\ Newest(S \cup {n + 1}) \in Seq(Nat)
  BY <1>1, <1>2, NewestOfMore
<1> QED BY <1>1, <1>2, <1>3 DEF HoldsLayers

LEMMA DefaultKeeps ==
  ASSUME NEW calls, NEW n \in Nat, NEW at, HoldsDefault(at, calls, n),
         calls[n + 1].call # "default_resource"
  PROVE  HoldsDefault(at, calls, n + 1)
BY OneMoreAmong DEF HoldsDefault

LEMMA DefaultReplaced ==
  ASSUME NEW calls, NEW n \in Nat, calls[n + 1].call = "default_resource"
  PROVE  HoldsDefault(n + 1, calls, n + 1)
<1> DEFINE S == Among(calls, n + 1, {"default_resource"})
<1>1. n + 1 \in S /\ S \subseteq 1..(n + 1)
  BY DEF Among
<1> HIDE DEF S
<1>2. n + 1 \in Nat
  OBVIOUS
<1>3. Latest(S) \in S /\ \A j \in S : j <= Latest(S)
  BY <1>1, <1>2, LatestIsLast
<1>4. Latest(S) \in 1..(n + 1) /\ n + 1 <= Latest(S) /\ S # {}
  BY <1>1, <1>3
<1>5. \A l \in 1..(n + 1) : n + 1 <= l => l = n + 1
  OBVIOUS
<1> QED BY <1>4, <1>5 DEF HoldsDefault, S

\* One more call.
LEMMA MoreHeld ==
  ASSUME NEW calls \in Seq(ResourceCalls), NEW n \in Nat, n + 1 <= Len(calls),
         NEW res, Holds(res, calls, n)
  PROVE  Holds(Configured(res, n + 1, calls[n + 1]), calls, n + 1)
<1> DEFINE c == calls[n + 1]
           new == Configured(res, n + 1, c)
<1>1. c \in ResourceCalls
  <2>1. Len(calls) \in Nat /\ n + 1 \in 1..Len(calls)
    BY LenProperties
  <2> QED BY <2>1, ElementOfSeq
<1>2. c.call \in RouteCalls \cup {"default_resource", "middleware"}
  BY <1>1 DEF ResourceCalls, RouteCalls
<1>3. CASE c.call = "default_resource"
  <2>1. new = [routes |-> res.routes, default |-> n + 1, endpoint |-> res.endpoint]
    BY <1>3 DEF Configured, Holds
  <2> HIDE DEF new
  <2> QED BY <1>3, <2>1, RoutesKeep, LayersKeep, DefaultReplaced DEF Holds, RouteCalls, new
<1>4. CASE c.call = "middleware"
  <2>1. new = [routes |-> res.routes, default |-> res.default, endpoint |-> <<n + 1>> \o res.endpoint]
    BY <1>4 DEF Configured, Holds
  <2>2. new.routes = res.routes /\ new.default = res.default /\ new.endpoint = <<n + 1>> \o res.endpoint
    BY <2>1
  <2>3. HoldsLayers(new.endpoint, calls, n + 1)
    BY <1>4, <2>2, LayerAdded DEF Holds
  <2> HIDE DEF new
  <2> QED BY <1>4, <2>1, <2>2, <2>3, RoutesKeep, DefaultKeeps DEF Holds, RouteCalls, new
<1>5. CASE c.call \in RouteCalls
  <2>1. new = [routes |-> Append(res.routes, [at |-> n + 1, filters |-> FiltersOf(c)]),
               default |-> res.default, endpoint |-> res.endpoint]
    BY <1>5 DEF Configured, Holds, RouteCalls
  <2>2. /\ new.routes = Append(res.routes, [at |-> n + 1, filters |-> FiltersOf(c)])
        /\ new.default = res.default /\ new.endpoint = res.endpoint
    BY <2>1
  <2>3. HoldsRoutes(new.routes, calls, n + 1)
    BY <1>1, <1>5, <2>2, RouteAdded DEF Holds
  <2> HIDE DEF new
  <2> QED BY <1>5, <2>1, <2>2, <2>3, LayersKeep, DefaultKeeps DEF Holds, RouteCalls, new
<1> QED BY <1>2, <1>3, <1>4, <1>5

\* What a resource is in the end.
THEOREM ResourceHolds ==
  ASSUME NEW calls \in Seq(ResourceCalls)
  PROVE  Holds(ResourceOf(calls), calls, Len(calls))
<1>1. Len(calls) \in Nat
  BY LenProperties
<1>2. PICK f : /\ f = [n \in 0..Len(calls) |->
                         IF n = 0 THEN NewResource ELSE Configured(f[n - 1], n, calls[n])]
               /\ ResourceOf(calls) = f[Len(calls)]
  BY <1>1, ResourceIsBuilt
<1> DEFINE T == {n \in Nat : n <= Len(calls) => Holds(f[n], calls, n)}
<1>3. 0 \in T
  <2>1. f[0] = NewResource
    BY <1>1, <1>2
  <2> QED BY <2>1, NothingHeld
<1>4. ASSUME NEW n \in Nat, n \in T PROVE n + 1 \in T
  <2>1. SUFFICES ASSUME n + 1 <= Len(calls) PROVE Holds(f[n + 1], calls, n + 1)
    OBVIOUS
  <2>2. Holds(f[n], calls, n)
    BY <1>1, <1>4, <2>1
  <2>3. f[n + 1] = Configured(f[n], n + 1, calls[n + 1])
    <3>1. n + 1 \in 0..Len(calls) /\ n + 1 # 0 /\ (n + 1) - 1 = n
      BY <1>1, <2>1
    <3> QED BY <1>2, <3>1
  <2> QED BY <2>1, <2>2, <2>3, MoreHeld
<1>5. Len(calls) \in T
  <2> HIDE DEF T
  <2> QED BY <1>1, <1>3, <1>4, SetInduction
<1> QED BY <1>1, <1>2, <1>5

-----------------------------------------------------------------------------
(* FilterCheck: the nodes of a filter, children first *)

Ops == {"method", "header", "host", "any", "all", "not"}

LEMMA FilterType ==
  ASSUME NEW filter \in Filters
  PROVE  /\ Len(filter) \in Nat \ {0} /\ DOMAIN filter = 1..Len(filter)
         /\ \A k \in 1..Len(filter) :
              /\ filter[k].op \in Ops
              /\ filter[k].op \in {"any", "all", "not"} => filter[k].of \subseteq 1..(k - 1)
<1>1. filter \in Seq(FilterNodes) /\ filter # << >>
  BY DEF Filters
<1>2. Len(filter) \in Nat /\ DOMAIN filter = 1..Len(filter)
  BY <1>1, LenProperties
<1>3. Len(filter) # 0
  BY <1>1, EmptySeq
<1>4. \A k \in 1..Len(filter) : filter[k].op \in Ops
  <2>1. \A k \in 1..Len(filter) : filter[k] \in FilterNodes
    BY <1>1, ElementOfSeq
  <2> QED BY <2>1 DEF FilterNodes, Ops
<1> QED BY <1>2, <1>3, <1>4 DEF Filters

\* A node says the same of children that say the same.
LEMMA StandsOnChildren ==
  ASSUME NEW f, f.op \in Ops, NEW g, NEW h,
         f.op \in {"any", "all", "not"} => \A c \in f.of : g[c] = h[c]
  PROVE  Stands(g, f, "code") = Stands(h, f, "code")
<1>1. CASE f.op \in {"method", "header", "host"}
  BY <1>1 DEF Stands
<1>2. CASE f.op \in {"any", "not"}
  <2>1. {g[c] : c \in f.of} = {h[c] : c \in f.of}
    BY <1>2
  <2> QED BY <1>2, <2>1 DEF Stands
<1>3. CASE f.op = "all"
  BY <1>3 DEF Stands
<1> QED BY <1>1, <1>2, <1>3 DEF Ops

LEMMA AcceptedIsBuilt ==
  ASSUME NEW filter \in Filters
  PROVE  \E of : /\ \A k \in 1..Len(filter) : of[k] = Stands(of, filter[k], "code")
                 /\ Accepted(filter, "code") = of[Len(filter)]
<1> DEFINE L == Len(filter)
           T == {m \in Nat : m <= L => \E g : g = [k \in 1..m |-> Stands(g, filter[k], "code")]}
<1>1. /\ L \in Nat \ {0} /\ DOMAIN filter = 1..L
      /\ \A k \in 1..L :
           /\ filter[k].op \in Ops
           /\ filter[k].op \in {"any", "all", "not"} => filter[k].of \subseteq 1..(k - 1)
  BY FilterType
<1>2. 0 \in T
  <2> DEFINE g == [k \in 1..0 |-> {}]
  <2>1. g = [k \in 1..0 |-> Stands(g, filter[k], "code")]
    OBVIOUS
  <2> QED BY <2>1
<1>3. ASSUME NEW m \in Nat, m \in T PROVE m + 1 \in T
  <2>1. SUFFICES ASSUME m + 1 <= L
                 PROVE  \E g : g = [k \in 1..(m + 1) |-> Stands(g, filter[k], "code")]
    OBVIOUS
  <2>2. PICK g : g = [k \in 1..m |-> Stands(g, filter[k], "code")]
    BY <1>1, <1>3, <2>1
  <2> DEFINE h == [k \in 1..(m + 1) |-> IF k <= m THEN g[k] ELSE Stands(g, filter[m + 1], "code")]
  <2>3. \A k \in 1..m : k \in 1..(m + 1) /\ h[k] = g[k] /\ k \in 1..L
    BY <1>1, <2>1
  <2>4. ASSUME NEW k \in 1..(m + 1) PROVE h[k] = Stands(h, filter[k], "code")
    <3>1. k \in 1..L
      BY <1>1, <2>1
    <3>2. filter[k].op \in {"any", "all", "not"} => \A c \in filter[k].of : c \in 1..m
      BY <1>1, <3>1
    <3>3. Stands(g, filter[k], "code") = Stands(h, filter[k], "code")
      <4> HIDE DEF h
      <4> QED BY <1>1, <2>3, <3>1, <3>2, StandsOnChildren
    <3>4. h[k] = Stands(g, filter[k], "code")
      <4>1. CASE k <= m
        <5>1. k \in 1..m
          BY <4>1
        <5> QED BY <2>2, <2>3, <5>1
      <4>2. CASE k = m + 1
        BY <4>2
      <4> QED BY <4>1, <4>2
    <3> QED BY <3>3, <3>4
  <2>5. h = [k \in 1..(m + 1) |-> Stands(h, filter[k], "code")]
    BY <2>4
  <2> HIDE DEF h
  <2> QED BY <2>5
<1>4. L \in T
  <2> HIDE DEF T
  <2> QED BY <1>1, <1>2, <1>3, SetInduction
<1>5. PICK g : g = [k \in 1..L |-> Stands(g, filter[k], "code")]
  BY <1>1, <1>4
<1> DEFINE of == CHOOSE h : h = [k \in DOMAIN filter |-> Stands(h, filter[k], "code")]
<1>6. of = [k \in DOMAIN filter |-> Stands(of, filter[k], "code")]
  BY <1>1, <1>5
<1>7. Accepted(filter, "code") = of[L]
  BY DEF Accepted
<1> HIDE DEF of
<1> QED BY <1>1, <1>6, <1>7

LEMMA CheckIsBuilt ==
  ASSUME NEW filter \in Filters, NEW q
  PROVE  \E check : /\ \A k \in 1..Len(filter) :
                         check[k] = NodeCheck(filter[k], q, [c \in 1..(k - 1) |-> check[c]])
                    /\ FilterCheck(filter, q) = check[Len(filter)]
<1> DEFINE L == Len(filter)
           Node(g, k) == NodeCheck(filter[k], q, [c \in 1..(k - 1) |-> g[c]])
           T == {m \in Nat : \E g : g = [k \in 1..m |-> Node(g, k)]}
<1>1. L \in Nat /\ DOMAIN filter = 1..L
  BY FilterType
<1>2. 0 \in T
  <2> DEFINE g == [k \in 1..0 |-> {}]
  <2>1. g = [k \in 1..0 |-> Node(g, k)]
    OBVIOUS
  <2> QED BY <2>1
<1>3. ASSUME NEW m \in Nat, m \in T PROVE m + 1 \in T
  <2>1. PICK g : g = [k \in 1..m |-> Node(g, k)]
    BY <1>3
  <2> DEFINE h == [k \in 1..(m + 1) |-> IF k <= m THEN g[k] ELSE Node(g, m + 1)]
  <2>2. \A k \in 1..m : k \in 1..(m + 1) /\ h[k] = g[k]
    OBVIOUS
  <2>3. ASSUME NEW k \in 1..(m + 1) PROVE h[k] = Node(h, k)
    <3>1. [c \in 1..(k - 1) |-> g[c]] = [c \in 1..(k - 1) |-> h[c]]
      <4>1. \A c \in 1..(k - 1) : g[c] = h[c]
        BY <2>2
      <4> HIDE DEF h
      <4> QED BY <4>1
    <3>2. Node(g, k) = Node(h, k)
      <4> HIDE DEF h
      <4> QED BY <3>1
    <3>3. h[k] = Node(g, k)
      <4>1. CASE k <= m
        <5>1. k \in 1..m
          BY <4>1
        <5> HIDE DEF h, Node
        <5> QED BY <2>1, <2>2, <5>1
      <4>2. CASE k = m + 1
        <5> HIDE DEF Node
        <5> QED BY <4>2
      <4> QED BY <4>1, <4>2
    <3> QED BY <3>2, <3>3
  <2>4. h = [k \in 1..(m + 1) |-> Node(h, k)]
    <3> HIDE DEF Node
    <3> QED BY <2>3
  <2> HIDE DEF h, Node
  <2> QED BY <2>4
<1>4. L \in T
  <2> HIDE DEF T
  <2> QED BY <1>1, <1>2, <1>3, SetInduction
<1>5. PICK g : g = [k \in 1..L |-> Node(g, k)]
  BY <1>4
<1> DEFINE check == CHOOSE h : h = [k \in DOMAIN filter |->
                      NodeCheck(filter[k], q, [c \in 1..(k - 1) |-> h[c]])]
<1>6. check = [k \in DOMAIN filter |-> Node(check, k)]
  BY <1>1, <1>5
<1>7. FilterCheck(filter, q) = check[L]
  BY DEF FilterCheck
<1> HIDE DEF check
<1>8. \A k \in 1..L : check[k] = Node(check, k)
  <2> HIDE DEF Node
  <2> QED BY <1>1, <1>6
<1> QED BY <1>7, <1>8

\* FilterChecksAccepted: checking a filter, node by node on the request
\* (Predicate::check, filter.rs), accepts the requests its declaration stands
\* for in the code's reading.  Where the docs read a host or a header
\* otherwise, nothing is said of theirs.
THEOREM FilterChecksAccepted ==
  ASSUME NEW filter \in Filters, NEW q \in Requests
  PROVE  FilterCheck(filter, q) <=> q \in Accepted(filter, "code")
<1> DEFINE L == Len(filter)
<1>1. /\ L \in Nat \ {0}
      /\ \A k \in 1..L :
           /\ filter[k].op \in Ops
           /\ filter[k].op \in {"any", "all", "not"} => filter[k].of \subseteq 1..(k - 1)
  BY FilterType
<1>2. PICK of : /\ \A k \in 1..L : of[k] = Stands(of, filter[k], "code")
                /\ Accepted(filter, "code") = of[L]
  BY AcceptedIsBuilt
<1>3. PICK check : /\ \A k \in 1..L :
                        check[k] = NodeCheck(filter[k], q, [c \in 1..(k - 1) |-> check[c]])
                   /\ FilterCheck(filter, q) = check[L]
  BY CheckIsBuilt
<1> HIDE DEF L
<1> DEFINE T == {n \in Nat : \A k \in 1..n : k <= L => (check[k] <=> q \in of[k])}
<1>4. 0 \in T
  OBVIOUS
<1>5. ASSUME NEW n \in Nat, n \in T PROVE n + 1 \in T
  <2>1. SUFFICES ASSUME n + 1 <= L PROVE check[n + 1] <=> q \in of[n + 1]
    BY <1>5
  <2> DEFINE f == filter[n + 1]
             child == [c \in 1..n |-> check[c]]
  <2>2. n + 1 \in 1..L /\ (n + 1) - 1 = n
    BY <1>1, <2>1
  <2>3. f.op \in Ops /\ (f.op \in {"any", "all", "not"} => \A c \in f.of : c \in 1..n)
    BY <1>1, <2>2
  <2>4. \A c \in 1..n : child[c] <=> q \in of[c]
    BY <1>1, <1>5, <2>1
  <2>5. check[n + 1] = NodeCheck(f, q, child) /\ of[n + 1] = Stands(of, f, "code")
    BY <1>2, <1>3, <2>2
  <2> HIDE DEF f, child
  <2>6. NodeCheck(f, q, child) <=> q \in Stands(of, f, "code")
    <3>1. CASE f.op = "method"
      BY <3>1 DEF NodeCheck, Stands
    <3>2. CASE f.op = "header"
      BY <3>2 DEF NodeCheck, Stands, HeaderCheck
    <3>3. CASE f.op = "host"
      BY <3>3 DEF NodeCheck, Stands, HostCheck
    <3>4. CASE f.op = "any"
      BY <2>3, <2>4, <3>4 DEF NodeCheck, Stands
    <3>5. CASE f.op = "all"
      BY <2>3, <2>4, <3>5 DEF NodeCheck, Stands
    <3>6. CASE f.op = "not"
      BY <2>3, <2>4, <3>6 DEF NodeCheck, Stands
    <3> QED BY <2>3, <3>1, <3>2, <3>3, <3>4, <3>5, <3>6 DEF Ops
  <2> QED BY <2>5, <2>6
<1>6. L \in T
  <2> HIDE DEF T
  <2> QED BY <1>1, <1>4, <1>5, SetInduction
<1> QED BY <1>1, <1>2, <1>3, <1>6

-----------------------------------------------------------------------------
(* The invariant *)

BuilderType ==
  /\ log \in Seq(Calls) /\ Len(log) <= MaxCalls
  /\ services \in Seq(Entries)
  /\ \A k \in DOMAIN services :
       services[k].kind = "resource" => services[k].cell \in DOMAIN cells
  /\ cells \in Seq(Answers)
  /\ defaults \in Seq(1..Len(cells))
  /\ default \in Answers
  /\ state \in Seq(StateEntries)
  /\ endpoint \in Seq(1..MaxCalls) /\ built \in BOOLEAN

InstanceType ==
  /\ ext \in [Types -> 0..MaxCalls]
  /\ status \in [Instances ->
       {"absent", "starting", "ready", "failed", "dropped", "panicked"}]
  /\ stateFuts \in [Instances -> Seq(StateEntries)]
  /\ hasState \in [Instances -> BOOLEAN]
  /\ items \in [Instances -> Seq(Items)]
  /\ inits \in [Instances -> Seq({"pending", "ok", "err", "taken"})]
  /\ waits \in [Instances -> SUBSET (1..MaxCalls)]
  /\ task \in [Instances -> {"woken", "parked"}]
  /\ router \in [Instances -> Seq(Routables)]
  /\ reqs \in [Slots -> [req : Requests, through : Seq(Nat \X Nat), by : Answers] \cup {NoReq}]

\* What a service is, and the call that registered it.
EntryFits(service) ==
  /\ service.at \in 1..Len(log) /\ service.kind = log[service.at].call
  /\ service.kind = "resource" =>
       LET of == log[service.at].res IN
       /\ service.paths = of.paths
       /\ service.routes = ResourceOf(of.calls).routes
       /\ service.endpoint = ResourceOf(of.calls).endpoint
  /\ service.kind = "service" =>
       service.paths = log[service.at].paths /\ service.routes = << >> /\ service.endpoint = << >>

ServicesFit ==
  /\ Len(services) <= Len(log)
  /\ \A k \in 1..Len(services) :
       EntryFits(services[k]) /\ \A j \in 1..(k - 1) : services[j].at < services[k].at
  /\ \A n \in 1..Len(log) : log[n].call \in {"resource", "service"} =>
       \E k \in 1..Len(services) : services[k].at = n

\* The App knows the cell of a resource as long as no middleware is added.
Known(service) == \A m \in Declared(log, "middleware") : m < service.at

CellFits(service) ==
  LET own == ResourceOf(log[service.at].res.calls).default IN
  /\ Contains(defaults, service.cell) <=> Known(service)
  /\ cells[service.cell] =
       IF own # 0 THEN <<"own_default", service.at, own>>
       ELSE IF built /\ Known(service) THEN default ELSE NoDefault

CellsFit ==
  /\ Len(cells) <= Len(log)
  /\ \A k \in 1..Len(services) : services[k].kind = "resource" => CellFits(services[k])

DefaultFits ==
  LET of == Declared(log, "default_resource") IN
  default = IF of = {} THEN NoDefault ELSE <<"app_default", Latest(of), 0>>

LayersFit == endpoint = Newest(Declared(log, "middleware"))

StateFits ==
  /\ \A k \in 1..Len(state) :
       /\ state[k].value \in 1..Len(log)
       /\ LET c == log[state[k].value] IN
          \/ c.call = "state" /\ state[k].type = c.key
          \/ c.call = "state_factory" /\ state[k].type = Closure
       /\ \A j \in 1..(k - 1) : state[j].value < state[k].value
  /\ \A n \in Declared(log, "state") : \E k \in 1..Len(state) : state[k].value = n

Built ==
  BuilderType /\ ServicesFit /\ CellsFit /\ DefaultFits /\ LayersFit /\ StateFits

\* An entry of a router, or an item that becomes one, and its service.
Serves(entry, service) ==
  /\ entry.kind = service.kind /\ entry.at = service.at /\ entry.paths = service.paths
  /\ entry.routes = service.routes /\ entry.endpoint = service.endpoint
  /\ entry.default = DefaultOf(service)

Starting(i) ==
  status[i] = "starting" =>
    /\ Len(items[i]) = Len(services) /\ Len(inits[i]) = Len(services)
    /\ \A k \in 1..Len(services) :
         /\ Serves(items[i][k], services[k])
         /\ IsPolled(items[i][k]) => inits[i][k] # "taken"
    /\ ~hasState[i] => stateFuts[i] = state
    /\ task[i] = "parked" => waits[i] # {} /\ \A k \in waits[i] : inits[i][k] = "pending"

Running(i) ==
  status[i] = "ready" =>
    /\ hasState[i] /\ Len(router[i]) = Len(services)
    /\ \A k \in 1..Len(services) : Serves(router[i][k], services[k])

Instance(i) ==
  /\ ~built => status[i] = "absent" /\ ~hasState[i]
  /\ Starting(i) /\ Running(i)
  /\ status[i] # "panicked"

Shared ==
  /\ ~built => (\A t \in Types : ext[t] = 0) /\ \A r \in Slots : reqs[r] = NoReq
  /\ \A t \in Keys : ext[t] \in {0, Visible(log, t)}
  /\ StateIsVisible

IInv == Built /\ InstanceType /\ (\A i \in Instances : Instance(i)) /\ Shared

-----------------------------------------------------------------------------
(* One more call in the log *)

LEMMA LogGrows ==
  ASSUME log \in Seq(Calls), NEW c \in Calls, log' = Append(log, c)
  PROVE  /\ log' \in Seq(Calls) /\ Len(log) \in Nat /\ Len(log') = Len(log) + 1
         /\ \A n \in 1..Len(log) : log'[n] = log[n]
         /\ log'[Len(log) + 1] = c
         /\ \A kind : /\ Declared(log, kind) \subseteq 1..Len(log)
                      /\ c.call = kind =>
                           Declared(log', kind) = Declared(log, kind) \cup {Len(log) + 1}
                      /\ c.call # kind => Declared(log', kind) = Declared(log, kind)
<1>1. /\ log' \in Seq(Calls) /\ Len(log) \in Nat /\ Len(log') = Len(log) + 1
      /\ \A n \in 1..Len(log) : log'[n] = log[n]
      /\ log'[Len(log) + 1] = c
  BY AppendProperties, LenProperties
<1>2. \A n : n \in 1..Len(log') <=> n \in 1..Len(log) \/ n = Len(log) + 1
  BY <1>1
<1> QED BY <1>1, <1>2 DEF Declared

\* What a call declared does not depend on the calls after it.
LEMMA EntryKeeps ==
  ASSUME log \in Seq(Calls), NEW c \in Calls, log' = Append(log, c), NEW s, EntryFits(s)
  PROVE  EntryFits(s)' /\ s.at \in 1..Len(log) /\ log'[s.at] = log[s.at]
<1>1. s.at \in 1..Len(log) /\ s.at \in 1..Len(log') /\ log'[s.at] = log[s.at]
  BY LogGrows DEF EntryFits
<1> QED BY <1>1 DEF EntryFits

LEMMA ServicesKeep ==
  ASSUME log \in Seq(Calls), NEW c \in Calls, log' = Append(log, c), ServicesFit,
         services' = services, c.call \notin {"resource", "service"}, services \in Seq(Entries)
  PROVE  ServicesFit'
<1>1. \A k \in 1..Len(services) : EntryFits(services[k])'
  BY EntryKeeps DEF ServicesFit
<1>2. Len(services) <= Len(log')
  BY LogGrows, LenProperties DEF ServicesFit
<1>3. ASSUME NEW n \in 1..Len(log'), log'[n].call \in {"resource", "service"}
      PROVE  \E k \in 1..Len(services) : services[k].at = n
  <2>1. n \in 1..Len(log) /\ log'[n] = log[n]
    BY <1>3, LogGrows
  <2> QED BY <1>3, <2>1 DEF ServicesFit
<1> QED BY <1>1, <1>2, <1>3 DEF ServicesFit

LEMMA ServiceAdded ==
  ASSUME log \in Seq(Calls), NEW c \in Calls, log' = Append(log, c), ServicesFit,
         c.call \in {"resource", "service"}, services \in Seq(Entries),
         NEW new \in Entries, services' = Append(services, new),
         new.at = Len(log) + 1, EntryFits(new)'
  PROVE  ServicesFit'
<1>1. /\ Len(services') = Len(services) + 1 /\ Len(services) \in Nat
      /\ \A k \in 1..Len(services) : services'[k] = services[k]
      /\ services'[Len(services) + 1] = new
  BY AppendProperties, LenProperties
<1>2. /\ Len(log) \in Nat /\ Len(log') = Len(log) + 1
      /\ \A n \in 1..Len(log) : log'[n] = log[n]
  BY LogGrows
<1>3. Len(services') <= Len(log')
  BY <1>1, <1>2 DEF ServicesFit
<1>4. \A k \in 1..Len(services) : EntryFits(services[k])' /\ services[k].at \in 1..Len(log)
  <2>1. \A k \in 1..Len(services) : EntryFits(services'[k])
    BY <1>1 DEF ServicesFit
  <2>2. ASSUME NEW k \in 1..Len(services)
        PROVE  EntryFits(services[k])' /\ services[k].at \in 1..Len(log)
    BY <1>1, <2>1, EntryKeeps
  <2> QED BY <2>2
<1>5. ASSUME NEW k \in 1..Len(services')
      PROVE  EntryFits(services[k])' /\ \A j \in 1..(k - 1) : services'[j].at < services'[k].at
  <2>1. CASE k = Len(services) + 1
    <3>1. ASSUME NEW j \in 1..(k - 1) PROVE services'[j].at < services'[k].at
      <4>1. j \in 1..Len(services) /\ services'[j] = services[j]
        BY <1>1, <2>1
      <4>2. services[j].at \in 1..Len(log)
        BY <1>4, <4>1
      <4> QED BY <1>1, <1>2, <2>1, <4>1, <4>2
    <3> QED BY <1>1, <2>1, <3>1
  <2>2. CASE k # Len(services) + 1
    <3>1. k \in 1..Len(services) /\ \A j \in 1..(k - 1) : j \in 1..Len(services)
      BY <1>1, <2>2
    <3>2. \A j \in 1..(k - 1) : services[j].at < services[k].at
      BY <3>1 DEF ServicesFit
    <3> QED BY <1>1, <1>4, <3>1, <3>2
  <2> QED BY <2>1, <2>2
<1>6. ASSUME NEW n \in 1..Len(log'), log'[n].call \in {"resource", "service"}
      PROVE  \E k \in 1..Len(services') : services'[k].at = n
  <2>1. CASE n = Len(log) + 1
    <3>1. Len(services) + 1 \in 1..Len(services') /\ services'[Len(services) + 1].at = n
      BY <1>1, <2>1
    <3> QED BY <3>1
  <2>2. CASE n # Len(log) + 1
    <3>1. n \in 1..Len(log) /\ log[n].call \in {"resource", "service"}
      BY <1>2, <1>6, <2>2
    <3>2. PICK k \in 1..Len(services) : services[k].at = n
      BY <3>1 DEF ServicesFit
    <3>3. k \in 1..Len(services') /\ services'[k].at = n
      BY <1>1, <3>2
    <3> QED BY <3>3
  <2> QED BY <2>1, <2>2
<1> QED BY <1>3, <1>5, <1>6 DEF ServicesFit

-----------------------------------------------------------------------------
(* The cells of the defaults *)

\* A call that is no middleware leaves what is known of a cell.
LEMMA CellKeeps ==
  ASSUME log \in Seq(Calls), NEW c \in Calls, log' = Append(log, c), NEW s, EntryFits(s),
         CellFits(s), c.call # "middleware", ~built, ~built',
         Contains(defaults', s.cell) <=> Contains(defaults, s.cell),
         cells'[s.cell] = cells[s.cell]
  PROVE  CellFits(s)'
<1>1. log'[s.at] = log[s.at]
  BY EntryKeeps
<1>2. Declared(log', "middleware") = Declared(log, "middleware")
  BY LogGrows
<1>3. Known(s)' <=> Known(s)
  BY <1>2 DEF Known
<1> QED BY <1>1, <1>3 DEF CellFits

\* A middleware gives up the cells of all resources before it.
LEMMA CellForgotten ==
  ASSUME log \in Seq(Calls), NEW c \in Calls, log' = Append(log, c), NEW s, EntryFits(s),
         CellFits(s), c.call = "middleware", ~built, ~built',
         defaults' = << >>, cells' = cells
  PROVE  CellFits(s)'
<1>1. log'[s.at] = log[s.at] /\ s.at \in 1..Len(log) /\ Len(log) \in Nat
  BY EntryKeeps, LogGrows
<1>2. ~Known(s)'
  <2>1. Len(log) + 1 \in Declared(log', "middleware")
    BY LogGrows
  <2> QED BY <1>1, <2>1 DEF Known
<1>3. ~Contains(<< >>, s.cell)
  BY EmptySeq DEF Contains
<1> QED BY <1>1, <1>2, <1>3 DEF CellFits

\* into_new_service fills the empty cells the App knows.
LEMMA CellFilled ==
  ASSUME NEW s, CellFits(s), ~built, built', log' = log, defaults' = defaults,
         default' = default, s.cell \in DOMAIN cells,
         cells' = [k \in DOMAIN cells |-> Filled(k)]
  PROVE  CellFits(s)'
<1> DEFINE own == ResourceOf(log[s.at].res.calls).default
<1>1. Known(s)' <=> Known(s)
  BY DEF Known
<1>2. /\ Contains(defaults, s.cell) <=> Known(s)
      /\ cells[s.cell] = IF own # 0 THEN <<"own_default", s.at, own>> ELSE NoDefault
  BY DEF CellFits
<1>3. cells'[s.cell] = Filled(s.cell)
  OBVIOUS
<1>4. Filled(s.cell) = IF own # 0 THEN <<"own_default", s.at, own>>
                       ELSE IF Known(s) THEN default ELSE NoDefault
  <2> HIDE DEF own
  <2>1. <<"own_default", s.at, own>> # NoDefault
    BY DEF NoDefault
  <2> QED BY <1>2, <2>1 DEF Filled
<1> QED BY <1>1, <1>2, <1>3, <1>4 DEF CellFits

\* Contains on a sequence that grows.
LEMMA ContainsAppended ==
  ASSUME NEW S, NEW seq \in Seq(S), NEW e, NEW x
  PROVE  Contains(Append(seq, e), x) <=> Contains(seq, x) \/ x = e
<1> DEFINE U == S \cup {e}
           L == Len(seq)
           more == Append(seq, e)
<1>1. seq \in Seq(U)
  BY SeqMonotonic
<1>2. e \in U
  OBVIOUS
<1> HIDE DEF U
<1>3. /\ Len(more) = L + 1 /\ L \in Nat
      /\ \A k \in 1..L : more[k] = seq[k]
      /\ more[L + 1] = e
  BY <1>1, <1>2, AppendProperties, LenProperties
<1> HIDE DEF more
<1>4. \A k : k \in 1..(L + 1) <=> k \in 1..L \/ k = L + 1
  BY <1>3
<1> QED BY <1>3, <1>4 DEF Contains, more

-----------------------------------------------------------------------------
(* The state the calls configured *)

LEMMA StateKeeps ==
  ASSUME log \in Seq(Calls), NEW c \in Calls, log' = Append(log, c), StateFits,
         state' = state, c.call # "state"
  PROVE  StateFits'
<1>1. Declared(log', "state") = Declared(log, "state")
  BY LogGrows
<1>2. \A n \in 1..Len(log) : n \in 1..Len(log') /\ log'[n] = log[n]
  BY LogGrows
<1> QED BY <1>1, <1>2 DEF StateFits

LEMMA StateAdded ==
  ASSUME log \in Seq(Calls), NEW c \in Calls, log' = Append(log, c), StateFits,
         state \in Seq(StateEntries), NEW new \in StateEntries, state' = Append(state, new),
         new.value = Len(log) + 1,
         \/ c.call = "state" /\ new.type = c.key
         \/ c.call = "state_factory" /\ new.type = Closure
  PROVE  StateFits'
<1> DEFINE L == Len(state)
<1>1. /\ Len(state') = L + 1 /\ L \in Nat
      /\ \A k \in 1..L : state'[k] = state[k]
      /\ state'[L + 1] = new
  BY AppendProperties, LenProperties
<1>2. /\ Len(log) \in Nat /\ Len(log') = Len(log) + 1 /\ log'[Len(log) + 1] = c
      /\ \A n \in 1..Len(log) : n \in 1..Len(log') /\ log'[n] = log[n]
  BY LogGrows
<1>3. Declared(log', "state") \subseteq Declared(log, "state") \cup {Len(log) + 1}
  BY LogGrows
<1> HIDE DEF L
<1>4. ASSUME NEW k \in 1..(L + 1)
      PROVE  /\ state'[k].value \in 1..Len(log')
             /\ LET d == log'[state'[k].value] IN
                \/ d.call = "state" /\ state'[k].type = d.key
                \/ d.call = "state_factory" /\ state'[k].type = Closure
             /\ \A j \in 1..(k - 1) : state'[j].value < state'[k].value
  <2>1. CASE k = L + 1
    <3>1. ASSUME NEW j \in 1..(k - 1) PROVE state'[j].value < Len(log) + 1
      <4>1. j \in 1..L /\ state'[j] = state[j]
        BY <1>1, <2>1
      <4>2. state[j].value \in 1..Len(log)
        BY <4>1 DEF StateFits, L
      <4> QED BY <1>2, <4>1, <4>2
    <3> QED BY <1>1, <1>2, <2>1, <3>1
  <2>2. CASE k # L + 1
    <3>1. k \in 1..L /\ \A j \in 1..(k - 1) : j \in 1..L
      BY <1>1, <2>2
    <3>2. /\ state[k].value \in 1..Len(log)
          /\ LET d == log[state[k].value] IN
             \/ d.call = "state" /\ state[k].type = d.key
             \/ d.call = "state_factory" /\ state[k].type = Closure
          /\ \A j \in 1..(k - 1) : state[j].value < state[k].value
      BY <3>1 DEF StateFits, L
    <3> QED BY <1>1, <1>2, <3>1, <3>2
  <2> QED BY <2>1, <2>2
<1>5. ASSUME NEW n \in Declared(log', "state") PROVE \E k \in 1..(L + 1) : state'[k].value = n
  <2>1. CASE n \in Declared(log, "state")
    <3>1. PICK k \in 1..L : state[k].value = n
      BY <2>1 DEF StateFits, L
    <3>2. k \in 1..(L + 1) /\ state'[k].value = n
      BY <1>1, <3>1
    <3> QED BY <3>2
  <2>2. CASE n = Len(log) + 1
    <3>1. L + 1 \in 1..(L + 1) /\ state'[L + 1].value = n
      BY <1>1, <2>2
    <3> QED BY <3>1
  <2> QED BY <1>3, <2>1, <2>2
<1> QED BY <1>1, <1>4, <1>5 DEF StateFits

-----------------------------------------------------------------------------
(* The builder *)

\* What follows from a call alone.
LEMMA CallKeepsLog ==
  ASSUME Built, NEW c \in Calls, CanCall(c)
  PROVE  /\ log \in Seq(Calls) /\ log' = Append(log, c) /\ Len(log) \in Nat
         /\ log' \in Seq(Calls) /\ Len(log') <= MaxCalls
         /\ Here \in 1..MaxCalls /\ Here = Len(log) + 1
         /\ ~built /\ ~built' /\ built' \in BOOLEAN
<1>1. /\ log \in Seq(Calls) /\ log' = Append(log, c) /\ Len(log) < MaxCalls
      /\ ~built /\ built' = built
  BY DEF Built, BuilderType, CanCall
<1>2. Len(log) \in Nat /\ Len(log') = Len(log) + 1 /\ log' \in Seq(Calls)
  BY <1>1, LogGrows
<1> QED BY <1>1, <1>2, MaxCallsAssumption DEF Here, Built, BuilderType

LEMMA DefaultKeepsFitting ==
  ASSUME log \in Seq(Calls), NEW c \in Calls, log' = Append(log, c), DefaultFits,
         default' = default, c.call # "default_resource"
  PROVE  DefaultFits'
<1>1. Declared(log', "default_resource") = Declared(log, "default_resource")
  BY LogGrows
<1> QED BY <1>1 DEF DefaultFits

LEMMA LayersKeepFitting ==
  ASSUME log \in Seq(Calls), NEW c \in Calls, log' = Append(log, c), LayersFit,
         endpoint' = endpoint, c.call # "middleware"
  PROVE  LayersFit'
<1>1. Declared(log', "middleware") = Declared(log, "middleware")
  BY LogGrows
<1> QED BY <1>1 DEF LayersFit

LEMMA AddStateKeeps ==
  ASSUME Built, NEW c \in Calls, AddState(c)
  PROVE  Built'
<1> USE DEF Built
<1>1. /\ CanCall(c) /\ c.call \in {"state", "state_factory"}
      /\ state' = Append(state, StateEntry(c))
      /\ UNCHANGED <<services, cells, defaults, default, endpoint>>
  BY DEF AddState
<1>2. /\ log \in Seq(Calls) /\ log' = Append(log, c) /\ log' \in Seq(Calls)
      /\ Len(log') <= MaxCalls /\ Here \in 1..MaxCalls /\ Here = Len(log) + 1
      /\ ~built /\ ~built' /\ built' \in BOOLEAN
  BY <1>1, CallKeepsLog
<1>3. /\ StateEntry(c) \in StateEntries /\ StateEntry(c).value = Len(log) + 1
      /\ \/ c.call = "state" /\ StateEntry(c).type = c.key
         \/ c.call = "state_factory" /\ StateEntry(c).type = Closure
  <2>1. c.call = "state" => c.key \in Keys
    BY DEF Calls
  <2> QED BY <1>1, <1>2, <2>1 DEF StateEntry, StateEntries, Types
<1>4. BuilderType'
  <2>1. state' \in Seq(StateEntries)
    BY <1>1, <1>3, AppendProperties DEF BuilderType
  <2> QED BY <1>1, <1>2, <2>1 DEF BuilderType
<1>5. ServicesFit'
  BY <1>1, <1>2, ServicesKeep DEF BuilderType
<1>6. CellsFit'
  <2>1. \A k \in 1..Len(services) : services[k].kind = "resource" => CellFits(services[k])'
    BY <1>1, <1>2, CellKeeps DEF CellsFit, ServicesFit
  <2>2. Len(cells) <= Len(log')
    BY <1>1, <1>2, LogGrows, LenProperties DEF CellsFit, BuilderType
  <2> QED BY <1>1, <2>1, <2>2 DEF CellsFit
<1>7. DefaultFits' /\ LayersFit'
  BY <1>1, <1>2, DefaultKeepsFitting, LayersKeepFitting
<1>8. StateFits'
  BY <1>1, <1>2, <1>3, StateAdded DEF BuilderType
<1> QED BY <1>4, <1>5, <1>6, <1>7, <1>8

\* The fields of a resource come from its calls.
LEMMA ResourceType ==
  ASSUME NEW c \in Calls, c.call = "resource"
  PROVE  LET res == ResourceOf(c.res.calls) IN
         /\ c.res.paths \in SUBSET Paths
         /\ res.routes \in Seq(RouteRecords) /\ res.endpoint \in Seq(Nat) /\ res.default \in Nat
<1> DEFINE calls == c.res.calls
           res == ResourceOf(calls)
           own == Among(calls, Len(calls), {"default_resource"})
<1>1. c.res \in Resources
  BY DEF Calls
<1>2. c.res.paths \in SUBSET Paths /\ calls \in Seq(ResourceCalls)
  BY <1>1, ResourcesAssumption
<1> HIDE DEF calls
<1>3. Len(calls) \in Nat
  BY <1>2, LenProperties
<1>4. Holds(res, calls, Len(calls))
  BY <1>2, ResourceHolds
<1>5. res.routes \in Seq(RouteRecords)
  <2>1. [at : 1..Len(calls), filters : Seq(Filters)] \subseteq RouteRecords
    <3>1. 1..Len(calls) \subseteq Nat
      BY <1>3
    <3> QED BY <3>1 DEF RouteRecords
  <2>2. res.routes \in Seq([at : 1..Len(calls), filters : Seq(Filters)])
    BY <1>4 DEF Holds, HoldsRoutes
  <2> QED BY <2>1, <2>2, SeqMonotonic
<1>6. res.default \in Nat
  <2>1. res.default = IF own = {} THEN 0 ELSE Latest(own)
    BY <1>4 DEF Holds, HoldsDefault
  <2>2. own \subseteq 1..Len(calls)
    BY DEF Among
  <2> HIDE DEF own
  <2>3. own # {} => Latest(own) \in 1..Len(calls)
    BY <1>3, <2>2, LatestIsLast
  <2> HIDE DEF res
  <2>4. \A n \in 1..Len(calls) : n \in Nat
    BY <1>3
  <2> QED BY <2>1, <2>3, <2>4
<1>7. res.endpoint \in Seq(Nat)
  BY <1>4 DEF Holds, HoldsLayers
<1> QED BY <1>2, <1>5, <1>6, <1>7 DEF calls

LEMMA AddResourceKeeps ==
  ASSUME Built, NEW c \in Calls, AddResource(c)
  PROVE  Built'
<1> USE DEF Built
<1> DEFINE res == ResourceOf(c.res.calls)
<1>0. PICK new, cell :
        /\ new = ResourceEntry(c.res.paths, res, Len(cells) + 1)
        /\ cell = IF res.default # 0 THEN <<"own_default", Here, res.default>> ELSE NoDefault
  OBVIOUS
<1>1. /\ CanCall(c) /\ c.call = "resource"
      /\ cells' = Append(cells, cell) /\ defaults' = Append(defaults, Len(cells) + 1)
      /\ services' = Append(services, new)
      /\ UNCHANGED <<default, state, endpoint>>
  BY <1>0 DEF AddResource
<1>2. /\ log \in Seq(Calls) /\ log' = Append(log, c) /\ log' \in Seq(Calls)
      /\ Len(log') <= MaxCalls /\ Here \in 1..MaxCalls /\ Here = Len(log) + 1
      /\ ~built /\ ~built' /\ built' \in BOOLEAN
  BY <1>1, CallKeepsLog
<1>3. /\ c.res.paths \in SUBSET Paths
      /\ res.routes \in Seq(RouteRecords) /\ res.endpoint \in Seq(Nat) /\ res.default \in Nat
  BY <1>1, ResourceType
<1>4. cell \in Answers
  BY <1>0, <1>2, <1>3, MaxCallsAssumption DEF Answers, Parties, NoDefault
<1>5. /\ new = [kind |-> "resource", at |-> Here, paths |-> c.res.paths, routes |-> res.routes,
                endpoint |-> res.endpoint, cell |-> Len(cells) + 1]
      /\ Len(services) \in Nat /\ Len(cells) \in Nat
      /\ DOMAIN services = 1..Len(services) /\ DOMAIN cells = 1..Len(cells)
  BY <1>0, LenProperties DEF ResourceEntry, BuilderType
<1> HIDE DEF res
<1>6. /\ cells' \in Seq(Answers) /\ Len(cells') = Len(cells) + 1
      /\ \A k \in 1..Len(cells) : cells'[k] = cells[k]
      /\ cells'[Len(cells) + 1] = cell
      /\ DOMAIN cells' = 1..(Len(cells) + 1)
  BY <1>1, <1>4, AppendProperties, LenProperties DEF BuilderType
<1>7. /\ Len(log) \in Nat /\ Len(log') = Len(log) + 1
      /\ Len(cells) <= Len(log) /\ Len(cells) + 1 \in 1..MaxCalls
  <2>1. Len(log) \in Nat /\ Len(log') = Len(log) + 1 /\ Len(cells) <= Len(log)
    BY <1>2, LogGrows DEF CellsFit
  <2> QED BY <1>2, <1>5, <2>1, MaxCallsAssumption
<1>8. new \in Entries /\ new.kind = "resource" /\ new.cell = Len(cells) + 1
  <2>1. Len(cells) + 1 \in 0..MaxCalls
    BY <1>7
  <2> QED BY <1>2, <1>3, <1>5, <2>1 DEF Entries
<1>9. /\ services' \in Seq(Entries) /\ Len(services') = Len(services) + 1
      /\ \A k \in 1..Len(services) : services'[k] = services[k]
      /\ services'[Len(services) + 1] = new
      /\ DOMAIN services' = 1..(Len(services) + 1)
  BY <1>1, <1>8, AppendProperties, LenProperties DEF BuilderType
<1>10. /\ defaults \in Seq(1..Len(cells)) /\ defaults' \in Seq(1..Len(cells'))
  <2>1. 1..Len(cells) \subseteq 1..(Len(cells) + 1) /\ Len(cells) + 1 \in 1..(Len(cells) + 1)
    BY <1>5
  <2>2. defaults \in Seq(1..Len(cells)) /\ defaults \in Seq(1..(Len(cells) + 1))
    BY <2>1, SeqMonotonic DEF BuilderType
  <2> QED BY <1>1, <1>6, <2>1, <2>2, AppendProperties
<1>11. BuilderType'
  <2>1. ASSUME NEW k \in DOMAIN services', services'[k].kind = "resource"
        PROVE  services'[k].cell \in DOMAIN cells'
    <3>1. CASE k = Len(services) + 1
      BY <1>5, <1>6, <1>8, <1>9, <3>1
    <3>2. CASE k # Len(services) + 1
      <4>1. k \in 1..Len(services) /\ services'[k] = services[k]
        BY <1>5, <1>9, <3>2
      <4>2. services[k].cell \in 1..Len(cells)
        BY <1>5, <2>1, <4>1 DEF BuilderType
      <4> QED BY <1>5, <1>6, <4>1, <4>2
    <3> QED BY <3>1, <3>2
  <2> QED BY <1>1, <1>2, <1>6, <1>9, <1>10, <2>1 DEF BuilderType
<1>12. EntryFits(new)'
  <2>1. Len(log) + 1 \in 1..Len(log') /\ log'[Len(log) + 1] = c
    BY <1>2, <1>7, LogGrows
  <2> QED BY <1>1, <1>2, <1>5, <2>1 DEF EntryFits, res
<1>13. ServicesFit'
  BY <1>1, <1>2, <1>5, <1>8, <1>12, ServiceAdded DEF BuilderType
<1>14. CellsFit'
  <2>1. Len(cells') <= Len(log')
    BY <1>5, <1>6, <1>7
  <2>2. \A x : Contains(defaults', x) <=> Contains(defaults, x) \/ x = Len(cells) + 1
    BY <1>1, <1>10, ContainsAppended
  <2>3. CellFits(new)'
    <3>1. Contains(defaults', new.cell)
      BY <1>8, <2>2
    <3>2. Known(new)'
      <4>1. Declared(log', "middleware") \subseteq 1..Len(log)
        BY <1>1, <1>2, LogGrows
      <4> QED BY <1>2, <1>5, <1>7, <4>1 DEF Known
    <3>3. log'[new.at] = c /\ new.at = Here
      BY <1>2, <1>5, LogGrows
    <3> QED BY <1>2, <1>6, <1>8, <1>0, <3>1, <3>2, <3>3 DEF CellFits, res
  <2>4. ASSUME NEW k \in 1..Len(services), services[k].kind = "resource"
        PROVE  CellFits(services'[k])
    <3>1. services[k].cell \in 1..Len(cells) /\ EntryFits(services[k]) /\ CellFits(services[k])
      BY <1>5, <2>4 DEF BuilderType, ServicesFit, CellsFit
    <3> QED BY <1>9, <3>1
  <2>5. ASSUME NEW k \in 1..Len(services), services[k].kind = "resource"
        PROVE  CellFits(services[k])'
    <3>1. services'[k] = services[k] /\ services[k].cell \in 1..Len(cells)
      BY <1>5, <1>9, <2>5 DEF BuilderType
    <3>2. EntryFits(services'[k]) /\ CellFits(services'[k])
      BY <1>9, <2>4, <2>5 DEF ServicesFit
    <3>3. cells'[services'[k].cell] = cells[services'[k].cell]
      BY <1>6, <3>1
    <3>4. Contains(defaults', services'[k].cell) <=> Contains(defaults, services'[k].cell)
      BY <1>5, <2>2, <3>1
    <3> QED BY <1>1, <1>2, <3>2, <3>3, <3>4, CellKeeps
  <2>6. ASSUME NEW k \in 1..Len(services'), services'[k].kind = "resource"
        PROVE  CellFits(services[k])'
    <3>1. CASE k = Len(services) + 1
      BY <1>9, <2>3, <3>1
    <3>2. CASE k # Len(services) + 1
      <4>1. k \in 1..Len(services) /\ services'[k] = services[k]
        BY <1>5, <1>9, <3>2
      <4> QED BY <2>5, <2>6, <4>1
    <3> QED BY <3>1, <3>2
  <2> QED BY <2>1, <2>6 DEF CellsFit
<1>15. DefaultFits' /\ LayersFit' /\ StateFits'
  BY <1>1, <1>2, DefaultKeepsFitting, LayersKeepFitting, StateKeeps
<1> QED BY <1>11, <1>13, <1>14, <1>15

LEMMA AddServiceKeeps ==
  ASSUME Built, NEW c \in Calls, AddService(c)
  PROVE  Built'
<1> USE DEF Built
<1>0. PICK new : new = [kind |-> "service", at |-> Here, paths |-> c.paths, routes |-> << >>,
                        endpoint |-> << >>, cell |-> 0]
  OBVIOUS
<1>1. /\ CanCall(c) /\ c.call = "service" /\ services' = Append(services, new)
      /\ UNCHANGED <<cells, defaults, default, state, endpoint>>
  BY <1>0 DEF AddService
<1>2. /\ log \in Seq(Calls) /\ log' = Append(log, c) /\ log' \in Seq(Calls)
      /\ Len(log') <= MaxCalls /\ Here \in 1..MaxCalls /\ Here = Len(log) + 1
      /\ ~built /\ ~built' /\ built' \in BOOLEAN
  BY <1>1, CallKeepsLog
<1>3. new \in Entries /\ new.kind = "service" /\ new.at = Len(log) + 1
  <2>1. c.paths \in SUBSET Paths
    BY <1>1, ServicesAssumption DEF Calls
  <2>2. \A S : << >> \in Seq(S)
    BY EmptySeq
  <2> QED BY <1>0, <1>2, <2>1, <2>2, MaxCallsAssumption DEF Entries
<1>4. EntryFits(new)'
  <2>1. Len(log) + 1 \in 1..Len(log') /\ log'[Len(log) + 1] = c
    BY <1>2, LogGrows
  <2> QED BY <1>0, <1>1, <1>2, <2>1 DEF EntryFits
<1>5. /\ services' \in Seq(Entries) /\ Len(services') = Len(services) + 1
      /\ Len(services) \in Nat /\ DOMAIN services = 1..Len(services)
      /\ \A k \in 1..Len(services) : services'[k] = services[k]
      /\ services'[Len(services) + 1] = new
      /\ DOMAIN services' = 1..(Len(services) + 1)
  BY <1>1, <1>3, AppendProperties, LenProperties DEF BuilderType
<1>6. \A k \in 1..Len(services') : services'[k].kind = "resource" =>
        k \in 1..Len(services) /\ services'[k] = services[k]
  BY <1>3, <1>5
<1>7. BuilderType'
  <2>1. \A k \in DOMAIN services' : services'[k].kind = "resource" =>
          services'[k].cell \in DOMAIN cells
    BY <1>5, <1>6 DEF BuilderType
  <2> QED BY <1>1, <1>2, <1>5, <2>1 DEF BuilderType
<1>8. ServicesFit'
  BY <1>1, <1>2, <1>3, <1>4, ServiceAdded DEF BuilderType
<1>9. CellsFit'
  <2>1. Len(cells) <= Len(log')
    BY <1>1, <1>2, LogGrows, LenProperties DEF CellsFit, BuilderType
  <2>2. ASSUME NEW k \in 1..Len(services'), services'[k].kind = "resource"
        PROVE  CellFits(services[k])'
    <3>1. EntryFits(services'[k]) /\ CellFits(services'[k])
      BY <1>6, <2>2 DEF CellsFit, ServicesFit
    <3> QED BY <1>1, <1>2, <3>1, CellKeeps
  <2> QED BY <1>1, <2>1, <2>2 DEF CellsFit
<1>10. DefaultFits' /\ LayersFit' /\ StateFits'
  BY <1>1, <1>2, DefaultKeepsFitting, LayersKeepFitting, StateKeeps
<1> QED BY <1>7, <1>8, <1>9, <1>10

LEMMA SetDefaultKeeps ==
  ASSUME Built, NEW c \in Calls, SetDefault(c)
  PROVE  Built'
<1> USE DEF Built
<1>1. /\ CanCall(c) /\ c.call = "default_resource" /\ default' = <<"app_default", Here, 0>>
      /\ UNCHANGED <<services, cells, defaults, state, endpoint>>
  BY DEF SetDefault
<1>2. /\ log \in Seq(Calls) /\ log' = Append(log, c) /\ log' \in Seq(Calls)
      /\ Len(log') <= MaxCalls /\ Here \in 1..MaxCalls /\ Here = Len(log) + 1
      /\ ~built /\ ~built' /\ built' \in BOOLEAN /\ Len(log) \in Nat
  BY <1>1, CallKeepsLog
<1>3. BuilderType'
  <2>1. default' \in Answers
    BY <1>1, <1>2, MaxCallsAssumption DEF Answers, Parties
  <2> QED BY <1>1, <1>2, <2>1 DEF BuilderType
<1>4. ServicesFit'
  BY <1>1, <1>2, ServicesKeep DEF BuilderType
<1>5. CellsFit'
  <2>1. \A k \in 1..Len(services) : services[k].kind = "resource" => CellFits(services[k])'
    BY <1>1, <1>2, CellKeeps DEF CellsFit, ServicesFit
  <2>2. Len(cells) <= Len(log')
    BY <1>1, <1>2, LogGrows, LenProperties DEF CellsFit, BuilderType
  <2> QED BY <1>1, <2>1, <2>2 DEF CellsFit
<1>6. DefaultFits'
  <2> DEFINE S == Declared(log', "default_resource")
  <2>0. /\ Declared(log', "default_resource") = Declared(log, "default_resource") \cup {Len(log) + 1}
        /\ Declared(log, "default_resource") \subseteq 1..Len(log)
    BY <1>1, <1>2, LogGrows
  <2>1. Len(log) + 1 \in S /\ S \subseteq 1..(Len(log) + 1) /\ Len(log) + 1 \in Nat
    BY <1>2, <2>0
  <2> HIDE DEF S
  <2>2. Latest(S) \in S /\ \A j \in S : j <= Latest(S)
    BY <2>1, LatestIsLast
  <2>3. Latest(S) \in 1..(Len(log) + 1) /\ Len(log) + 1 <= Latest(S) /\ S # {}
    BY <2>1, <2>2
  <2>4. \A l \in 1..(Len(log) + 1) : Len(log) + 1 <= l => l = Len(log) + 1
    BY <1>2
  <2> QED BY <1>1, <1>2, <2>3, <2>4 DEF DefaultFits, S
<1>7. LayersFit' /\ StateFits'
  BY <1>1, <1>2, LayersKeepFitting, StateKeeps
<1> QED BY <1>3, <1>4, <1>5, <1>6, <1>7

LEMMA AddMiddlewareKeeps ==
  ASSUME Built, NEW c \in Calls, AddMiddleware(c)
  PROVE  Built'
<1> USE DEF Built
<1>1. /\ CanCall(c) /\ c.call = "middleware" /\ endpoint' = <<Here>> \o endpoint
      /\ defaults' = << >>
      /\ UNCHANGED <<services, cells, default, state>>
  BY DEF AddMiddleware
<1>2. /\ log \in Seq(Calls) /\ log' = Append(log, c) /\ log' \in Seq(Calls)
      /\ Len(log') <= MaxCalls /\ Here \in 1..MaxCalls /\ Here = Len(log) + 1
      /\ ~built /\ ~built' /\ built' \in BOOLEAN /\ Len(log) \in Nat
  BY <1>1, CallKeepsLog
<1>3. BuilderType'
  <2>1. <<Here>> \in Seq(1..MaxCalls)
    BY <1>2
  <2>2. endpoint' \in Seq(1..MaxCalls)
    BY <1>1, <2>1, ConcatProperties DEF BuilderType
  <2>3. << >> \in Seq(1..Len(cells))
    BY EmptySeq
  <2> QED BY <1>1, <1>2, <2>2, <2>3 DEF BuilderType
<1>4. ServicesFit'
  BY <1>1, <1>2, ServicesKeep DEF BuilderType
<1>5. CellsFit'
  <2>1. \A k \in 1..Len(services) : services[k].kind = "resource" => CellFits(services[k])'
    BY <1>1, <1>2, CellForgotten DEF CellsFit, ServicesFit
  <2>2. Len(cells) <= Len(log')
    BY <1>1, <1>2, LogGrows, LenProperties DEF CellsFit, BuilderType
  <2> QED BY <1>1, <2>1, <2>2 DEF CellsFit
<1>6. LayersFit'
  <2> DEFINE S == Declared(log, "middleware")
  <2>1. S \subseteq 1..Len(log) /\ Declared(log', "middleware") = S \cup {Len(log) + 1}
    BY <1>1, <1>2, LogGrows
  <2>2. Newest(S) \in Seq(Nat) /\ endpoint = Newest(S)
    <3>1. 1..MaxCalls \subseteq Nat
      BY MaxCallsAssumption
    <3>2. endpoint \in Seq(Nat)
      BY <3>1, SeqMonotonic DEF BuilderType
    <3> QED BY <3>2 DEF LayersFit
  <2> HIDE DEF S
  <2>3. Newest(S \cup {Len(log) + 1}) = <<Len(log) + 1>> \o Newest(S)
    BY <1>2, <2>1, <2>2, NewestOfMore
  <2> QED BY <1>1, <1>2, <2>1, <2>2, <2>3 DEF LayersFit
<1>7. DefaultFits' /\ StateFits'
  BY <1>1, <1>2, DefaultKeepsFitting, StateKeeps
<1> QED BY <1>3, <1>4, <1>5, <1>6, <1>7

LEMMA IntoNewServiceKeeps ==
  ASSUME Built, IntoNewService
  PROVE  Built'
<1> USE DEF Built
<1>1. /\ ~built /\ built' = TRUE /\ cells' = [k \in DOMAIN cells |-> Filled(k)]
      /\ UNCHANGED <<log, services, defaults, default, state, endpoint>>
  BY DEF IntoNewService
<1>2. /\ cells' \in Seq(Answers) /\ Len(cells') = Len(cells) /\ DOMAIN cells' = DOMAIN cells
      /\ Len(cells) \in Nat
  <2>1. /\ Len(cells) \in Nat /\ DOMAIN cells = 1..Len(cells)
        /\ \A k \in 1..Len(cells) : cells[k] \in Answers
    BY LenProperties, ElementOfSeq DEF BuilderType
  <2>2. \A k \in 1..Len(cells) : Filled(k) \in Answers
    BY <2>1 DEF Filled, BuilderType
  <2>3. cells' \in [1..Len(cells) -> Answers]
    BY <1>1, <2>1, <2>2
  <2>4. cells' \in Seq(Answers)
    BY <2>1, <2>3, SeqDef
  <2>5. Len(cells') = Len(cells)
    BY <2>1, <2>3, <2>4, LenProperties
  <2> QED BY <2>1, <2>3, <2>4, <2>5
<1>3. BuilderType'
  BY <1>1, <1>2 DEF BuilderType
<1>4. ServicesFit'
  <2>1. \A k \in 1..Len(services) : EntryFits(services[k])'
    BY <1>1 DEF ServicesFit, EntryFits
  <2> QED BY <1>1, <2>1 DEF ServicesFit
<1>5. CellsFit'
  <2>1. ASSUME NEW k \in 1..Len(services), services[k].kind = "resource"
        PROVE  CellFits(services[k])'
    <3>1. CellFits(services'[k]) /\ services'[k].cell \in DOMAIN cells
      BY <1>1, <2>1, LenProperties DEF CellsFit, BuilderType
    <3> QED BY <1>1, <3>1, CellFilled
  <2> QED BY <1>1, <1>2, <2>1 DEF CellsFit
<1>6. DefaultFits' /\ LayersFit' /\ StateFits'
  BY <1>1 DEF DefaultFits, LayersFit, StateFits
<1> QED BY <1>3, <1>4, <1>5, <1>6

LEMMA BuilderStepKeeps ==
  ASSUME Built, NEW c \in Calls, BuilderStep(c)
  PROVE  Built' /\ ~built /\ ~built'
<1>1. CanCall(c)
  BY DEF BuilderStep, AddState, AddResource, AddService, SetDefault, AddMiddleware
<1> QED BY <1>1, CallKeepsLog, AddStateKeeps, AddResourceKeeps, AddServiceKeeps, SetDefaultKeeps,
           AddMiddlewareKeeps DEF BuilderStep

\* The instances do not touch what was built.
LEMMA BuiltStays == ASSUME Built, UNCHANGED buildVars PROVE Built'
<1> USE DEF Built, buildVars
<1>1. BuilderType'
  BY DEF BuilderType
<1>2. ServicesFit'
  BY DEF ServicesFit, EntryFits
<1>3. CellsFit'
  BY DEF CellsFit, CellFits, Known
<1>4. DefaultFits' /\ LayersFit' /\ StateFits'
  BY DEF DefaultFits, LayersFit, StateFits
<1> QED BY <1>1, <1>2, <1>3, <1>4

LEMMA InitBuilt == BuilderInit => Built
<1> SUFFICES ASSUME BuilderInit PROVE Built
  OBVIOUS
<1> USE DEF BuilderInit
<1>1. /\ \A S : << >> \in Seq(S)
      /\ Len(<< >>) = 0 /\ DOMAIN << >> = {} /\ 1..0 = {}
      /\ \A kind : Declared(<< >>, kind) = {}
  <2>1. Len(<< >>) = 0 /\ 1..0 = {} /\ DOMAIN << >> = {} /\ \A S : << >> \in Seq(S)
    BY EmptySeq
  <2> QED BY <2>1 DEF Declared
<1>2. NoDefault \in Answers
  BY MaxCallsAssumption DEF NoDefault, Answers, Parties
<1>3. BuilderType
  <2>1. log = << >> /\ services = << >> /\ cells = << >> /\ defaults = << >> /\ state = << >>
        /\ endpoint = << >> /\ built = FALSE /\ default = NoDefault /\ 0 <= MaxCalls
    BY MaxCallsAssumption
  <2> QED BY <1>1, <1>2, <2>1 DEF BuilderType
<1>4. ServicesFit /\ CellsFit /\ DefaultFits /\ StateFits
  BY <1>1 DEF ServicesFit, CellsFit, DefaultFits, StateFits
<1>5. LayersFit
  BY <1>1, NewestOfNone DEF LayersFit
<1> QED BY <1>3, <1>4, <1>5 DEF Built

-----------------------------------------------------------------------------
(* The instances *)

\* A step of another instance.
LEMMA InstanceStays ==
  ASSUME NEW j \in Instances, Instance(j), UNCHANGED buildVars,
         status'[j] = status[j], stateFuts'[j] = stateFuts[j], hasState'[j] = hasState[j],
         items'[j] = items[j], inits'[j] = inits[j], waits'[j] = waits[j],
         task'[j] = task[j], router'[j] = router[j]
  PROVE  Instance(j)'
<1>1. Starting(j)'
  BY DEF Instance, Starting, Serves, DefaultOf, buildVars
<1>2. Running(j)'
  BY DEF Instance, Running, Serves, DefaultOf, buildVars
<1> QED BY <1>1, <1>2 DEF Instance, buildVars

\* What is in the extensions stays right while somebody holds them, and when
\* nobody does after the step.
LEMMA SharedStays ==
  ASSUME Shared, built, UNCHANGED <<buildVars, ext>>, Holders # {} \/ Holders' = {}
  PROVE  Shared'
BY DEF Shared, StateIsVisible, buildVars

LEMMA SharedByInserting ==
  ASSUME built, UNCHANGED buildVars, \A t \in Keys : ext'[t] = Visible(log, t)
  PROVE  Shared'
BY DEF Shared, StateIsVisible, buildVars

\* The loop of AppStateFactoryResult::poll leaves the last value of each type.
LEMMA InsertedIsVisible ==
  ASSUME Built, NEW map, NEW t \in Keys, map[t] \in {0, Visible(log, t)}
  PROVE  Inserted(map, state)[t] = Visible(log, t)
<1> DEFINE of == {k \in 1..Len(state) : state[k].type = t}
           calls == StateCalls(log, t)
<1>1. /\ Len(log) \in Nat /\ Len(state) \in Nat
  BY LenProperties DEF Built, BuilderType
<1>2. t \in Types /\ t # Closure
  BY ClosureAssumption DEF Types
<1>3. \A k \in of : state[k].value \in calls
  BY <1>2 DEF Built, StateFits, StateCalls, Declared
<1>4. \A n \in calls : \E k \in of : state[k].value = n
  <2> SUFFICES ASSUME NEW n \in calls PROVE \E k \in of : state[k].value = n
    OBVIOUS
  <2>1. n \in Declared(log, "state") /\ log[n].call = "state" /\ log[n].key = t
    BY DEF StateCalls, Declared
  <2>2. PICK k \in 1..Len(state) : state[k].value = n
    BY <2>1 DEF Built, StateFits
  <2>3. state[k].type = t
    BY <2>1, <2>2 DEF Built, StateFits
  <2> QED BY <2>2, <2>3
<1>5. Inserted(map, state)[t] = IF of = {} THEN map[t] ELSE state[Latest(of)].value
  BY <1>2 DEF Inserted
<1>6. CASE of = {}
  <2>1. calls = {}
    BY <1>4, <1>6
  <2> QED BY <1>5, <1>6, <2>1 DEF Visible
<1>7. CASE of # {}
  <2>1. of \subseteq 1..Len(state) /\ calls \subseteq 1..Len(log)
    BY DEF StateCalls, Declared
  <2>2. \A j, k \in of : j <= k => state[j].value <= state[k].value
    <3> SUFFICES ASSUME NEW j \in of, NEW k \in of, j <= k
                 PROVE  state[j].value <= state[k].value
      OBVIOUS
    <3>1. /\ j \in 1..Len(state) /\ k \in 1..Len(state)
          /\ state[j].value \in 1..Len(log) /\ state[k].value \in 1..Len(log)
      BY DEF Built, StateFits
    <3>2. CASE j = k
      BY <1>1, <3>1, <3>2
    <3>3. CASE j # k
      <4>1. j \in 1..(k - 1)
        BY <1>1, <3>1, <3>3
      <4>2. state[j].value < state[k].value
        BY <3>1, <4>1 DEF Built, StateFits
      <4> QED BY <1>1, <3>1, <4>2
    <3> QED BY <3>2, <3>3
  <2> HIDE DEF of, calls
  <2>3. Latest(of) \in of /\ \A k \in of : k <= Latest(of)
    BY <1>1, <1>7, <2>1, LatestIsLast
  <2>4. PICK last \in calls : last = state[Latest(of)].value
    BY <1>3, <2>3
  <2>5. \A n \in calls : n <= last
    BY <1>4, <2>2, <2>3, <2>4
  <2>6. Latest(calls) \in calls /\ \A n \in calls : n <= Latest(calls)
    BY <1>1, <2>1, <2>4, LatestIsLast
  <2>7. Latest(calls) = last
    <3>1. Latest(calls) <= last /\ last <= Latest(calls)
      BY <2>4, <2>5, <2>6
    <3>2. Latest(calls) \in 1..Len(log) /\ last \in 1..Len(log)
      BY <2>1, <2>4, <2>6
    <3> QED BY <1>1, <3>1, <3>2
  <2>8. Visible(log, t) = Latest(calls)
    BY <2>4 DEF Visible, calls
  <2> QED BY <1>5, <1>7, <2>4, <2>7, <2>8
<1> QED BY <1>6, <1>7

LEMMA InsertedType ==
  ASSUME NEW map \in [Types -> 0..MaxCalls], NEW futs \in Seq(StateEntries)
  PROVE  Inserted(map, futs) \in [Types -> 0..MaxCalls]
<1> SUFFICES ASSUME NEW t \in Types PROVE Inserted(map, futs)[t] \in 0..MaxCalls
  BY DEF Inserted
<1> DEFINE of == {k \in 1..Len(futs) : futs[k].type = t}
<1>1. Len(futs) \in Nat /\ \A k \in 1..Len(futs) : futs[k].value \in 1..MaxCalls
  <2>1. Len(futs) \in Nat /\ \A k \in 1..Len(futs) : futs[k] \in StateEntries
    BY LenProperties, ElementOfSeq
  <2> QED BY <2>1 DEF StateEntries
<1>2. of \subseteq 1..Len(futs)
  OBVIOUS
<1>3. Inserted(map, futs)[t] = IF of = {} THEN map[t] ELSE futs[Latest(of)].value
  BY DEF Inserted
<1> HIDE DEF of
<1>4. of # {} => Latest(of) \in 1..Len(futs)
  BY <1>1, <1>2, LatestIsLast
<1>5. 1..MaxCalls \subseteq 0..MaxCalls
  BY MaxCallsAssumption
<1> QED BY <1>1, <1>3, <1>4, <1>5

\* What the invariant says of an instance under construction.
LEMMA UnderConstruction ==
  ASSUME IInv, NEW i \in Instances, status[i] = "starting"
  PROVE  /\ built /\ Starting(i)
         /\ Len(services) \in Nat /\ Len(services) <= MaxCalls
         /\ DOMAIN services = 1..Len(services)
         /\ items[i] \in Seq(Items) /\ inits[i] \in Seq({"pending", "ok", "err", "taken"})
         /\ DOMAIN items[i] = 1..Len(services) /\ DOMAIN inits[i] = 1..Len(services)
         /\ \A k \in 1..Len(services) :
              /\ items[i][k] \in Items /\ inits[i][k] \in {"pending", "ok", "err", "taken"}
              /\ Serves(items[i][k], services[k])
              /\ IsPolled(items[i][k]) => inits[i][k] # "taken"
<1>1. Instance(i) /\ built /\ Starting(i)
  BY DEF IInv, Instance, InstanceType
<1>2. /\ Len(services) \in Nat /\ Len(log) \in Nat /\ DOMAIN services = 1..Len(services)
      /\ Len(services) <= Len(log) /\ Len(log) <= MaxCalls
  BY LenProperties DEF IInv, Built, BuilderType, ServicesFit
<1>3. items[i] \in Seq(Items) /\ inits[i] \in Seq({"pending", "ok", "err", "taken"})
  BY DEF IInv, InstanceType
<1>4. Len(items[i]) = Len(services) /\ Len(inits[i]) = Len(services)
  BY <1>1 DEF Starting
<1>5. DOMAIN items[i] = 1..Len(services) /\ DOMAIN inits[i] = 1..Len(services)
  BY <1>3, <1>4, LenProperties
<1>6. \A k \in 1..Len(services) :
        items[i][k] \in Items /\ inits[i][k] \in {"pending", "ok", "err", "taken"}
  BY <1>3, <1>4, ElementOfSeq
<1>7. Len(services) <= MaxCalls
  BY <1>2, MaxCallsAssumption
<1> QED BY <1>1, <1>2, <1>3, <1>5, <1>6, <1>7 DEF Starting

\* A new item, made from a service.
LEMMA NewItemFits ==
  ASSUME Built, NEW k \in 1..Len(services)
  PROVE  /\ NewItem(services[k]) \in Items /\ Serves(NewItem(services[k]), services[k])
         /\ NewInit(services[k]) \in {"pending", "ok"}
<1>1. DOMAIN services = 1..Len(services) /\ services[k] \in Entries
  BY LenProperties, ElementOfSeq DEF Built, BuilderType
<1>2. DefaultOf(services[k]) \in Answers
  <2>1. CASE services[k].kind = "resource"
    <3>1. services[k].cell \in DOMAIN cells
      BY <1>1, <2>1 DEF Built, BuilderType
    <3>2. cells[services[k].cell] \in Answers
      BY <3>1, LenProperties, ElementOfSeq DEF Built, BuilderType
    <3> QED BY <2>1, <3>2 DEF DefaultOf
  <2>2. CASE services[k].kind # "resource"
    BY <2>2, MaxCallsAssumption DEF DefaultOf, NoDefault, Answers, Parties
  <2> QED BY <2>1, <2>2
<1>3. /\ services[k].kind \in {"resource", "service"} /\ services[k].at \in 1..MaxCalls
      /\ services[k].paths \in SUBSET Paths /\ services[k].routes \in Seq(RouteRecords)
      /\ services[k].endpoint \in Seq(Nat)
  BY <1>1 DEF Entries
<1>4. NewItem(services[k]) \in Items
  BY <1>2, <1>3 DEF NewItem, Items
<1> QED BY <1>4 DEF NewItem, Serves, NewInit

LEMMA NewServiceKeeps ==
  ASSUME IInv, NEW i \in Instances, NewService(i)
  PROVE  IInv'
<1>0. PICK newItems, newInits :
        /\ newItems = [k \in 1..Len(services) |-> NewItem(services[k])]
        /\ newInits = [k \in 1..Len(services) |-> NewInit(services[k])]
  OBVIOUS
<1>1. /\ Built /\ InstanceType /\ Shared /\ built /\ UNCHANGED buildVars /\ built'
      /\ UNCHANGED <<ext, hasState, waits, router, reqs>>
      /\ status' = [status EXCEPT ![i] = "starting"]
      /\ task' = [task EXCEPT ![i] = "woken"]
      /\ stateFuts' = [stateFuts EXCEPT ![i] = state]
  BY DEF IInv, NewService, buildVars
<1>2. Len(services) \in Nat /\ DOMAIN services = 1..Len(services)
  BY <1>1, LenProperties DEF Built, BuilderType
<1>3. /\ items' = [items EXCEPT ![i] = newItems]
      /\ inits' = [inits EXCEPT ![i] = newInits]
  BY <1>0, <1>2 DEF NewService
<1>4. /\ newItems \in Seq(Items) /\ Len(newItems) = Len(services)
      /\ newInits \in Seq({"pending", "ok", "err", "taken"}) /\ Len(newInits) = Len(services)
  <2>1. /\ newItems \in [1..Len(services) -> Items]
        /\ newInits \in [1..Len(services) -> {"pending", "ok", "err", "taken"}]
    BY <1>0, <1>1, NewItemFits
  <2>2. newItems \in Seq(Items) /\ newInits \in Seq({"pending", "ok", "err", "taken"})
    BY <1>2, <2>1, SeqDef
  <2> QED BY <1>2, <2>1, <2>2, LenProperties
<1>5. \A k \in 1..Len(services) : Serves(newItems[k], services[k]) /\ newInits[k] # "taken"
  BY <1>0, <1>1, NewItemFits
<1>6. InstanceType'
  <2>1. state \in Seq(StateEntries)
    BY <1>1 DEF Built, BuilderType
  <2> QED BY <1>1, <1>3, <1>4, <2>1 DEF InstanceType
<1>7. Instance(i)'
  <2>1. /\ status'[i] = "starting" /\ task'[i] = "woken" /\ stateFuts'[i] = state
        /\ items'[i] = newItems /\ inits'[i] = newInits
    BY <1>1, <1>3 DEF InstanceType
  <2>2. UNCHANGED <<services, cells, state>>
    BY <1>1 DEF buildVars
  <2>3. \A k \in 1..Len(services) : Serves(items[i][k], services[k])'
    BY <1>5, <2>1, <2>2 DEF Serves, DefaultOf
  <2>4. Starting(i)'
    BY <1>4, <1>5, <2>1, <2>2, <2>3 DEF Starting
  <2> QED BY <1>1, <2>1, <2>4 DEF Instance, Running
<1>8. ASSUME NEW j \in Instances, j # i PROVE Instance(j)'
  BY <1>1, <1>3, <1>8, InstanceStays DEF IInv, InstanceType
<1>9. Shared'
  <2>1. Holders' = Holders
    BY <1>1 DEF Holders
  <2> QED BY <1>1, <2>1, SharedStays
<1> QED BY <1>1, <1>6, <1>7, <1>8, <1>9, BuiltStays DEF IInv

LEMMA CompleteKeeps ==
  ASSUME IInv, NEW i \in Instances, NEW k, NEW result \in {"ok", "err"}, Complete(i, k, result)
  PROVE  IInv'
<1>0. PICK newInits, newWaits :
        newInits = [inits[i] EXCEPT ![k] = result] /\ newWaits = waits[i] \ {k}
  OBVIOUS
<1>1. /\ Built /\ InstanceType /\ Shared /\ UNCHANGED buildVars
      /\ UNCHANGED <<ext, status, stateFuts, hasState, items, router, reqs>>
      /\ status[i] = "starting" /\ k \in DOMAIN inits[i] /\ inits[i][k] = "pending"
      /\ inits' = [inits EXCEPT ![i] = newInits] /\ waits' = [waits EXCEPT ![i] = newWaits]
      /\ task' = [task EXCEPT ![i] = IF k \in waits[i] THEN "woken" ELSE task[i]]
  <2>1. inits' = [inits EXCEPT ![i] = newInits] /\ waits' = [waits EXCEPT ![i] = newWaits]
    BY <1>0 DEF Complete
  <2> QED BY <2>1 DEF IInv, Complete, buildVars
<1>2. /\ built /\ Starting(i) /\ Len(services) \in Nat
      /\ inits[i] \in Seq({"pending", "ok", "err", "taken"})
      /\ DOMAIN inits[i] = 1..Len(services) /\ DOMAIN items[i] = 1..Len(services)
      /\ Len(inits[i]) = Len(services) /\ Len(items[i]) = Len(services)
      /\ \A n \in 1..Len(services) : Serves(items[i][n], services[n])
  BY <1>1, UnderConstruction DEF Starting
<1>3. /\ newInits \in Seq({"pending", "ok", "err", "taken"}) /\ Len(newInits) = Len(services)
      /\ \A n \in 1..Len(services) : newInits[n] = IF n = k THEN result ELSE inits[i][n]
  <2>1. newInits \in [1..Len(services) -> {"pending", "ok", "err", "taken"}]
    <3>1. \A n \in 1..Len(services) : inits[i][n] \in {"pending", "ok", "err", "taken"}
      BY <1>2, ElementOfSeq
    <3>2. inits[i] \in [1..Len(services) -> {"pending", "ok", "err", "taken"}]
      BY <1>2, LenProperties
    <3> QED BY <1>0, <3>2
  <2>2. newInits \in Seq({"pending", "ok", "err", "taken"})
    BY <1>2, <2>1, SeqDef
  <2> QED BY <1>0, <1>1, <1>2, <2>1, <2>2, LenProperties
<1>4. InstanceType'
  BY <1>0, <1>1, <1>3 DEF InstanceType
<1>5. Instance(i)'
  <2>1. /\ inits'[i] = newInits /\ waits'[i] = newWaits
        /\ task'[i] = IF k \in waits[i] THEN "woken" ELSE task[i]
    BY <1>1 DEF InstanceType
  <2>2. UNCHANGED <<services, cells, state, built>>
    BY <1>1 DEF buildVars
  <2>3. \A n \in 1..Len(services) : Serves(items[i][n], services[n])'
    BY <1>1, <1>2, <2>2 DEF Serves, DefaultOf
  <2>4. \A n \in 1..Len(services) : IsPolled(items[i][n]) => newInits[n] # "taken"
    BY <1>1, <1>2, <1>3 DEF Starting
  <2>5. ASSUME task'[i] = "parked"
        PROVE  newWaits # {} /\ \A n \in newWaits : newInits[n] = "pending"
    <3>1. k \notin waits[i] /\ task[i] = "parked"
      BY <2>1, <2>5
    <3>2. newWaits = waits[i] /\ waits[i] # {} /\ \A n \in waits[i] : inits[i][n] = "pending"
      BY <1>0, <1>1, <1>2, <3>1 DEF Starting
    <3>3. \A n \in waits[i] : newInits[n] = inits[i][n]
      BY <1>0, <1>2, <3>1
    <3> QED BY <3>2, <3>3
  <2>6. Starting(i)'
    BY <1>1, <1>2, <1>3, <2>1, <2>2, <2>3, <2>4, <2>5 DEF Starting
  <2> QED BY <1>1, <1>2, <2>2, <2>6 DEF Instance, Running
<1>6. ASSUME NEW j \in Instances, j # i PROVE Instance(j)'
  BY <1>1, <1>6, InstanceStays DEF IInv, InstanceType
<1>7. Shared'
  <2>1. Holders' = Holders
    BY <1>1 DEF Holders
  <2> QED BY <1>1, <1>2, <2>1, SharedStays
<1> QED BY <1>1, <1>4, <1>5, <1>6, <1>7, BuiltStays DEF IInv

\* An instance that fails or is dropped lets go of everything.
LEMMA DiscardKeeps ==
  ASSUME IInv, NEW i \in Instances, NEW how \in {"failed", "dropped"}, built,
         Discard(i, how), stateFuts' = [stateFuts EXCEPT ![i] = << >>],
         UNCHANGED <<buildVars, reqs>>, ext' \in [Types -> 0..MaxCalls]
  PROVE  Built' /\ InstanceType' /\ (\A j \in Instances : Instance(j)') /\ Holders' \subseteq Holders
<1>1. /\ Built /\ InstanceType /\ UNCHANGED buildVars /\ reqs' = reqs /\ built'
      /\ status'   = [status   EXCEPT ![i] = how]
      /\ hasState' = [hasState EXCEPT ![i] = FALSE]
      /\ items'    = [items    EXCEPT ![i] = << >>]
      /\ inits'    = [inits    EXCEPT ![i] = << >>]
      /\ waits'    = [waits    EXCEPT ![i] = {}]
      /\ task'     = [task     EXCEPT ![i] = "parked"]
      /\ router'   = [router   EXCEPT ![i] = << >>]
  BY DEF IInv, Discard, buildVars
<1>2. InstanceType'
  <2>1. \A S : << >> \in Seq(S)
    BY EmptySeq
  <2> QED BY <1>1, <2>1 DEF InstanceType
<1>3. Instance(i)'
  <2>1. status'[i] = how
    BY <1>1 DEF InstanceType
  <2> QED BY <1>1, <2>1 DEF Instance, Starting, Running
<1>4. ASSUME NEW j \in Instances, j # i PROVE Instance(j)'
  BY <1>1, <1>4, InstanceStays DEF IInv, InstanceType
<1>5. Holders' \subseteq Holders
  <2>1. \A j \in Instances : hasState'[j] => hasState[j]
    BY <1>1 DEF InstanceType
  <2> QED BY <1>1, <2>1 DEF Holders
<1> QED BY <1>1, <1>2, <1>3, <1>4, <1>5, BuiltStays

LEMMA DropKeeps ==
  ASSUME IInv, NEW i \in Instances, Drop(i)
  PROVE  IInv'
<1>1. built
  BY DEF IInv, Instance, Drop
<1>2. /\ Discard(i, "dropped") /\ stateFuts' = [stateFuts EXCEPT ![i] = << >>]
      /\ UNCHANGED <<buildVars, ext, reqs>> /\ ext' \in [Types -> 0..MaxCalls]
  BY DEF Drop, IInv, InstanceType
<1>3. Built' /\ InstanceType' /\ (\A j \in Instances : Instance(j)') /\ Holders' \subseteq Holders
  BY <1>1, <1>2, DiscardKeeps
<1>4. Shared'
  BY <1>1, <1>2, <1>3, SharedStays DEF IInv
<1> QED BY <1>3, <1>4 DEF IInv

-----------------------------------------------------------------------------
(* A poll of an instance under construction *)

\* The state part of a poll either inserts what the builder held, or finds
\* that somebody holds the extensions, with everything in them.
LEMMA StateIsShared ==
  ASSUME IInv, NEW i \in Instances, status[i] = "starting", UNCHANGED buildVars,
         IF MustConstruct(i) THEN ext' = Inserted(ext, stateFuts[i]) ELSE UNCHANGED ext
  PROVE  ext' \in [Types -> 0..MaxCalls] /\ Shared'
<1>1. built /\ Starting(i) /\ Built /\ Shared /\ InstanceType
  BY UnderConstruction DEF IInv
<1>2. CASE MustConstruct(i)
  <2>1. stateFuts[i] = state /\ state \in Seq(StateEntries)
    BY <1>1, <1>2 DEF Starting, MustConstruct, Built, BuilderType
  <2>2. ext' = Inserted(ext, state)
    BY <1>2, <2>1
  <2>3. ext' \in [Types -> 0..MaxCalls]
    BY <1>1, <2>1, <2>2, InsertedType DEF InstanceType
  <2>4. \A t \in Keys : ext[t] \in {0, Visible(log, t)}
    BY <1>1 DEF Shared
  <2>5. \A t \in Keys : ext'[t] = Visible(log, t)
    BY <1>1, <2>2, <2>4, InsertedIsVisible
  <2> QED BY <1>1, <2>3, <2>5, SharedByInserting
<1>3. CASE ~MustConstruct(i)
  <2>1. ext' = ext
    BY <1>3
  <2>2. Holders # {}
    BY <1>3 DEF MustConstruct, Holders
  <2> QED BY <1>1, <2>1, <2>2, SharedStays DEF InstanceType
<1> QED BY <1>2, <1>3

\* Failing is the only way a poll ends badly: no future gave its result yet.
LEMMA BadHasFailed ==
  ASSUME IInv, NEW i \in Instances, status[i] = "starting", Bad(i) # {}
  PROVE  inits[i][Earliest(Bad(i))] = "err"
<1>1. Bad(i) \subseteq 1..Len(services) /\ 1..Len(services) \subseteq Nat
  BY UnderConstruction DEF Bad, Polled
<1>2. Earliest(Bad(i)) \in Bad(i)
  BY <1>1, EarliestIsFirst
<1> QED BY <1>1, <1>2, UnderConstruction DEF Bad, Polled

LEMMA PollFailsKeeps ==
  ASSUME IInv, NEW i \in Instances, PollFails(i)
  PROVE  IInv'
<1>1. /\ status[i] = "starting" /\ Bad(i) # {} /\ UNCHANGED <<buildVars, reqs>>
      /\ IF MustConstruct(i) THEN ext' = Inserted(ext, stateFuts[i]) ELSE UNCHANGED ext
      /\ stateFuts' = [stateFuts EXCEPT ![i] = << >>]
  BY DEF PollFails, Awake
<1>2. Discard(i, "failed")
  BY <1>1, BadHasFailed DEF PollFails
<1>3. built
  BY <1>1, UnderConstruction
<1>4. ext' \in [Types -> 0..MaxCalls] /\ Shared'
  BY <1>1, StateIsShared
<1>5. Built' /\ InstanceType' /\ (\A j \in Instances : Instance(j)')
  BY <1>1, <1>2, <1>3, <1>4, DiscardKeeps
<1> QED BY <1>4, <1>5 DEF IInv

\* The items of an instance after a poll in which none of them failed.
LEMMA PolledItemFits ==
  ASSUME IInv, NEW i \in Instances, status[i] = "starting", NEW k \in 1..Len(services)
  PROVE  LET item == PolledItem(i, k)
             init == IF k \in Polled(i) /\ inits[i][k] = "ok" THEN "taken" ELSE inits[i][k]
         IN  /\ item \in Items /\ init \in {"pending", "ok", "err", "taken"}
             /\ Serves(item, services[k])
             /\ IsPolled(item) => init # "taken"
<1>1. /\ items[i][k] \in Items /\ inits[i][k] \in {"pending", "ok", "err", "taken"}
      /\ Serves(items[i][k], services[k])
      /\ IsPolled(items[i][k]) => inits[i][k] # "taken"
      /\ k \in DOMAIN items[i]
  BY UnderConstruction
<1>2. CASE k \in Polled(i) /\ inits[i][k] = "ok"
  <2>1. PolledItem(i, k) = [items[i][k] EXCEPT !.stage = "service"]
    BY <1>2 DEF PolledItem
  <2>2. PolledItem(i, k) \in Items /\ PolledItem(i, k).stage = "service"
    BY <1>1, <2>1 DEF Items
  <2>3. Serves(PolledItem(i, k), services[k])
    BY <1>1, <2>1 DEF Serves, Items
  <2> QED BY <1>2, <2>2, <2>3 DEF IsPolled
<1>3. CASE ~(k \in Polled(i) /\ inits[i][k] = "ok")
  BY <1>1, <1>3 DEF PolledItem, Polled
<1> QED BY <1>2, <1>3

LEMMA PollNotReadyKeeps ==
  ASSUME IInv, NEW i \in Instances, PollNotReady(i)
  PROVE  IInv'
<1>0. PICK newItems, newInits, newWaits :
        /\ newItems = [k \in 1..Len(services) |-> PolledItem(i, k)]
        /\ newInits = [k \in 1..Len(services) |->
                         IF k \in Polled(i) /\ inits[i][k] = "ok" THEN "taken" ELSE inits[i][k]]
        /\ newWaits = NotReady(i)
  OBVIOUS
<1>1. /\ Built /\ InstanceType /\ Shared /\ status[i] = "starting" /\ NotReady(i) # {}
      /\ UNCHANGED <<buildVars, status, router, reqs>>
      /\ IF MustConstruct(i) THEN ext' = Inserted(ext, stateFuts[i]) ELSE UNCHANGED ext
      /\ \/ stateFuts' = [stateFuts EXCEPT ![i] = << >>]
         \/ stateFuts' = stateFuts
      /\ hasState' = [hasState EXCEPT ![i] = TRUE]
      /\ task' = [task EXCEPT ![i] = "parked"]
  BY DEF IInv, PollNotReady, Awake, Done, StateReady, PollState, Remaining, buildVars
<1>2. /\ built /\ DOMAIN items[i] = 1..Len(services) /\ DOMAIN inits[i] = 1..Len(services)
      /\ Len(services) \in Nat /\ Len(services) <= MaxCalls
  BY <1>1, UnderConstruction
<1>3. /\ items' = [items EXCEPT ![i] = newItems] /\ inits' = [inits EXCEPT ![i] = newInits]
      /\ waits' = [waits EXCEPT ![i] = newWaits]
  BY <1>0, <1>2 DEF PollNotReady, PollItems
<1>4. /\ newItems \in Seq(Items) /\ Len(newItems) = Len(services)
      /\ newInits \in Seq({"pending", "ok", "err", "taken"}) /\ Len(newInits) = Len(services)
      /\ \A k \in 1..Len(services) :
           Serves(newItems[k], services[k]) /\ (IsPolled(newItems[k]) => newInits[k] # "taken")
  <2>1. \A k \in 1..Len(services) :
          /\ newItems[k] \in Items /\ newInits[k] \in {"pending", "ok", "err", "taken"}
          /\ Serves(newItems[k], services[k]) /\ (IsPolled(newItems[k]) => newInits[k] # "taken")
    BY <1>0, <1>1, PolledItemFits
  <2>2. /\ newItems \in [1..Len(services) -> Items]
        /\ newInits \in [1..Len(services) -> {"pending", "ok", "err", "taken"}]
    BY <1>0, <2>1
  <2>3. newItems \in Seq(Items) /\ newInits \in Seq({"pending", "ok", "err", "taken"})
    BY <1>2, <2>2, SeqDef
  <2> QED BY <1>2, <2>1, <2>2, <2>3, LenProperties
<1>5. /\ newWaits \subseteq 1..Len(services) /\ newWaits \subseteq 1..MaxCalls /\ newWaits # {}
      /\ \A k \in newWaits : newInits[k] = "pending"
  <2>1. newWaits \subseteq 1..Len(services) /\ \A k \in newWaits : inits[i][k] = "pending"
    BY <1>0, <1>2 DEF NotReady, Polled
  <2>2. 1..Len(services) \subseteq 1..MaxCalls
    BY <1>2, MaxCallsAssumption
  <2> QED BY <1>0, <1>1, <2>1, <2>2
<1>6. ext' \in [Types -> 0..MaxCalls] /\ Shared'
  BY <1>1, StateIsShared
<1>7. InstanceType'
  <2>1. \A S : << >> \in Seq(S)
    BY EmptySeq
  <2>2. stateFuts' \in [Instances -> Seq(StateEntries)]
    <3>1. stateFuts \in [Instances -> Seq(StateEntries)] /\ << >> \in Seq(StateEntries)
      BY <1>1, <2>1 DEF InstanceType
    <3>2. CASE stateFuts' = [stateFuts EXCEPT ![i] = << >>]
      BY <3>1, <3>2
    <3> QED BY <1>1, <3>1, <3>2
  <2> QED BY <1>1, <1>3, <1>4, <1>5, <1>6, <2>2 DEF InstanceType
<1>8. Instance(i)'
  <2>1. /\ items'[i] = newItems /\ inits'[i] = newInits /\ waits'[i] = newWaits
        /\ hasState'[i] /\ status'[i] = "starting"
    BY <1>1, <1>3 DEF InstanceType
  <2>2. UNCHANGED <<services, cells, state, built>>
    BY <1>1 DEF buildVars
  <2>3. \A k \in 1..Len(services) : Serves(items[i][k], services[k])'
    BY <1>4, <2>1, <2>2 DEF Serves, DefaultOf
  <2>4. Starting(i)'
    BY <1>4, <1>5, <2>1, <2>2, <2>3 DEF Starting
  <2> QED BY <1>2, <2>1, <2>2, <2>4 DEF Instance, Running
<1>9. ASSUME NEW j \in Instances, j # i PROVE Instance(j)'
  <2>1. stateFuts'[j] = stateFuts[j]
    BY <1>1, <1>9 DEF InstanceType
  <2> QED BY <1>1, <1>3, <1>9, <2>1, InstanceStays DEF IInv, InstanceType
<1> QED BY <1>1, <1>6, <1>7, <1>8, <1>9, BuiltStays DEF IInv

LEMMA PollReadyKeeps ==
  ASSUME IInv, NEW i \in Instances, PollReady(i)
  PROVE  IInv'
<1>0. PICK newRouter : newRouter = Routes(items[i])
  OBVIOUS
<1>1. /\ Built /\ InstanceType /\ Shared /\ status[i] = "starting"
      /\ UNCHANGED <<buildVars, reqs>>
      /\ IF MustConstruct(i) THEN ext' = Inserted(ext, stateFuts[i]) ELSE UNCHANGED ext
      /\ \/ stateFuts' = [stateFuts EXCEPT ![i] = << >>]
         \/ stateFuts' = stateFuts
      /\ status'   = [status   EXCEPT ![i] = "ready"]
      /\ hasState' = [hasState EXCEPT ![i] = TRUE]
      /\ router'   = [router   EXCEPT ![i] = newRouter]
      /\ items'    = [items    EXCEPT ![i] = << >>]
      /\ inits'    = [inits    EXCEPT ![i] = << >>]
      /\ waits'    = [waits    EXCEPT ![i] = {}]
      /\ task'     = [task     EXCEPT ![i] = "parked"]
  BY <1>0 DEF IInv, PollReady, Awake, PollState, Remaining
<1>2. /\ built /\ DOMAIN items[i] = 1..Len(services) /\ Len(services) \in Nat
      /\ \A k \in 1..Len(services) : items[i][k] \in Items /\ Serves(items[i][k], services[k])
  BY <1>1, UnderConstruction
<1>3. /\ newRouter \in Seq(Routables) /\ Len(newRouter) = Len(services)
      /\ \A k \in 1..Len(services) : Serves(newRouter[k], services[k])
  <2>1. \A k \in 1..Len(services) : newRouter[k] \in Routables /\ Serves(newRouter[k], services[k])
    BY <1>0, <1>2 DEF Routes, Items, Routables, Serves
  <2>2. newRouter \in [1..Len(services) -> Routables]
    BY <1>0, <1>2, <2>1 DEF Routes
  <2>3. newRouter \in Seq(Routables)
    BY <1>2, <2>2, SeqDef
  <2> QED BY <1>2, <2>1, <2>2, <2>3, LenProperties
<1>4. ext' \in [Types -> 0..MaxCalls] /\ Shared'
  BY <1>1, StateIsShared
<1>5. InstanceType'
  <2>1. \A S : << >> \in Seq(S)
    BY EmptySeq
  <2>2. stateFuts' \in [Instances -> Seq(StateEntries)]
    <3>1. stateFuts \in [Instances -> Seq(StateEntries)] /\ << >> \in Seq(StateEntries)
      BY <1>1, <2>1 DEF InstanceType
    <3>2. CASE stateFuts' = [stateFuts EXCEPT ![i] = << >>]
      BY <3>1, <3>2
    <3> QED BY <1>1, <3>1, <3>2
  <2> QED BY <1>1, <1>3, <1>4, <2>1, <2>2 DEF InstanceType
<1>6. Instance(i)'
  <2>1. router'[i] = newRouter /\ hasState'[i] /\ status'[i] = "ready"
    BY <1>1 DEF InstanceType
  <2>2. UNCHANGED <<services, cells, built>>
    BY <1>1 DEF buildVars
  <2>3. \A k \in 1..Len(services) : Serves(router[i][k], services[k])'
    BY <1>3, <2>1, <2>2 DEF Serves, DefaultOf
  <2> QED BY <1>2, <1>3, <2>1, <2>2, <2>3 DEF Instance, Starting, Running
<1>7. ASSUME NEW j \in Instances, j # i PROVE Instance(j)'
  <2>1. stateFuts'[j] = stateFuts[j]
    BY <1>1, <1>7 DEF InstanceType
  <2> QED BY <1>1, <1>7, <2>1, InstanceStays DEF IInv, InstanceType
<1> QED BY <1>1, <1>4, <1>5, <1>6, <1>7, BuiltStays DEF IInv

-----------------------------------------------------------------------------
(* Requests *)

\* What the router of a ready instance does with a request: it takes the
\* first service whose pattern matches.
LEMMA RouterTakesFirst ==
  ASSUME IInv, NEW i \in Instances, status[i] = "ready", NEW q
  PROVE  LET match == {k \in 1..Len(services) : q.path \in services[k].paths}
         IN  SelectInSeq(router[i], LAMBDA service : q.path \in service.paths)
               = IF match = {} THEN 0 ELSE Min(match)
<1> DEFINE match == {k \in 1..Len(services) : q.path \in services[k].paths}
           inRouter == {k \in 1..Len(router[i]) : q.path \in router[i][k].paths}
<1>1. Running(i)
  BY DEF IInv, Instance
<1>2. inRouter = match
  BY <1>1 DEF Running, Serves
<1>3. SelectInSeq(router[i], LAMBDA service : q.path \in service.paths)
        = IF inRouter = {} THEN 0 ELSE Min(inRouter)
  BY DEF SelectInSeq
<1> QED BY <1>2, <1>3

\* The first route of a resource all of whose filters accept.
LEMMA RouteTakesFirst ==
  ASSUME NEW routes \in Seq(RouteRecords), NEW q
  PROVE  LET accept == {j \in 1..Len(routes) : Check(routes[j], q)}
         IN  SelectInSeq(routes, LAMBDA route : Check(route, q))
               = IF accept = {} THEN 0 ELSE Min(accept)
BY DEF SelectInSeq

LEMMA AnswerType ==
  ASSUME IInv, NEW i \in Instances, status[i] = "ready", NEW q \in Requests
  PROVE  CallApp(i, q) \in Answers /\ Through(i, q) \in Seq(Nat \X Nat)
<1> DEFINE match == {k \in 1..Len(services) : q.path \in services[k].paths}
           first == IF match = {} THEN 0 ELSE Min(match)
           found == SelectInSeq(router[i], LAMBDA service : q.path \in service.paths)
<1>1. /\ Running(i) /\ router[i] \in Seq(Routables) /\ endpoint \in Seq(1..MaxCalls)
      /\ Len(services) \in Nat
  BY LenProperties DEF IInv, Instance, InstanceType, Built, BuilderType
<1>2. found = first
  BY RouterTakesFirst
<1>3. first = 0 \/ first \in 1..Len(services)
  <2>1. match \subseteq Nat /\ match \subseteq 1..Len(services)
    BY <1>1
  <2> HIDE DEF match
  <2> QED BY <2>1, MinIsLeast
<1> HIDE DEF match, first, found
<1>4. first # 0 => router[i][first] \in Routables
  BY <1>1, <1>3, ElementOfSeq DEF Running
<1>5. NotFound \in Answers
  BY MaxCallsAssumption DEF NotFound, Answers, Parties
<1>6. CallApp(i, q) \in Answers
  <2>1. CASE first = 0
    BY <1>2, <1>5, <2>1 DEF CallApp, found
  <2>2. CASE first # 0
    <3> DEFINE service == router[i][first]
               accept == {j \in 1..Len(service.routes) : Check(service.routes[j], q)}
               taken == SelectInSeq(service.routes, LAMBDA route : Check(route, q))
    <3>1. /\ service.at \in 0..MaxCalls /\ service.routes \in Seq(RouteRecords)
          /\ service.default \in Answers
      BY <1>4, <2>2, MaxCallsAssumption DEF Routables
    <3>2. taken = IF accept = {} THEN 0 ELSE Min(accept)
      BY <3>1, RouteTakesFirst
    <3>3. Len(service.routes) \in Nat
      BY <3>1, LenProperties
    <3>4. taken = 0 \/ taken \in 1..Len(service.routes)
      <4>1. accept \subseteq Nat /\ accept \subseteq 1..Len(service.routes)
        BY <3>3
      <4> HIDE DEF accept, taken
      <4> QED BY <3>2, <4>1, MinIsLeast
    <3>5. CallApp(i, q) = IF service.kind = "service" THEN <<"service", service.at, 0>>
                          ELSE CallResource(service, q)
      BY <1>2, <2>2 DEF CallApp, found
    <3>6. CallResource(service, q) =
            IF taken # 0 THEN <<"route", service.at, service.routes[taken].at>>
            ELSE IF service.default # NoDefault THEN service.default ELSE NotFound
      BY DEF CallResource
    <3> HIDE DEF service, taken, accept
    <3>7. taken # 0 => service.routes[taken].at \in Nat
      <4>1. taken # 0 => service.routes[taken] \in RouteRecords
        BY <3>1, <3>4, ElementOfSeq
      <4> QED BY <4>1 DEF RouteRecords
    <3> QED BY <1>5, <3>1, <3>5, <3>6, <3>7 DEF Answers, Parties
  <2> QED BY <2>1, <2>2
<1>7. Through(i, q) \in Seq(Nat \X Nat)
  <2>0. PICK inner, outer, layers :
          /\ inner = IF first = 0 THEN << >> ELSE router[i][first].endpoint
          /\ outer = [n \in DOMAIN endpoint |-> <<endpoint[n], 0>>]
          /\ layers = [n \in DOMAIN inner |-> <<router[i][first].at, inner[n]>>]
    OBVIOUS
  <2>1. Through(i, q) = outer \o layers
    BY <1>2, <2>0 DEF Through, found
  <2>2. outer \in Seq(Nat \X Nat)
    <3>1. Len(endpoint) \in Nat /\ DOMAIN endpoint = 1..Len(endpoint)
      BY <1>1, LenProperties
    <3>2. \A n \in 1..Len(endpoint) : endpoint[n] \in 1..MaxCalls
      BY <1>1, ElementOfSeq
    <3>3. outer \in [1..Len(endpoint) -> Nat \X Nat]
      BY <2>0, <3>1, <3>2, MaxCallsAssumption
    <3> QED BY <3>1, <3>3, SeqDef
  <2>3. layers \in Seq(Nat \X Nat)
    <3>1. inner \in Seq(Nat)
      <4>1. << >> \in Seq(Nat)
        BY EmptySeq
      <4> QED BY <1>4, <2>0, <4>1 DEF Routables
    <3>2. Len(inner) \in Nat /\ DOMAIN inner = 1..Len(inner) /\ \A n \in 1..Len(inner) : inner[n] \in Nat
      BY <3>1, LenProperties, ElementOfSeq
    <3>3. CASE first = 0
      <4>1. DOMAIN inner = {}
        BY <2>0, <3>3
      <4>2. layers \in [1..0 -> Nat \X Nat]
        BY <2>0, <4>1
      <4> QED BY <4>2, SeqDef
    <3>4. CASE first # 0
      <4>1. router[i][first].at \in Nat
        BY <1>4, <3>4, MaxCallsAssumption DEF Routables
      <4>2. layers \in [1..Len(inner) -> Nat \X Nat]
        BY <2>0, <3>2, <4>1
      <4> QED BY <3>2, <4>2, SeqDef
    <3> QED BY <3>3, <3>4
  <2> QED BY <2>1, <2>2, <2>3, ConcatProperties
<1> QED BY <1>6, <1>7

LEMMA CallKeeps ==
  ASSUME IInv, NEW i \in Instances, NEW r \in Slots, NEW q \in Requests, Call(i, r, q)
  PROVE  IInv'
<1>1. /\ status[i] = "ready" /\ UNCHANGED buildVars /\ UNCHANGED ext
      /\ UNCHANGED <<status, stateFuts, hasState, items, inits, waits, task, router>>
      /\ reqs' = [reqs EXCEPT ![r] = [req |-> q, through |-> Through(i, q), by |-> CallApp(i, q)]]
  BY DEF Call, instVars
<1>2. built /\ hasState[i]
  BY <1>1 DEF IInv, Instance, Running, InstanceType
<1>3. Through(i, q) \in Seq(Nat \X Nat) /\ CallApp(i, q) \in Answers
  BY <1>1, AnswerType
<1>4. InstanceType'
  BY <1>1, <1>3 DEF IInv, InstanceType
<1>5. \A j \in Instances : Instance(j)'
  BY <1>1, InstanceStays DEF IInv
<1>6. Shared'
  <2>1. Holders # {}
    BY <1>2 DEF Holders
  <2> QED BY <1>1, <1>2, <2>1, SharedStays DEF IInv
<1> QED BY <1>1, <1>4, <1>5, <1>6, BuiltStays DEF IInv

LEMMA FinishKeeps ==
  ASSUME IInv, NEW r \in Slots, Finish(r)
  PROVE  IInv'
<1>1. /\ reqs[r] # NoReq /\ UNCHANGED buildVars /\ UNCHANGED ext
      /\ UNCHANGED <<status, stateFuts, hasState, items, inits, waits, task, router>>
      /\ reqs' = [reqs EXCEPT ![r] = NoReq]
  BY DEF Finish, instVars
<1>2. built
  BY <1>1 DEF IInv, Shared
<1>3. InstanceType'
  BY <1>1 DEF IInv, InstanceType
<1>4. \A j \in Instances : Instance(j)'
  BY <1>1, InstanceStays DEF IInv
<1>5. Shared'
  <2>1. Holders # {}
    BY <1>1 DEF Holders
  <2> QED BY <1>1, <1>2, <2>1, SharedStays DEF IInv
<1> QED BY <1>1, <1>3, <1>4, <1>5, BuiltStays DEF IInv

-----------------------------------------------------------------------------
(* The invariant holds *)

LEMMA InitHolds == Init => IInv
<1> SUFFICES ASSUME Init PROVE IInv
  OBVIOUS
<1> USE DEF Init
<1>1. Built
  BY InitBuilt
<1>2. InstanceType
  <2>1. \A S : << >> \in Seq(S)
    BY EmptySeq
  <2> QED BY <2>1, MaxCallsAssumption DEF InstanceType
<1>3. \A i \in Instances : Instance(i)
  BY DEF Instance, Starting, Running
<1>4. Shared
  <2>1. Holders = {}
    BY DEF Holders
  <2>2. \A t \in Keys : ext[t] = 0
    BY DEF Types
  <2> QED BY <2>1, <2>2 DEF Shared, StateIsVisible
<1> QED BY <1>1, <1>2, <1>3, <1>4 DEF IInv

\* Before the application is built there is nobody to see the builder.
LEMMA BuildingKeeps ==
  ASSUME IInv, ~built, Built', UNCHANGED <<ext, instVars, reqs>>
  PROVE  IInv'
<1>1. /\ InstanceType /\ \A i \in Instances : status[i] = "absent" /\ ~hasState[i]
      /\ \A t \in Types : ext[t] = 0
      /\ \A r \in Slots : reqs[r] = NoReq
  BY DEF IInv, Instance, Shared
<1>2. InstanceType'
  BY <1>1 DEF InstanceType, instVars
<1>3. \A i \in Instances : Instance(i)'
  BY <1>1 DEF Instance, Starting, Running, instVars
<1>4. Shared'
  <2>1. Holders' = {}
    BY <1>1 DEF Holders, instVars
  <2>2. \A t \in Keys : ext'[t] = 0
    BY <1>1 DEF Types
  <2> QED BY <1>1, <2>1, <2>2 DEF Shared, StateIsVisible
<1> QED BY <1>2, <1>3, <1>4 DEF IInv

LEMMA StepKeeps == IInv /\ [Next]_vars => IInv'
<1> SUFFICES ASSUME IInv, [Next]_vars PROVE IInv'
  OBVIOUS
<1>1. ASSUME NEW c \in Calls, BuilderStep(c), UNCHANGED <<ext, instVars, reqs>> PROVE IInv'
  BY <1>1, BuilderStepKeeps, BuildingKeeps DEF IInv
<1>2. ASSUME IntoNewService, UNCHANGED <<ext, instVars, reqs>> PROVE IInv'
  BY <1>2, IntoNewServiceKeeps, BuildingKeeps DEF IInv, IntoNewService
<1>3. ASSUME NEW i \in Instances, NewService(i) \/ Poll(i) \/ Drop(i) PROVE IInv'
  BY <1>3, NewServiceKeeps, PollFailsKeeps, PollNotReadyKeeps, PollReadyKeeps, DropKeeps DEF Poll
<1>4. ASSUME NEW i \in Instances, NEW k \in 1..MaxCalls, NEW result \in {"ok", "err"},
             Complete(i, k, result)
      PROVE  IInv'
  BY <1>4, CompleteKeeps
<1>5. ASSUME NEW i \in Instances, NEW r \in Slots, NEW q \in Requests, Call(i, r, q) PROVE IInv'
  BY <1>5, CallKeeps
<1>6. ASSUME NEW r \in Slots, Finish(r) PROVE IInv'
  BY <1>6, FinishKeeps
<1>7. ASSUME UNCHANGED vars PROVE IInv'
  <2>1. UNCHANGED <<buildVars, ext, status, stateFuts, hasState, items, inits, waits, task, router, reqs>>
    BY <1>7 DEF vars, instVars
  <2>2. InstanceType' /\ \A i \in Instances : Instance(i)'
    BY <2>1, InstanceStays DEF IInv, InstanceType
  <2>3. Holders' = Holders
    BY <2>1 DEF Holders
  <2>4. Shared'
    BY <2>1, <2>3 DEF IInv, Shared, StateIsVisible, buildVars
  <2> QED BY <2>1, <2>2, <2>4, BuiltStays DEF IInv
<1> QED BY <1>1, <1>2, <1>3, <1>4, <1>5, <1>6, <1>7 DEF Next

LEMMA InvariantHolds == Spec => []IInv
BY InitHolds, StepKeeps, PTL DEF Spec

-----------------------------------------------------------------------------
(* Theorems *)

\* Every value has its type, whatever the application declares and however
\* its instances and requests interleave.
THEOREM TypeCorrect == Spec => []TypeOK
<1>1. IInv => TypeOK
  BY DEF IInv, Built, BuilderType, InstanceType, TypeOK
<1> QED BY <1>1, InvariantHolds, PTL

\* Whoever can reach the shared extensions finds the value of the last
\* App::state call of each type there, although Rc::get_mut lets an instance
\* insert the state only while nobody else holds the extensions.
THEOREM StateOfEveryTypeIsVisible == Spec => []StateIsVisible
<1>1. IInv => StateIsVisible
  BY DEF IInv, Shared
<1> QED BY <1>1, InvariantHolds, PTL

\* CreateAppService::poll never polls a future that gave its result: an item
\* whose result was taken is a service, and its turn is skipped.
THEOREM NoFutureIsPolledTwice == Spec => []NeverPolledAgain
<1>1. IInv => NeverPolledAgain
  BY DEF IInv, Instance, NeverPolledAgain
<1> QED BY <1>1, InvariantHolds, PTL

\* No lost wakeup: an instance under construction sleeps only while a future
\* that will wake it is pending.  The state part never leaves an instance
\* asleep: its futures are ready at once.
THEOREM SleepingStartsWillWake == Spec => []SleepingStartsAreWoken
<1>1. IInv => SleepingStartsAreWoken
  BY DEF IInv, Instance, Starting, SleepingStartsAreWoken
<1> QED BY <1>1, InvariantHolds, PTL

-----------------------------------------------------------------------------
(* Who answers: what the router and the routes do is what the calls mean *)

\* Places numbered in the order of the calls: the first place of some is
\* that of their first call.
LEMMA FirstPlaceFirstCall ==
  ASSUME NEW n \in Nat, NEW at, \A k \in 1..n : at[k] \in Nat,
         \A k \in 1..n : \A j \in 1..(k - 1) : at[j] < at[k],
         NEW P \in SUBSET (1..n), NEW Q, Q = {at[k] : k \in P}
  PROVE  /\ P = {} <=> Q = {}
         /\ P # {} => Min(P) \in P /\ Earliest(Q) = at[Min(P)]
<1>1. P = {} <=> Q = {}
  OBVIOUS
<1>2. ASSUME P # {} PROVE Min(P) \in P /\ Earliest(Q) = at[Min(P)]
  <2>0. ASSUME NEW k \in P PROVE k \in 1..n /\ k \in Nat
    <3>1. k \in 1..n
      BY Zenon
    <3> QED BY <3>1
  <2>1. P \subseteq Nat /\ Q \subseteq Nat /\ Q # {}
    BY <1>2, <2>0
  <2>2. Min(P) \in P /\ \A k \in P : Min(P) <= k
    BY <1>2, <2>1, MinIsLeast
  <2>3. Earliest(Q) \in Q /\ \A x \in Q : Earliest(Q) <= x
    BY <2>1, EarliestIsFirst
  <2>4. PICK m : m = Min(P)
    OBVIOUS
  <2>5. PICK k \in P : Earliest(Q) = at[k]
    BY <2>3
  <2>6. m \in P /\ m <= k /\ m \in 1..n /\ k \in 1..n /\ at[k] <= at[m]
    BY <2>2, <2>3, <2>4, <2>5
  <2>7. m = k
    <3>1. SUFFICES ASSUME m # k PROVE FALSE
      OBVIOUS
    <3>2. m \in 1..(k - 1)
      BY <2>6, <3>1
    <3>3. at[m] < at[k] /\ at[m] \in Nat /\ at[k] \in Nat
      BY <2>6, <3>2
    <3> QED BY <2>6, <3>3
  <2> QED BY <2>2, <2>4, <2>5, <2>7
<1> QED BY <1>1, <1>2

\* The filters of a route accept what the call that added it stands for.
LEMMA RouteTakes ==
  ASSUME NEW c \in ResourceCalls, c.call \in RouteCalls, NEW q \in Requests,
         NEW route, route.filters = FiltersOf(c)
  PROVE  Check(route, q) <=> Takes(c, q, "code")
<1>1. \A m \in Methods : FilterCheck(MethodFilter(m), q) <=> q.method = m
  <2> SUFFICES ASSUME NEW m \in Methods PROVE FilterCheck(MethodFilter(m), q) <=> q.method = m
    OBVIOUS
  <2>1. MethodFilter(m) \in Filters
    <3>1. [call |-> "verb", method |-> m] \in ResourceCalls
      BY DEF ResourceCalls
    <3>2. FiltersOf([call |-> "verb", method |-> m]) \in Seq(Filters)
      BY <3>1, FiltersType DEF RouteCalls
    <3>3. FiltersOf([call |-> "verb", method |-> m]) = <<MethodFilter(m)>>
      BY DEF FiltersOf, OnMethod
    <3>4. <<MethodFilter(m)>>[1] \in Filters
      <4>1. Len(<<MethodFilter(m)>>) = 1 /\ 1 \in 1..1
        OBVIOUS
      <4> HIDE DEF Filters, MethodFilter
      <4> QED BY <3>2, <3>3, <4>1, ElementOfSeq
    <3> QED BY <3>4
  <2>2. PICK check :
          /\ \A k \in 1..Len(MethodFilter(m)) :
               check[k] = NodeCheck(MethodFilter(m)[k], q, [x \in 1..(k - 1) |-> check[x]])
          /\ FilterCheck(MethodFilter(m), q) = check[Len(MethodFilter(m))]
    BY <2>1, CheckIsBuilt
  <2>3. Len(MethodFilter(m)) = 1 /\ MethodFilter(m)[1] = [op |-> "method", method |-> m]
    BY DEF MethodFilter
  <2>4. PICK child : check[1] = NodeCheck([op |-> "method", method |-> m], q, child)
    BY <2>2, <2>3
  <2> QED BY <2>2, <2>3, <2>4 DEF NodeCheck
<1>2. ASSUME NEW filters \in Seq(Filters), NEW k \in DOMAIN filters
      PROVE  FilterCheck(filters[k], q) <=> q \in Accepted(filters[k], "code")
  <2>1. filters[k] \in Filters
    BY LenProperties, ElementOfSeq
  <2> QED BY <2>1, FilterChecksAccepted
<1>3. CASE c.call = "verb"
  <2>1. c.method \in Methods
    BY <1>3 DEF ResourceCalls
  <2>2. route.filters = <<MethodFilter(c.method)>>
    BY <1>3 DEF FiltersOf, OnMethod
  <2>3. Check(route, q) <=> FilterCheck(MethodFilter(c.method), q)
    BY <2>2 DEF Check
  <2> QED BY <1>1, <1>3, <2>1, <2>3 DEF Takes
<1>4. CASE c.call = "method"
  <2>1. c.method \in Methods /\ c.filters \in Seq(Filters)
    BY <1>4 DEF ResourceCalls
  <2>2. PICK first : first = MethodFilter(c.method)
    OBVIOUS
  <2>3. route.filters = <<first>> \o c.filters
    BY <1>4, <2>2 DEF FiltersOf, OnMethod, Guarded
  <2>4. /\ Len(c.filters) \in Nat /\ DOMAIN c.filters = 1..Len(c.filters)
        /\ DOMAIN route.filters = 1..(Len(c.filters) + 1)
        /\ route.filters[1] = first
        /\ \A k \in 1..Len(c.filters) : route.filters[k + 1] = c.filters[k]
    <3>1. c.filters \in Seq(Filters \cup {first}) /\ <<first>> \in Seq(Filters \cup {first})
      <4>1. Filters \subseteq Filters \cup {first}
        OBVIOUS
      <4>2. c.filters \in Seq(Filters \cup {first})
        BY <2>1, <4>1, SeqMonotonic
      <4> QED BY <4>2
    <3>2. Len(c.filters) \in Nat /\ DOMAIN c.filters = 1..Len(c.filters)
      BY <2>1, LenProperties
    <3>3. /\ route.filters \in Seq(Filters \cup {first})
          /\ Len(route.filters) = 1 + Len(c.filters)
          /\ \A k \in 1..(1 + Len(c.filters)) :
               route.filters[k] = IF k <= 1 THEN <<first>>[k] ELSE c.filters[k - 1]
      BY <2>3, <3>1, ConcatProperties
    <3>4. DOMAIN route.filters = 1..(Len(c.filters) + 1)
      <4>1. DOMAIN route.filters = 1..Len(route.filters)
        BY <3>3, LenProperties
      <4> QED BY <3>2, <3>3, <4>1
    <3>5. route.filters[1] = first
      <4>1. 1 \in 1..(1 + Len(c.filters))
        BY <3>2
      <4> QED BY <3>3, <4>1
    <3>6. ASSUME NEW k \in 1..Len(c.filters) PROVE route.filters[k + 1] = c.filters[k]
      <4>1. k + 1 \in 1..(1 + Len(c.filters)) /\ ~(k + 1 <= 1) /\ (k + 1) - 1 = k
        BY <3>2
      <4> QED BY <3>3, <4>1
    <3> QED BY <3>2, <3>4, <3>5, <3>6
  <2>5. \A k \in 1..(Len(c.filters) + 1) : k = 1 \/ \E j \in 1..Len(c.filters) : k = j + 1
    <3> SUFFICES ASSUME NEW k \in 1..(Len(c.filters) + 1), k # 1
                 PROVE  \E j \in 1..Len(c.filters) : k = j + 1
      OBVIOUS
    <3>1. k - 1 \in 1..Len(c.filters) /\ k = (k - 1) + 1
      BY <2>4
    <3> QED BY <3>1
  <2>6. \A j \in 1..Len(c.filters) : j + 1 \in 1..(Len(c.filters) + 1)
    BY <2>4
  <2>7. 1 \in 1..(Len(c.filters) + 1)
    BY <2>4
  <2>8. Check(route, q) <=> /\ FilterCheck(first, q)
                            /\ \A j \in 1..Len(c.filters) : FilterCheck(c.filters[j], q)
    <3>1. Check(route, q) <=> \A k \in 1..(Len(c.filters) + 1) : FilterCheck(route.filters[k], q)
      BY <2>4 DEF Check
    <3>2. ASSUME Check(route, q)
          PROVE  FilterCheck(first, q) /\ \A j \in 1..Len(c.filters) : FilterCheck(c.filters[j], q)
      BY <2>4, <2>6, <2>7, <3>1, <3>2
    <3>3. ASSUME FilterCheck(first, q), \A j \in 1..Len(c.filters) : FilterCheck(c.filters[j], q)
          PROVE  Check(route, q)
      <4>1. ASSUME NEW k \in 1..(Len(c.filters) + 1) PROVE FilterCheck(route.filters[k], q)
        <5>1. CASE k = 1
          BY <2>4, <3>3, <5>1
        <5>2. CASE k # 1
          <6>1. PICK j \in 1..Len(c.filters) : k = j + 1
            BY <2>5, <5>2
          <6> QED BY <2>4, <3>3, <6>1
        <5> QED BY <5>1, <5>2
      <4> QED BY <3>1, <4>1
    <3> QED BY <3>2, <3>3
  <2> QED BY <1>1, <1>2, <1>4, <2>1, <2>2, <2>4, <2>8 DEF Takes
<1>5. CASE c.call = "route"
  <2>1. c.filters \in Seq(Filters)
    BY <1>5 DEF ResourceCalls
  <2>2. route.filters = c.filters
    BY <1>5, <2>1, ConcatEmptySeq DEF FiltersOf, Guarded
  <2> QED BY <1>2, <1>5, <2>1, <2>2 DEF Check, Takes
<1>6. CASE c.call = "to"
  <2>1. DOMAIN route.filters = {}
    BY <1>6 DEF FiltersOf
  <2> QED BY <1>6, <2>1 DEF Check, Takes
<1> QED BY <1>3, <1>4, <1>5, <1>6 DEF RouteCalls

\* The calls of a resource that added a route which takes q.
TakenBy(calls, q) ==
  {j \in 1..Len(calls) : /\ calls[j].call \in {"verb", "method", "route", "to"}
                         /\ Takes(calls[j], q, "code")}

\* What a resource of the router answers a request with.
LEMMA ResourceAnswers ==
  ASSUME IInv, built, NEW k \in 1..Len(services), services[k].kind = "resource",
         NEW at, at = services[k].at, NEW entry, Serves(entry, services[k]), NEW q \in Requests
  PROVE  LET taken == TakenBy(log[at].res.calls, q) IN
         CallResource(entry, q) = IF taken = {} THEN Fallback(log, at, "code")
                                  ELSE <<"route", at, Earliest(taken)>>
<1>0. PICK calls, res, routes, L :
        /\ calls = log[at].res.calls /\ res = ResourceOf(calls)
        /\ routes = res.routes /\ L = Len(routes)
  OBVIOUS
<1> DEFINE taken == {j \in 1..Len(calls) :
                       /\ calls[j].call \in {"verb", "method", "route", "to"}
                       /\ Takes(calls[j], q, "code")}
           accept == {j \in 1..L : Check(routes[j], q)}
           place == SelectInSeq(routes, LAMBDA route : Check(route, q))
<1>1. /\ Built /\ EntryFits(services[k]) /\ CellFits(services[k])
      /\ entry.at = at /\ entry.routes = services[k].routes
      /\ entry.default = cells[services[k].cell]
  BY <1>0 DEF IInv, Built, ServicesFit, CellsFit, Serves, DefaultOf
<1>2. /\ at \in 1..Len(log) /\ log[at].call = "resource" /\ entry.routes = routes
      /\ Len(log) \in Nat /\ log \in Seq(Calls)
  BY <1>0, <1>1, LenProperties DEF EntryFits, Built, BuilderType
<1>3. calls \in Seq(ResourceCalls) /\ Len(calls) \in Nat
  <2>1. log[at] \in Calls
    BY <1>2, ElementOfSeq
  <2>2. log[at].res \in Resources
    BY <1>2, <2>1 DEF Calls
  <2>3. calls \in Seq(ResourceCalls)
    BY <1>0, <2>2, ResourcesAssumption
  <2> QED BY <2>3, LenProperties
<1>4. Holds(res, calls, Len(calls))
  BY <1>0, <1>3, ResourceHolds
<1>5. /\ routes \in Seq([at : 1..Len(calls), filters : Seq(Filters)])
      /\ L \in Nat
      /\ \A j \in 1..L : /\ routes[j].at \in 1..Len(calls)
                         /\ calls[routes[j].at].call \in RouteCalls
                         /\ routes[j].filters = FiltersOf(calls[routes[j].at])
                         /\ \A m \in 1..(j - 1) : routes[m].at < routes[j].at
      /\ \A n \in 1..Len(calls) : calls[n].call \in RouteCalls =>
           \E j \in 1..L : routes[j].at = n
  <2>1. HoldsRoutes(routes, calls, Len(calls))
    BY <1>0, <1>4 DEF Holds
  <2>2. routes \in Seq([at : 1..Len(calls), filters : Seq(Filters)]) /\ L \in Nat
    BY <1>0, <2>1, LenProperties DEF HoldsRoutes
  <2>3. \A j \in 1..L : routes[j] \in [at : 1..Len(calls), filters : Seq(Filters)]
    BY <1>0, <2>2, ElementOfSeq
  <2>4. \A j \in 1..L : /\ calls[routes[j].at].call \in RouteCalls
                         /\ routes[j].filters = FiltersOf(calls[routes[j].at])
                         /\ \A m \in 1..(j - 1) : routes[m].at < routes[j].at
    <3> SUFFICES ASSUME NEW j \in 1..L
                 PROVE  /\ calls[routes[j].at].call \in RouteCalls
                        /\ routes[j].filters = FiltersOf(calls[routes[j].at])
                        /\ \A m \in 1..(j - 1) : routes[m].at < routes[j].at
      OBVIOUS
    <3>1. j \in 1..Len(routes)
      BY <1>0
    <3> QED BY <2>1, <3>1 DEF HoldsRoutes
  <2>5. \A n \in 1..Len(calls) : calls[n].call \in RouteCalls =>
          \E j \in 1..L : routes[j].at = n
    BY <1>0, <2>1 DEF HoldsRoutes, Among
  <2>6. \A j \in 1..L : routes[j].at \in 1..Len(calls)
    BY <2>3
  <2> QED BY <2>2, <2>4, <2>5, <2>6
<1>6. \A j \in 1..L : Check(routes[j], q) <=> Takes(calls[routes[j].at], q, "code")
  <2> SUFFICES ASSUME NEW j \in 1..L
               PROVE  Check(routes[j], q) <=> Takes(calls[routes[j].at], q, "code")
    OBVIOUS
  <2>1. calls[routes[j].at] \in ResourceCalls
    BY <1>3, <1>5, ElementOfSeq
  <2> QED BY <1>5, <2>1, RouteTakes
<1>7. taken = {routes[j].at : j \in accept}
  <2>1. \A j \in accept : routes[j].at \in taken
    BY <1>5, <1>6 DEF RouteCalls
  <2>2. \A n \in taken : \E j \in accept : routes[j].at = n
    <3> SUFFICES ASSUME NEW n \in taken PROVE \E j \in accept : routes[j].at = n
      OBVIOUS
    <3>1. PICK j \in 1..L : routes[j].at = n
      BY <1>5 DEF RouteCalls
    <3>2. Check(routes[j], q)
      BY <1>6, <3>1
    <3> QED BY <3>1, <3>2
  <2> HIDE DEF taken, accept
  <2> QED BY <2>1, <2>2
<1>8. /\ accept = {} <=> taken = {}
      /\ accept # {} => Min(accept) \in accept /\ Earliest(taken) = routes[Min(accept)].at
  <2>1. PICK order : order = [j \in 1..L |-> routes[j].at]
    OBVIOUS
  <2>2. /\ \A j \in 1..L : order[j] \in Nat
        /\ \A j \in 1..L : \A m \in 1..(j - 1) : order[m] < order[j]
    <3>1. \A j \in 1..L : order[j] \in Nat
      BY <1>3, <1>5, <2>1
    <3>2. ASSUME NEW j \in 1..L, NEW m \in 1..(j - 1) PROVE order[m] < order[j]
      <4>1. m \in 1..L
        BY <1>5
      <4> QED BY <1>5, <2>1, <4>1
    <3> QED BY <3>1, <3>2
  <2>3. accept \in SUBSET (1..L) /\ taken = {order[j] : j \in accept}
    BY <1>7, <2>1
  <2> HIDE DEF accept, taken
  <2>4. /\ accept = {} <=> taken = {}
        /\ accept # {} => Min(accept) \in accept /\ Earliest(taken) = order[Min(accept)]
    BY <1>5, <2>2, <2>3, FirstPlaceFirstCall
  <2> QED BY <2>1, <2>3, <2>4
<1>9. place = IF accept = {} THEN 0 ELSE Min(accept)
  <2>1. [at : 1..Len(calls), filters : Seq(Filters)] \subseteq RouteRecords
    <3>1. 1..Len(calls) \subseteq Nat
      BY <1>3
    <3> QED BY <3>1 DEF RouteRecords
  <2>2. routes \in Seq(RouteRecords)
    BY <1>5, <2>1, SeqMonotonic
  <2> QED BY <1>0, <2>2, RouteTakesFirst
<1>10. CallResource(entry, q) =
         IF place # 0 THEN <<"route", at, routes[place].at>>
         ELSE IF entry.default # NoDefault THEN entry.default ELSE NotFound
  BY <1>1, <1>2 DEF CallResource
<1>11. (IF entry.default # NoDefault THEN entry.default ELSE NotFound) = Fallback(log, at, "code")
  <2> DEFINE own == Declared(calls, "default_resource")
             of == Declared(log, "default_resource")
  <2>1. res.default = IF own = {} THEN 0 ELSE Latest(own)
    <3>1. own = Among(calls, Len(calls), {"default_resource"})
      BY DEF Declared, Among
    <3> QED BY <1>4, <3>1 DEF Holds, HoldsDefault
  <2>2. res.default # 0 <=> own # {}
    <3>1. own \subseteq 1..Len(calls)
      BY DEF Declared
    <3> HIDE DEF own
    <3>2. own # {} => Latest(own) \in 1..Len(calls)
      BY <1>3, <3>1, LatestIsLast
    <3> QED BY <1>3, <2>1, <3>2
  <2>3. default = IF of = {} THEN NoDefault ELSE <<"app_default", Latest(of), 0>>
    BY <1>1 DEF Built, DefaultFits
  <2>4. entry.default = IF res.default # 0 THEN <<"own_default", at, res.default>>
                        ELSE IF Known(services[k]) THEN default ELSE NoDefault
    BY <1>0, <1>1 DEF CellFits
  <2>5. Known(services[k]) <=> \A m \in Declared(log, "middleware") : m < at
    BY <1>0 DEF Known
  <2>6. Fallback(log, at, "code") =
          IF own # {} THEN <<"own_default", at, Latest(own)>>
          ELSE IF of # {} /\ Known(services[k]) THEN <<"app_default", Latest(of), 0>>
          ELSE NotFound
    BY <1>0, <2>5 DEF Fallback, AppDefault
  <2> HIDE DEF own, of
  <2>7. \A x, y : <<"own_default", x, y>> # NoDefault /\ <<"app_default", x, y>> # NoDefault
    BY DEF NoDefault
  <2> QED BY <2>1, <2>2, <2>3, <2>4, <2>6, <2>7
<1> HIDE DEF accept, place
<1>12. CallResource(entry, q) = IF taken = {} THEN Fallback(log, at, "code")
                                ELSE <<"route", at, Earliest(taken)>>
  <2>1. CASE taken = {}
    BY <1>8, <1>9, <1>10, <1>11, <2>1
  <2>2. CASE taken # {}
    <3>1. Min(accept) # 0 /\ place = Min(accept)
      BY <1>5, <1>8, <1>9, <2>2 DEF accept
    <3> QED BY <1>8, <1>10, <2>2, <3>1
  <2> QED BY <2>1, <2>2
<1> QED BY <1>0, <1>12 DEF TakenBy

\* The first service whose pattern matches is the first declaration that does.
LEMMA FirstMatch ==
  ASSUME IInv, NEW q
  PROVE  LET match == {k \in 1..Len(services) : q.path \in services[k].paths}
         IN  /\ match = {} <=> Matching(log, q) = {}
             /\ match # {} => /\ Min(match) \in match
                              /\ Earliest(Matching(log, q)) = services[Min(match)].at
<1> DEFINE match == {k \in 1..Len(services) : q.path \in services[k].paths}
           L == Len(services)
<1>0. PICK at : at = [k \in 1..L |-> services[k].at]
  OBVIOUS
<1>1. /\ Built /\ L \in Nat /\ Len(log) \in Nat
      /\ \A k \in 1..L : EntryFits(services[k]) /\ services[k].kind \in {"resource", "service"}
  <2>1. Built /\ L \in Nat /\ Len(log) \in Nat /\ \A k \in 1..L : services[k] \in Entries
    BY LenProperties, ElementOfSeq DEF IInv, Built, BuilderType
  <2> QED BY <2>1 DEF Built, ServicesFit, Entries
<1>2. /\ \A k \in 1..L : at[k] \in Nat
      /\ \A k \in 1..L : \A j \in 1..(k - 1) : at[j] < at[k]
  <2>1. \A k \in 1..L : at[k] \in Nat
    BY <1>0, <1>1 DEF EntryFits
  <2>2. ASSUME NEW k \in 1..L, NEW j \in 1..(k - 1) PROVE at[j] < at[k]
    <3>1. j \in 1..L
      BY <1>1
    <3>2. services[j].at < services[k].at
      BY <1>1 DEF Built, ServicesFit
    <3> QED BY <1>0, <3>1, <3>2
  <2> QED BY <2>1, <2>2
<1>3. \A k \in 1..L : k \in match <=> services[k].at \in Matching(log, q)
  <2> SUFFICES ASSUME NEW k \in 1..L
               PROVE  k \in match <=> services[k].at \in Matching(log, q)
    OBVIOUS
  <2>1. /\ services[k].at \in 1..Len(log) /\ services[k].kind = log[services[k].at].call
        /\ services[k].kind = "resource" => services[k].paths = log[services[k].at].res.paths
        /\ services[k].kind = "service" => services[k].paths = log[services[k].at].paths
        /\ services[k].kind \in {"resource", "service"}
    BY <1>1 DEF EntryFits
  <2>2. CASE services[k].kind = "resource"
    BY <2>1, <2>2 DEF Matching, Declared
  <2>3. CASE services[k].kind = "service"
    BY <2>1, <2>3 DEF Matching, Declared
  <2> QED BY <2>1, <2>2, <2>3
<1>4. \A n \in Matching(log, q) : \E k \in 1..L : services[k].at = n
  BY <1>1 DEF Matching, Declared, Built, ServicesFit
<1> HIDE DEF L
<1>5. match \in SUBSET (1..L) /\ Matching(log, q) = {at[k] : k \in match}
  <2>1. match \subseteq 1..L
    BY DEF L
  <2> HIDE DEF match
  <2> QED BY <1>0, <1>3, <1>4, <2>1
<1>6. /\ match = {} <=> Matching(log, q) = {}
      /\ match # {} => Min(match) \in match /\ Earliest(Matching(log, q)) = at[Min(match)]
  <2> HIDE DEF match
  <2> QED BY <1>1, <1>2, <1>5, FirstPlaceFirstCall DEF L
<1> QED BY <1>0, <1>5, <1>6

\* AppService::call answers by the party the declarations name in the code's
\* reading.
LEMMA AppAnswers ==
  ASSUME IInv, NEW i \in Instances, status[i] = "ready", NEW q \in Requests
  PROVE  CallApp(i, q) = Answerer(log, q, "code")
<1> DEFINE match == {k \in 1..Len(services) : q.path \in services[k].paths}
           found == SelectInSeq(router[i], LAMBDA service : q.path \in service.paths)
<1>0. PICK k, first : k = Min(match) /\ first = Earliest(Matching(log, q))
  OBVIOUS
<1>1. Running(i) /\ built /\ Len(services) \in Nat
  BY LenProperties DEF IInv, Instance, InstanceType, Built, BuilderType
<1>2. found = IF match = {} THEN 0 ELSE k
  BY <1>0, RouterTakesFirst
<1>3. /\ match = {} <=> Matching(log, q) = {}
      /\ match # {} => k \in match /\ first = services[k].at
  BY <1>0, FirstMatch
<1>4. match \subseteq 1..Len(services)
  OBVIOUS
<1> HIDE DEF match, found
<1>5. CASE match = {}
  BY <1>2, <1>3, <1>5 DEF CallApp, Answerer, found
<1>6. CASE match # {}
  <2>1. k \in 1..Len(services) /\ k # 0 /\ found = k /\ first = services[k].at
    <3>1. k \in 1..Len(services) /\ first = services[k].at
      BY <1>3, <1>4, <1>6
    <3>2. k # 0
      BY <1>1, <3>1
    <3>3. found = k
      BY <1>2, <1>6
    <3> QED BY <3>1, <3>2, <3>3
  <2>2. Serves(router[i][k], services[k]) /\ EntryFits(services[k]) /\ services[k] \in Entries
    BY <1>1, <2>1, LenProperties, ElementOfSeq DEF Running, IInv, Built, BuilderType, ServicesFit
  <2>3. CallApp(i, q) = IF services[k].kind = "service" THEN <<"service", services[k].at, 0>>
                        ELSE CallResource(router[i][k], q)
    BY <2>1, <2>2 DEF CallApp, Serves, found
  <2>4. CASE services[k].kind = "service"
    <3>1. log[first].call = "service"
      BY <2>1, <2>2, <2>4 DEF EntryFits
    <3> QED BY <1>0, <1>3, <1>6, <2>1, <2>3, <2>4, <3>1 DEF Answerer
  <2>5. CASE services[k].kind = "resource"
    <3> DEFINE taken == TakenBy(log[first].res.calls, q)
    <3>1. log[first].call # "service"
      BY <2>1, <2>2, <2>5 DEF EntryFits
    <3>2. CallResource(router[i][k], q) = IF taken = {} THEN Fallback(log, first, "code")
                                          ELSE <<"route", first, Earliest(taken)>>
      <4>1. PICK entry : entry = router[i][k]
        OBVIOUS
      <4>2. Serves(entry, services[k])
        BY <2>2, <4>1
      <4>3. k \in 1..Len(services) /\ first = services[k].at
        BY <2>1
      <4>4. CallResource(entry, q) = IF taken = {} THEN Fallback(log, first, "code")
                                     ELSE <<"route", first, Earliest(taken)>>
        BY <1>1, <2>5, <4>2, <4>3, ResourceAnswers
      <4> QED BY <4>1, <4>4
    <3>3. Answerer(log, q, "code") = IF taken = {} THEN Fallback(log, first, "code")
                                     ELSE <<"route", first, Earliest(taken)>>
      BY <1>0, <1>3, <1>6, <3>1 DEF Answerer, TakenBy
    <3> QED BY <2>3, <2>5, <3>2, <3>3
  <2> QED BY <2>2, <2>4, <2>5 DEF Entries
<1> QED BY <1>5, <1>6

\* The request passes the middlewares of the application, then those of the
\* resource it is routed to.
LEMMA AppWraps ==
  ASSUME IInv, NEW i \in Instances, status[i] = "ready", NEW q \in Requests
  PROVE  Through(i, q) = Layers(log, q)
<1> DEFINE match == {k \in 1..Len(services) : q.path \in services[k].paths}
           found == SelectInSeq(router[i], LAMBDA service : q.path \in service.paths)
<1>0. PICK k, first, outer, app :
        /\ k = Min(match) /\ first = Earliest(Matching(log, q))
        /\ outer = Newest(Declared(log, "middleware"))
        /\ app = [n \in DOMAIN outer |-> <<outer[n], 0>>]
  OBVIOUS
<1>1. Running(i) /\ Len(services) \in Nat /\ endpoint = outer
  BY <1>0, LenProperties DEF IInv, Instance, Built, BuilderType, LayersFit
<1>2. found = IF match = {} THEN 0 ELSE k
  BY <1>0, RouterTakesFirst
<1>3. /\ match = {} <=> Matching(log, q) = {}
      /\ match # {} => k \in match /\ first = services[k].at
  BY <1>0, FirstMatch
<1>4. match \subseteq 1..Len(services)
  OBVIOUS
<1>5. app \o << >> = app
  <2>1. outer \in Seq(1..MaxCalls)
    BY <1>1 DEF IInv, Built, BuilderType
  <2>2. Len(outer) \in Nat /\ DOMAIN outer = 1..Len(outer)
    BY <2>1, LenProperties
  <2>3. PICK S : S = {<<outer[n], 0>> : n \in 1..Len(outer)}
    OBVIOUS
  <2>4. app \in [1..Len(outer) -> S]
    BY <1>0, <2>2, <2>3
  <2>5. app \in Seq(S)
    BY <2>2, <2>4, SeqDef
  <2> QED BY <2>5, ConcatEmptySeq
<1>6. \A x : [n \in DOMAIN << >> |-> <<x, << >>[n]>>] = << >>
  OBVIOUS
<1> HIDE DEF match, found
<1>7. CASE match = {}
  <2>1. Through(i, q) = app \o << >>
    BY <1>0, <1>1, <1>2, <1>6, <1>7 DEF Through, found
  <2>2. Layers(log, q) = app
    BY <1>0, <1>3, <1>7 DEF Layers
  <2> QED BY <1>5, <2>1, <2>2
<1>8. CASE match # {}
  <2>1. k \in 1..Len(services) /\ k # 0 /\ found = k /\ first = services[k].at
    <3>1. k \in 1..Len(services) /\ first = services[k].at
      BY <1>3, <1>4, <1>8
    <3>2. k # 0
      BY <1>1, <3>1
    <3>3. found = k
      BY <1>2, <1>8
    <3> QED BY <3>1, <3>2, <3>3
  <2>2. Serves(router[i][k], services[k]) /\ EntryFits(services[k]) /\ services[k] \in Entries
    BY <1>1, <2>1, LenProperties, ElementOfSeq DEF Running, IInv, Built, BuilderType, ServicesFit
  <2>3. PICK inner : inner = services[k].endpoint
    OBVIOUS
  <2>4. Through(i, q) = app \o [n \in DOMAIN inner |-> <<first, inner[n]>>]
    BY <1>0, <1>1, <2>1, <2>2, <2>3 DEF Through, Serves, found
  <2>5. CASE services[k].kind = "service"
    <3>1. log[first].call = "service" /\ inner = << >>
      BY <2>1, <2>2, <2>3, <2>5 DEF EntryFits
    <3>2. Through(i, q) = app \o << >>
      BY <1>6, <2>4, <3>1
    <3>3. Layers(log, q) = app
      BY <1>0, <3>1 DEF Layers
    <3> QED BY <1>5, <3>2, <3>3
  <2>6. CASE services[k].kind = "resource"
    <3>1. PICK calls : calls = log[first].res.calls
      OBVIOUS
    <3>2. /\ first \in 1..Len(log) /\ log[first].call = "resource"
          /\ inner = ResourceOf(calls).endpoint
      BY <2>1, <2>2, <2>3, <2>6, <3>1 DEF EntryFits
    <3>3. calls \in Seq(ResourceCalls)
      <4>1. log[first] \in Calls
        BY <3>2, ElementOfSeq DEF IInv, Built, BuilderType
      <4>2. log[first].res \in Resources
        BY <3>2, <4>1 DEF Calls
      <4> QED BY <3>1, <4>2, ResourcesAssumption
    <3>4. inner = Newest(Declared(calls, "middleware"))
      <4>1. Declared(calls, "middleware") = Among(calls, Len(calls), {"middleware"})
        BY DEF Declared, Among
      <4>2. Holds(ResourceOf(calls), calls, Len(calls))
        BY <3>3, ResourceHolds
      <4> QED BY <3>2, <4>1, <4>2 DEF Holds, HoldsLayers
    <3>5. Layers(log, q) = app \o [n \in DOMAIN inner |-> <<first, inner[n]>>]
      BY <1>0, <1>3, <1>8, <3>1, <3>2, <3>4 DEF Layers
    <3> QED BY <2>4, <3>5
  <2> QED BY <2>2, <2>5, <2>6 DEF Entries
<1> QED BY <1>7, <1>8

-----------------------------------------------------------------------------
(* AppSpec: the instances keep the promise of the declarations *)

\* AppSpec reads the declarations as this module does.
LEMMA SameReading ==
  ASSUME NEW l, NEW q
  PROVE  Answerer(l, q, "code") \in AS!Answerers(l, q) /\ AS!Layers(l, q) = Layers(l, q)
<1>1. \A m, kind : AS!Declared(m, kind) = Declared(m, kind)
  BY DEF AS!Declared, Declared
<1>2. \A S : AS!Earliest(S) = Earliest(S) /\ AS!Latest(S) = Latest(S) /\ AS!Newest(S) = Newest(S)
  <2> SUFFICES ASSUME NEW S
               PROVE  /\ AS!Earliest(S) = Earliest(S) /\ AS!Latest(S) = Latest(S)
                      /\ AS!Newest(S) = Newest(S)
    OBVIOUS
  <2>1. AS!Earliest(S) = Earliest(S) /\ AS!Latest(S) = Latest(S)
    BY DEF AS!Earliest, Earliest, AS!Latest, Latest
  <2>2. AS!Newest(S) = Newest(S)
    BY DEF AS!Newest, Newest, AS!Cardinality, Cardinality, AS!IsFiniteSet, IsFiniteSet
  <2> QED BY <2>1, <2>2
<1>3. AS!Matching(l, q) = Matching(l, q)
  BY <1>1 DEF AS!Matching, Matching
<1>4. \A k : AS!Fallback(l, k, "code") = Fallback(l, k, "code")
  BY <1>1, <1>2 DEF AS!Fallback, Fallback, AS!AppDefault, AppDefault, AS!NotFound, NotFound
<1>5. \A f : AS!Accepted(f, "code") = Accepted(f, "code")
  BY DEF AS!Accepted, Accepted, AS!Stands, Stands, AS!Requests, Requests
<1>6. \A c : AS!Takes(c, q, "code") = Takes(c, q, "code")
  BY <1>5 DEF AS!Takes, Takes
<1>7. AS!Answerer(l, q, "code") = Answerer(l, q, "code")
  BY <1>2, <1>3, <1>4, <1>6 DEF AS!Answerer, Answerer, AS!NotFound, NotFound
<1>8. AS!Layers(l, q) = Layers(l, q)
  BY <1>1, <1>2, <1>3 DEF AS!Layers, Layers
<1>9. AS!Answerer(l, q, "code") \in AS!Answerers(l, q)
  BY DEF AS!Answerers
<1> QED BY <1>7, <1>8, <1>9

LEMMA StepImplements == IInv /\ [Next]_vars => [AS!Next]_AS!vars
<1> SUFFICES ASSUME IInv, [Next]_vars PROVE [AS!Next]_AS!vars
  OBVIOUS
<1> USE DEF AS!vars, AS!NoReq, NoReq
<1>1. ASSUME NEW c \in Calls, BuilderStep(c), UNCHANGED <<ext, instVars, reqs>>
      PROVE  AS!Next
  <2>1. CanCall(c) /\ UNCHANGED <<status, reqs>>
    BY <1>1 DEF BuilderStep, AddState, AddResource, AddService, SetDefault, AddMiddleware, instVars
  <2>2. AS!Declare(c)
    BY <2>1 DEF CanCall, AS!Declare
  <2>3. c \in AS!Calls
    BY DEF Calls, AS!Calls
  <2> QED BY <2>2, <2>3 DEF AS!Next
<1>2. ASSUME IntoNewService, UNCHANGED <<ext, instVars, reqs>> PROVE AS!Next
  BY <1>2 DEF IntoNewService, instVars, AS!Build, AS!Next
<1>3. ASSUME NEW i \in Instances, NewService(i) PROVE AS!Next
  BY <1>3 DEF NewService, buildVars, AS!Start, AS!Next
<1>4. ASSUME NEW i \in Instances, PollFails(i) PROVE AS!Next
  <2>1. status[i] = "starting" /\ Bad(i) # {} /\ UNCHANGED <<log, built, reqs>>
    BY <1>4 DEF PollFails, Awake, buildVars
  <2>2. status' = [status EXCEPT ![i] = "failed"]
    BY <1>4, <2>1, BadHasFailed DEF PollFails, Discard
  <2> QED BY <2>1, <2>2 DEF AS!Settle, AS!Next
<1>5. ASSUME NEW i \in Instances, PollNotReady(i) PROVE UNCHANGED AS!vars
  BY <1>5 DEF PollNotReady, buildVars
<1>6. ASSUME NEW i \in Instances, PollReady(i) PROVE AS!Next
  BY <1>6 DEF PollReady, Awake, buildVars, AS!Settle, AS!Next
<1>7. ASSUME NEW i \in Instances, Drop(i) PROVE AS!Next
  BY <1>7 DEF Drop, Discard, buildVars, AS!Drop, AS!Next
<1>8. ASSUME NEW i \in Instances, NEW k \in 1..MaxCalls, NEW result \in {"ok", "err"},
             Complete(i, k, result)
      PROVE  UNCHANGED AS!vars
  BY <1>8 DEF Complete, buildVars
<1>9. ASSUME NEW i \in Instances, NEW r \in Slots, NEW q \in Requests, Call(i, r, q)
      PROVE  AS!Next
  <2>1. /\ status[i] = "ready" /\ reqs[r] = NoReq /\ UNCHANGED <<log, built, status>>
        /\ reqs' = [reqs EXCEPT ![r] = [req |-> q, through |-> Through(i, q), by |-> CallApp(i, q)]]
    BY <1>9 DEF Call, buildVars, instVars
  <2>2. Through(i, q) = AS!Layers(log, q) /\ CallApp(i, q) \in AS!Answerers(log, q)
    BY <2>1, AppAnswers, AppWraps, SameReading
  <2>3. AS!Call(i, r, q)
    BY <2>1, <2>2 DEF AS!Call
  <2>4. q \in AS!Requests
    BY DEF Requests, AS!Requests
  <2> QED BY <2>3, <2>4 DEF AS!Next
<1>10. ASSUME NEW r \in Slots, Finish(r) PROVE AS!Next
  BY <1>10 DEF Finish, buildVars, instVars, AS!Finish, AS!Next
<1>11. ASSUME UNCHANGED vars PROVE UNCHANGED AS!vars
  BY <1>11 DEF vars, buildVars, instVars
<1> QED BY <1>1, <1>2, <1>3, <1>4, <1>5, <1>6, <1>7, <1>8, <1>9, <1>10, <1>11 DEF Next, Poll

\* ImplementsAppSpec: the application does what its declarations say.  Whatever the order in
\* which the builder calls were made and the services came up, and through
\* router, cells and futures, a request is answered by the first matching
\* declaration, its first accepting route, its default or the application's,
\* and on its way passes the middlewares that were wrapped around it.  Where
\* the docs and the code read a declaration differently AppSpec admits both;
\* the answer is then the one of the code's reading (AppAnswers).
THEOREM ImplementsAppSpec == Spec => KeepsAppSpec
<1>1. Init => AS!Init
  BY DEF Init, BuilderInit, AS!Init, AS!NoReq, NoReq
<1>2. IInv /\ [Next]_vars => [AS!Next]_AS!vars
  BY StepImplements
<1> QED BY <1>1, <1>2, InvariantHolds, PTL DEF Spec, KeepsAppSpec, AS!Spec
=============================================================================
