-------------------------- MODULE ActionBlockProofs --------------------------
(***************************************************************************)
(* Proofs about ActionBlock, for any light range and scenario index and    *)
(* parameter lists of any length: the block that GenerateCompleteBlock     *)
(* makes is complete, ascending and faithful, and a fixed point of it.     *)
(***************************************************************************)
EXTENDS ActionBlock, SequenceLemmas, FiniteSetTheorems

-----------------------------------------------------------------------------
(* Sorting.                                                                *)

\* Counting the smaller members numbers the members of a finite set from 0,
\* in their order and without a gap.
LEMMA Ranks ==
    ASSUME NEW S \in SUBSET Int, IsFiniteSet(S)
    PROVE  /\ Cardinality(S) \in Nat
           /\ \A k, m \in S : k < m => Below(S, k) < Below(S, m)
           /\ \A k \in S : Below(S, k) \in Nat /\ Below(S, k) + 1 \in 1 .. Cardinality(S)
           /\ \A i \in 1 .. Cardinality(S) : \E k \in S : Below(S, k) = i - 1
<1> DEFINE n == Cardinality(S)
           smaller(k) == {j \in S : j < k}
           rank == [k \in S |-> Below(S, k)]
<1>1. n \in Nat
    BY FS_CardinalityType
<1>2. ASSUME NEW k \in Int, NEW T \in SUBSET S, smaller(k) \subseteq T, smaller(k) # T
      PROVE  Below(S, k) \in Nat /\ Below(S, k) < Cardinality(T) /\ Cardinality(T) \in Nat
  <2>1. IsFiniteSet(T) /\ Cardinality(T) \in Nat
      BY FS_Subset, FS_CardinalityType
  <2>2. /\ IsFiniteSet(smaller(k)) /\ Cardinality(smaller(k)) <= Cardinality(T)
        /\ Cardinality(T) # Cardinality(smaller(k))
      BY <1>2, <2>1, FS_Subset
  <2>3. Cardinality(smaller(k)) \in Nat
      BY <2>2, FS_CardinalityType
  <2> QED BY <2>1, <2>2, <2>3 DEF Below
<1>3. \A k, m \in S : k < m => Below(S, k) < Below(S, m)
  <2> SUFFICES ASSUME NEW k \in S, NEW m \in S, k < m PROVE Below(S, k) < Below(S, m)
      OBVIOUS
  <2>0. k \in Int /\ k \in smaller(m) /\ k \notin smaller(k)
      OBVIOUS
  <2>1. smaller(m) \in SUBSET S /\ smaller(k) \subseteq smaller(m) /\ smaller(k) # smaller(m)
    <3>1. \A j \in S : j < k => j < m
        OBVIOUS
    <3> QED BY <2>0, <3>1
  <2>2. Below(S, k) < Cardinality(smaller(m))
      BY <1>2, <2>0, <2>1
  <2> QED BY <2>2 DEF Below
<1>4. \A k \in S : Below(S, k) \in 0 .. n - 1
  <2> SUFFICES ASSUME NEW k \in S PROVE Below(S, k) \in 0 .. n - 1
      OBVIOUS
  <2>1. S \in SUBSET S /\ smaller(k) \subseteq S /\ smaller(k) # S /\ k \in Int
      OBVIOUS
  <2>2. Below(S, k) \in Nat /\ Below(S, k) < n
      BY <1>2, <2>1
  <2> QED BY <1>1, <2>2
<1>5. rank \in Injection(S, 0 .. n - 1)
  <2>1. rank \in [S -> 0 .. n - 1]
      BY <1>4
  <2>2. ASSUME NEW k \in S, NEW m \in S, k # m PROVE rank[k] # rank[m]
    <3>1. k < m \/ m < k
        BY <2>2
    <3>2. Below(S, k) \in Int /\ Below(S, m) \in Int
        BY <1>4
    <3>3. Below(S, k) # Below(S, m)
        BY <1>3, <3>1, <3>2
    <3> QED BY <3>3
  <2> HIDE DEF rank
  <2> QED BY <2>1, <2>2 DEF Injection, IsInjective
<1>6. IsFiniteSet(0 .. n - 1) /\ Cardinality(0 .. n - 1) = n
  <2>1. IsFiniteSet(0 .. n - 1) /\ Cardinality(0 .. n - 1) = IF 0 > n - 1 THEN 0 ELSE (n - 1) - 0 + 1
      BY <1>1, FS_Interval, SMTT(20)
  <2> QED BY <1>1, <2>1
<1>7. rank \in Surjection(S, 0 .. n - 1)
    BY <1>5, <1>6, FS_Injection
<1>8. \A i \in 1 .. n : \E k \in S : Below(S, k) = i - 1
  <2> SUFFICES ASSUME NEW i \in 1 .. n PROVE \E k \in S : Below(S, k) = i - 1
      OBVIOUS
  <2>1. i - 1 \in 0 .. n - 1
      BY <1>1
  <2>2. PICK k \in S : rank[k] = i - 1
      BY <1>7, <2>1 DEF Surjection
  <2> QED BY <2>2
<1>9. \A k \in S : Below(S, k) \in Nat /\ Below(S, k) + 1 \in 1 .. n
    BY <1>1, <1>4
<1> QED BY <1>1, <1>3, <1>8, <1>9

\* Ascending lists every member of a finite set once, the smaller first.
LEMMA AscendingOf ==
    ASSUME NEW S \in SUBSET Int, IsFiniteSet(S)
    PROVE  /\ Cardinality(S) \in Nat
           /\ \A i \in 1 .. Cardinality(S) : Ascending(S)[i] \in S
           /\ \A k \in S : \E i \in 1 .. Cardinality(S) : Ascending(S)[i] = k
           /\ \A i, j \in 1 .. Cardinality(S) : i < j => Ascending(S)[i] < Ascending(S)[j]
<1>1. /\ Cardinality(S) \in Nat
      /\ \A k, m \in S : k < m => Below(S, k) < Below(S, m)
      /\ \A k \in S : Below(S, k) \in Nat /\ Below(S, k) + 1 \in 1 .. Cardinality(S)
      /\ \A i \in 1 .. Cardinality(S) : \E k \in S : Below(S, k) = i - 1
    BY Ranks
<1>2. \A i \in 1 .. Cardinality(S) : Ascending(S)[i] \in S /\ Below(S, Ascending(S)[i]) = i - 1
  <2>1. \A i \in 1 .. Cardinality(S) : Ascending(S)[i] = CHOOSE k \in S : Below(S, k) = i - 1
      BY DEF Ascending
  <2> QED BY <1>1, <2>1
<1>3. \A k, m \in S : Below(S, k) = Below(S, m) => k = m
  <2> SUFFICES ASSUME NEW k \in S, NEW m \in S, k # m PROVE Below(S, k) # Below(S, m)
      OBVIOUS
  <2>1. k < m \/ m < k
      OBVIOUS
  <2> QED BY <1>1, <2>1
<1>4. ASSUME NEW k \in S PROVE \E i \in 1 .. Cardinality(S) : Ascending(S)[i] = k
  <2> DEFINE i == Below(S, k) + 1
  <2>1. i \in 1 .. Cardinality(S) /\ i - 1 = Below(S, k)
      BY <1>1
  <2>2. Ascending(S)[i] = k
      BY <1>2, <1>3, <2>1
  <2> QED BY <2>1, <2>2
<1>5. ASSUME NEW i \in 1 .. Cardinality(S), NEW j \in 1 .. Cardinality(S), i < j
      PROVE  Ascending(S)[i] < Ascending(S)[j]
  <2>1. PICK k \in S : k = Ascending(S)[i] /\ Below(S, k) = i - 1
      BY <1>2
  <2>2. PICK m \in S : m = Ascending(S)[j] /\ Below(S, m) = j - 1
      BY <1>2
  <2>3. k # m /\ ~(m < k)
      BY <1>1, <1>5, <2>1, <2>2
  <2> QED BY <2>1, <2>2, <2>3
<1> QED BY <1>1, <1>2, <1>4, <1>5

\* A map becomes one parameter per key, by ascending key.
LEMMA SortedOf ==
    ASSUME NEW values, DOMAIN values \in SUBSET Int, IsFiniteSet(DOMAIN values)
    PROVE  /\ Sorted(values) \in Seq([k : DOMAIN values, v : {values[k] : k \in DOMAIN values}])
           /\ IndicesOf(Sorted(values)) = DOMAIN values
           /\ \A i \in DOMAIN Sorted(values) : Sorted(values)[i].v = values[Sorted(values)[i].k]
           /\ \A i, j \in DOMAIN Sorted(values) :
                  i < j => Sorted(values)[i].k < Sorted(values)[j].k
<1> DEFINE D == DOMAIN values
           n == Cardinality(D)
           keys == Ascending(D)
<1>1. /\ n \in Nat
      /\ \A i \in 1 .. n : keys[i] \in D
      /\ \A k \in D : \E i \in 1 .. n : keys[i] = k
      /\ \A i, j \in 1 .. n : i < j => keys[i] < keys[j]
    BY AscendingOf
<1>2. Sorted(values) = [i \in 1 .. n |-> [k |-> keys[i], v |-> values[keys[i]]]]
    BY DEF Sorted
<1> HIDE DEF n, keys
<1>3. /\ DOMAIN Sorted(values) = 1 .. n
      /\ \A i \in 1 .. n : Sorted(values)[i].k = keys[i] /\ Sorted(values)[i].v = values[keys[i]]
    BY <1>2
<1>4. Sorted(values) \in Seq([k : D, v : {values[k] : k \in D}])
    BY <1>1, <1>2
<1>5. IndicesOf(Sorted(values)) = D
  <2>1. IndicesOf(Sorted(values)) = {keys[i] : i \in 1 .. n}
      BY <1>3 DEF IndicesOf
  <2> QED BY <1>1, <2>1
<1>6. \A i \in 1 .. n : Sorted(values)[i].v = values[Sorted(values)[i].k]
    BY <1>3
<1>7. \A i, j \in 1 .. n : i < j => Sorted(values)[i].k < Sorted(values)[j].k
    BY <1>1, <1>3
<1> HIDE DEF D
<1>8. D = DOMAIN values
    BY DEF D
<1> QED BY <1>3, <1>4, <1>5, <1>6, <1>7, <1>8, Zenon

-----------------------------------------------------------------------------
(* The map of the parameters.                                              *)

\* The map after the first n parameters.
After(list) ==
    CHOOSE after : after = [n \in 0 .. Len(list) |->
        IF n = 0 THEN <<>> ELSE SetValue(after[n - 1], list[n])]

\* There is one, and it is what the loop builds.
LEMMA Built ==
    ASSUME NEW list, Len(list) \in Nat
    PROVE  /\ After(list)[0] = <<>>
           /\ \A n \in 1 .. Len(list) : After(list)[n] = SetValue(After(list)[n - 1], list[n])
           /\ ExplicitValues(list) = After(list)[Len(list)]
<1> DEFINE step(n, values) == SetValue(values, list[n])
           Steps(n, f) == f = [k \in 0 .. n |-> IF k = 0 THEN <<>> ELSE step(k, f[k - 1])]
           S == {n \in Nat : \E f : Steps(n, f)}
<1>1. ExplicitValues(list) = After(list)[Len(list)]
    BY DEF ExplicitValues, After
<1>2. After(list) = CHOOSE f : Steps(Len(list), f)
    BY DEF After
<1> HIDE DEF step
<1>3. 0 \in S
  <2>1. Steps(0, [k \in 0 .. 0 |-> <<>>])
      OBVIOUS
  <2> QED BY <2>1
<1>4. ASSUME NEW n \in Nat, n \in S
      PROVE  n + 1 \in S
  <2>1. PICK f : Steps(n, f)
      BY <1>4
  <2> DEFINE g == [k \in 0 .. n + 1 |-> IF k = n + 1 THEN step(n + 1, f[n]) ELSE f[k]]
  <2>2. \A k \in 1 .. n + 1 : k - 1 \in 0 .. n /\ g[k - 1] = f[k - 1]
      OBVIOUS
  <2>3. \A k \in 0 .. n + 1 : g[k] = IF k = 0 THEN <<>> ELSE step(k, g[k - 1])
    <3> SUFFICES ASSUME NEW k \in 0 .. n + 1
                 PROVE  g[k] = IF k = 0 THEN <<>> ELSE step(k, g[k - 1])
        OBVIOUS
    <3>1. CASE k = n + 1
        BY <2>2, <3>1
    <3>2. CASE k # n + 1
      <4>1. k \in 0 .. n /\ g[k] = f[k]
          BY <3>2
      <4>2. f[k] = IF k = 0 THEN <<>> ELSE step(k, f[k - 1])
          BY <2>1, <4>1
      <4>3. k # 0 => g[k - 1] = f[k - 1]
          BY <2>2
      <4> QED BY <4>1, <4>2, <4>3
    <3> QED BY <3>1, <3>2
  <2>4. g = [k \in 0 .. n + 1 |-> g[k]]
      OBVIOUS
  <2> HIDE DEF g
  <2>5. Steps(n + 1, g)
      BY <2>3, <2>4
  <2> QED BY <2>5
<1> HIDE DEF Steps
<1>5. Len(list) \in S
    BY <1>3, <1>4, NatSetInduction
<1>6. Steps(Len(list), After(list))
    BY <1>2, <1>5, Zenon
<1>7. \A k \in 0 .. Len(list) : After(list)[k] = IF k = 0 THEN <<>> ELSE step(k, After(list)[k - 1])
    BY <1>6 DEF Steps
<1> QED BY <1>1, <1>7 DEF step

\* i is the last of the first n parameters for its index.
LastOfFirst(list, i, n) ==
    /\ i \in 1 .. n
    /\ \A j \in 1 .. n : list[j].k = list[i].k => j <= i

\* An index that was given has the value that was given last.
LEMMA LastValueCounts ==
    ASSUME NEW list \in Seq(Parameter)
    PROVE  /\ DOMAIN ExplicitValues(list) = IndicesOf(list)
           /\ \A k \in IndicesOf(list) : \E i \in DOMAIN list :
                  /\ list[i].k = k /\ LastForIndex(list, i)
                  /\ ExplicitValues(list)[k] = list[i].v
           /\ \A i \in DOMAIN list :
                  LastForIndex(list, i) => ExplicitValues(list)[list[i].k] = list[i].v
<1> DEFINE after == After(list)
           given(n) == {list[i].k : i \in 1 .. n}
           Held(n) ==
               /\ DOMAIN after[n] = given(n)
               /\ \A k \in DOMAIN after[n] : \E i \in 1 .. n :
                      LastOfFirst(list, i, n) /\ k = list[i].k /\ after[n][k] = list[i].v
           S == {n \in Nat : n <= Len(list) => Held(n)}
<1>1. Len(list) \in Nat /\ DOMAIN list = 1 .. Len(list)
    OBVIOUS
<1>2. /\ after[0] = <<>>
      /\ \A n \in 1 .. Len(list) : after[n] = SetValue(after[n - 1], list[n])
      /\ ExplicitValues(list) = after[Len(list)]
    BY <1>1, Built
<1> HIDE DEF after
<1>3. 0 \in S
  <2>1. DOMAIN after[0] = {} /\ given(0) = {}
      BY <1>2
  <2> QED BY <2>1
<1>4. ASSUME NEW n \in Nat, n \in S
      PROVE  n + 1 \in S
  <2> SUFFICES ASSUME n + 1 <= Len(list)
               PROVE  Held(n + 1)
    <3> HIDE DEF Held
    <3> QED OBVIOUS
  <2> DEFINE key == list[n + 1].k
  <2>1. Held(n) /\ after[n + 1] = SetValue(after[n], list[n + 1])
      BY <1>1, <1>2, <1>4
  <2>2. /\ DOMAIN after[n + 1] = DOMAIN after[n] \cup {key}
        /\ after[n + 1][key] = list[n + 1].v
        /\ \A k \in DOMAIN after[n] : k # key => after[n + 1][k] = after[n][k]
      BY <2>1 DEF SetValue
  <2>3. given(n + 1) = given(n) \cup {key}
    <3>1. \A i : i \in 1 .. n + 1 <=> i \in 1 .. n \/ i = n + 1
        OBVIOUS
    <3> QED BY <3>1
  <2>4. LastOfFirst(list, n + 1, n + 1)
      BY DEF LastOfFirst
  <2>5. ASSUME NEW k \in DOMAIN after[n], k # key
        PROVE  \E i \in 1 .. n + 1 :
                   LastOfFirst(list, i, n + 1) /\ k = list[i].k /\ after[n + 1][k] = list[i].v
    <3>1. PICK i \in 1 .. n : LastOfFirst(list, i, n) /\ k = list[i].k /\ after[n][k] = list[i].v
        BY <2>1
    <3>2. \A j \in 1 .. n + 1 : j \in 1 .. n \/ j = n + 1
        OBVIOUS
    <3>3. i \in 1 .. n + 1
        OBVIOUS
    <3>4. LastOfFirst(list, i, n + 1)
        BY <2>5, <3>1, <3>2, <3>3 DEF LastOfFirst
    <3> QED BY <2>2, <2>5, <3>1, <3>3, <3>4
  <2>6. n + 1 \in 1 .. n + 1
      OBVIOUS
  <2> HIDE DEF given
  <2> QED BY <2>1, <2>2, <2>3, <2>4, <2>5, <2>6
<1>5. Len(list) \in S
    BY <1>1, <1>3, <1>4, NatSetInduction
<1>6. Held(Len(list)) /\ given(Len(list)) = IndicesOf(list)
    BY <1>1, <1>5 DEF IndicesOf
<1>7. \A i : LastOfFirst(list, i, Len(list)) => i \in DOMAIN list /\ LastForIndex(list, i)
    BY <1>1 DEF LastOfFirst, LastForIndex
<1>8. \A k \in IndicesOf(list) : \E i \in DOMAIN list :
          /\ list[i].k = k /\ LastForIndex(list, i)
          /\ ExplicitValues(list)[k] = list[i].v
    BY <1>2, <1>6, <1>7, SMTT(20)
<1>9. ASSUME NEW i \in DOMAIN list, LastForIndex(list, i)
      PROVE  ExplicitValues(list)[list[i].k] = list[i].v
  <2>1. list[i].k \in IndicesOf(list)
      BY DEF IndicesOf
  <2>2. PICK j \in DOMAIN list : /\ list[j].k = list[i].k /\ LastForIndex(list, j)
                                 /\ ExplicitValues(list)[list[i].k] = list[j].v
      BY <1>8, <2>1
  <2>3. i = j
      BY <1>1, <1>9, <2>2 DEF LastForIndex
  <2> QED BY <2>2, <2>3
<1> QED BY <1>2, <1>6, <1>8, <1>9

-----------------------------------------------------------------------------
(* The block.                                                              *)

Demanded == {IndexScenario} \cup LightRange
Filled(list) == FilledIn(ExplicitValues(list), Demanded)

\* The map the block is made from has finitely many integer keys.
LEMMA FilledOf ==
    ASSUME NEW list \in Seq(Parameter)
    PROVE  /\ DOMAIN Filled(list) = IndicesOf(list) \cup Demanded
           /\ DOMAIN Filled(list) \in SUBSET Int /\ IsFiniteSet(DOMAIN Filled(list))
           /\ \A k \in IndicesOf(list) : Filled(list)[k] = ExplicitValues(list)[k]
           /\ \A k \in Demanded \ IndicesOf(list) :
                  Filled(list)[k] = IF k = IndexScenario THEN Num(1) ELSE Num(0)
<1>1. DOMAIN ExplicitValues(list) = IndicesOf(list)
    BY LastValueCounts
<1>2. /\ DOMAIN Filled(list) = IndicesOf(list) \cup Demanded
      /\ \A k \in IndicesOf(list) : Filled(list)[k] = ExplicitValues(list)[k]
      /\ \A k \in Demanded \ IndicesOf(list) :
             Filled(list)[k] = IF k = IndexScenario THEN Num(1) ELSE Num(0)
    BY <1>1 DEF Filled, FilledIn
<1>3. IndicesOf(list) \subseteq Int /\ Demanded \subseteq Int
  <2>0. \A i \in DOMAIN list : list[i] \in Parameter
      OBVIOUS
  <2>1. \A i \in DOMAIN list : list[i].k \in Int
      BY <2>0 DEF Parameter
  <2> QED BY <2>1, ActionBlockAssumption DEF IndicesOf, Demanded, LightRange
<1>4. IsFiniteSet(IndicesOf(list))
  <2> DEFINE f == [i \in 1 .. Len(list) |-> list[i].k]
  <2>1. f \in Surjection(1 .. Len(list), IndicesOf(list))
      BY DEF IndicesOf, Surjection
  <2>2. IsFiniteSet(1 .. Len(list))
      BY FS_Interval
  <2> QED BY <2>1, <2>2, FS_Surjection
<1>5. IsFiniteSet(Demanded)
  <2>1. IsFiniteSet(LightRange)
      BY ActionBlockAssumption, FS_Interval DEF LightRange
  <2>2. IsFiniteSet({IndexScenario})
      BY FS_Singleton
  <2> QED BY <2>1, <2>2, FS_Union DEF Demanded
<1>6. IsFiniteSet(DOMAIN Filled(list))
    BY <1>2, <1>4, <1>5, FS_Union
<1> QED BY <1>2, <1>3, <1>6

\* The values of its parameters are values of parameters.
LEMMA FilledType ==
    ASSUME NEW list \in Seq(Parameter)
    PROVE  \A k \in DOMAIN Filled(list) : Filled(list)[k] \in [numeric : BOOLEAN, n : Int]
<1> SUFFICES ASSUME NEW k \in DOMAIN Filled(list)
             PROVE  Filled(list)[k] \in [numeric : BOOLEAN, n : Int]
    OBVIOUS
<1>1. CASE k \in IndicesOf(list)
  <2>0. Filled(list)[k] = ExplicitValues(list)[k]
      BY <1>1, FilledOf
  <2>1. PICK i \in DOMAIN list : Filled(list)[k] = list[i].v
      BY <1>1, <2>0, LastValueCounts
  <2>2. list[i] \in Parameter
      OBVIOUS
  <2> QED BY <2>1, <2>2 DEF Parameter
<1>2. CASE k \in Demanded \ IndicesOf(list)
  <2>1. Filled(list)[k] = Num(1) \/ Filled(list)[k] = Num(0)
      BY <1>2, FilledOf
  <2>2. Num(1) \in [numeric : BOOLEAN, n : Int] /\ Num(0) \in [numeric : BOOLEAN, n : Int]
      BY DEF Num
  <2> QED BY <2>1, <2>2
<1>3. k \in IndicesOf(list) \cup Demanded
    BY FilledOf
<1> QED BY <1>1, <1>2, <1>3

\* A block for a light, index by index.
LEMMA BlockOf ==
    ASSUME NEW list \in Seq(Parameter), TouchesLight(list)
    PROVE  LET made == GenerateCompleteBlock(list)
           IN  /\ made = Sorted(Filled(list)) /\ made \in Seq(Parameter)
               /\ IndicesOf(made) = IndicesOf(list) \cup Demanded
               /\ \A i \in DOMAIN made : made[i].v = Filled(list)[made[i].k]
               /\ \A i, j \in DOMAIN made : i < j => made[i].k < made[j].k
<1> DEFINE made == Sorted(Filled(list))
           V == {Filled(list)[k] : k \in DOMAIN Filled(list)}
<1>1. GenerateCompleteBlock(list) = made
    BY DEF GenerateCompleteBlock, Filled, Demanded
<1>2. /\ DOMAIN Filled(list) = IndicesOf(list) \cup Demanded
      /\ DOMAIN Filled(list) \in SUBSET Int /\ IsFiniteSet(DOMAIN Filled(list))
    BY FilledOf
<1>3. /\ made \in Seq([k : DOMAIN Filled(list), v : V])
      /\ IndicesOf(made) = DOMAIN Filled(list)
      /\ \A i \in DOMAIN made : made[i].v = Filled(list)[made[i].k]
      /\ \A i, j \in DOMAIN made : i < j => made[i].k < made[j].k
    BY <1>2, SortedOf
<1>4. [k : DOMAIN Filled(list), v : V] \subseteq Parameter
  <2>1. V \subseteq [numeric : BOOLEAN, n : Int]
      BY FilledType
  <2> HIDE DEF V
  <2> QED BY <1>2, <2>1 DEF Parameter
<1>5. made \in Seq(Parameter)
  <2> DEFINE T == [k : DOMAIN Filled(list), v : V]
  <2> HIDE DEF T, made
  <2>1. made \in Seq(T) /\ T \subseteq Parameter
      BY <1>3, <1>4 DEF T
  <2> QED BY <2>1
<1>6. PICK b : b = made
    OBVIOUS
<1>7. /\ b = Sorted(Filled(list)) /\ b \in Seq(Parameter)
      /\ IndicesOf(b) = IndicesOf(list) \cup Demanded
      /\ \A i \in DOMAIN b : b[i].v = Filled(list)[b[i].k]
      /\ \A i, j \in DOMAIN b : i < j => b[i].k < b[j].k
    BY <1>2, <1>3, <1>5, <1>6, Zenon
<1> HIDE DEF made
<1>8. GenerateCompleteBlock(list) = b
    BY <1>1, <1>6
<1> QED BY <1>7, <1>8, Zenon

\* It has the scenario and every light, nothing that was not asked for, and
\* ascending indices.
THEOREM BlockComplete ==
    ASSUME NEW list \in Seq(Parameter), TouchesLight(list)
    PROVE  Complete(list, GenerateCompleteBlock(list))
BY BlockOf DEF Complete, Demanded

\* It keeps the last value given for each index, and fills in the others.
THEOREM BlockPreserves ==
    ASSUME NEW list \in Seq(Parameter), TouchesLight(list)
    PROVE  Preserving(list, GenerateCompleteBlock(list))
<1> DEFINE made == GenerateCompleteBlock(list)
<1>1. /\ IndicesOf(made) = IndicesOf(list) \cup Demanded
      /\ \A i \in DOMAIN made : made[i].v = Filled(list)[made[i].k]
    BY BlockOf
<1> HIDE DEF made
<1> SUFFICES ASSUME NEW i \in DOMAIN made
             PROVE  /\ \A j \in DOMAIN list :
                           list[j].k = made[i].k /\ LastForIndex(list, j) => made[i].v = list[j].v
                    /\ made[i].k \notin IndicesOf(list) =>
                           made[i].v = IF made[i].k = IndexScenario THEN Num(1) ELSE Num(0)
    BY DEF Preserving, made
<1>2. made[i].k \in IndicesOf(list) \cup Demanded
    BY <1>1 DEF IndicesOf
<1>3. ASSUME NEW j \in DOMAIN list, list[j].k = made[i].k, LastForIndex(list, j)
      PROVE  made[i].v = list[j].v
  <2>1. made[i].k \in IndicesOf(list)
      BY <1>3 DEF IndicesOf
  <2>2. made[i].v = Filled(list)[made[i].k] /\ Filled(list)[made[i].k] = ExplicitValues(list)[made[i].k]
      BY <1>1, <2>1, FilledOf
  <2>3. ExplicitValues(list)[list[j].k] = list[j].v
      BY <1>3, LastValueCounts
  <2> QED BY <1>3, <2>2, <2>3
<1>4. ASSUME made[i].k \notin IndicesOf(list)
      PROVE  made[i].v = IF made[i].k = IndexScenario THEN Num(1) ELSE Num(0)
    BY <1>1, <1>2, <1>4, FilledOf, ZenonT(40)
<1> QED BY <1>3, <1>4

\* A block that was completed is completed already.
THEOREM BlockAgain ==
    ASSUME NEW list \in Seq(Parameter), TouchesLight(list)
    PROVE  LET made == GenerateCompleteBlock(list) IN GenerateCompleteBlock(made) = made
<1> DEFINE made == GenerateCompleteBlock(list)
<1>1. /\ made = Sorted(Filled(list)) /\ made \in Seq(Parameter)
      /\ IndicesOf(made) = IndicesOf(list) \cup Demanded
      /\ \A i \in DOMAIN made : made[i].v = Filled(list)[made[i].k]
      /\ \A i, j \in DOMAIN made : i < j => made[i].k < made[j].k
    BY BlockOf
<1> HIDE DEF made
<1>2. TouchesLight(made)
    BY <1>1 DEF TouchesLight
<1>3. GenerateCompleteBlock(made) = Sorted(Filled(made))
    BY <1>1, <1>2, BlockOf
<1>4. DOMAIN Filled(made) = DOMAIN Filled(list) /\ DOMAIN Filled(list) = IndicesOf(made)
    BY <1>1, FilledOf
<1>5. \A k \in IndicesOf(made) : Filled(made)[k] = Filled(list)[k]
  <2> SUFFICES ASSUME NEW k \in IndicesOf(made) PROVE Filled(made)[k] = Filled(list)[k]
      OBVIOUS
  <2>1. PICK i \in DOMAIN made : made[i].k = k /\ ExplicitValues(made)[k] = made[i].v
      BY <1>1, LastValueCounts
  <2> QED BY <1>1, <2>1, FilledOf
<1>6. Filled(made) = Filled(list)
  <2>1. \A m : Filled(m) = [k \in DOMAIN Filled(m) |-> Filled(m)[k]]
      BY DEF Filled, FilledIn
  <2> QED BY <1>4, <1>5, <2>1
<1> QED BY <1>1, <1>3, <1>6 DEF made

-----------------------------------------------------------------------------
(* What is in the queue is the block of what was injected.                 *)

BlockInv == params \in Seq(Parameter) /\ block = GenerateCompleteBlock(params)

LEMMA BlockType ==
    ASSUME NEW list \in Seq(Parameter)
    PROVE  GenerateCompleteBlock(list) \in Seq(Parameter)
<1>1. CASE TouchesLight(list)
    BY <1>1, BlockOf
<1>2. CASE ~TouchesLight(list)
    BY <1>2 DEF GenerateCompleteBlock
<1> QED BY <1>1, <1>2

\* After every injection.
THEOREM Queued == Spec => []BlockInv
<1>1. Init => BlockInv
  <2>1. IndicesOf(<<>>) = {}
      BY DEF IndicesOf
  <2> QED BY <2>1 DEF Init, BlockInv, GenerateCompleteBlock, TouchesLight
<1>2. BlockInv /\ [Next]_vars => BlockInv'
  <2> SUFFICES ASSUME BlockInv, [Next]_vars PROVE BlockInv'
      OBVIOUS
  <2>1. CASE Inject
      BY <2>1, ActionBlockAssumption DEF Inject, AddAction, BlockInv
  <2>2. CASE InjectAgain
      BY <2>2, BlockType DEF InjectAgain, AddAction, BlockInv
  <2>3. CASE UNCHANGED vars
      BY <2>3 DEF BlockInv, vars
  <2> QED BY <2>1, <2>2, <2>3 DEF Next
<1> QED BY <1>1, <1>2, PTL DEF Spec

\* The firmware drops no action that touches a light.
THEOREM LightBlocks == Spec => []LightBlocksComplete
<1>1. BlockInv => LightBlocksComplete
    BY BlockComplete DEF BlockInv, LightBlocksComplete
<1> QED BY <1>1, Queued, PTL

\* What was asked for is what is done.
THEOREM AskedValues == Spec => []AskedValuesKept
<1>1. BlockInv => AskedValuesKept
    BY BlockPreserves DEF BlockInv, AskedValuesKept, GenerateCompleteBlock
<1> QED BY <1>1, Queued, PTL

\* A completed block is not changed by injecting it again.
THEOREM AgainSame == Spec => InjectAgainSame
<1>1. BlockInv /\ [Next]_vars => [InjectAgain /\ TouchesLight(params) => block' = block]_vars
    BY BlockAgain DEF BlockInv, InjectAgain, AddAction
<1> QED BY <1>1, Queued, PTL DEF Spec, InjectAgainSame
=============================================================================
