--------------------------- MODULE AlgorithmsProofs ---------------------------
(***************************************************************************)
(* Proofs about the pure functions: for every document with integers for   *)
(* its numbers, what loadApplicationMetrics accepts keeps the protocol;    *)
(* for all profiles, what compareProfiles lists adds up; for all words,    *)
(* scaleCounter is accurate.                                               *)
(***************************************************************************)
EXTENDS Algorithms, CounterScalingProofs

\* An answer is that of the function that was asked.
Loaded ==
    /\ job.kind = "metrics" => job.input \in Document \cup {NoFile, Unparsable}
    /\ answer.kind = "metrics" =>
         /\ job.input \in Document \cup {NoFile, Unparsable}
         /\ answer.value = LoadApplicationMetrics(job.input)

-----------------------------------------------------------------------------
\* A value of the right type is omitted or a number.
LEMMA Conversion ==
  ASSUME NEW v \in Value, Optional(v) # WrongType
  PROVE  Optional(v) = NoMetric \/ (Optional(v) = v /\ v \in Int)
  BY DEF Optional, Value

\* The checks of loadApplicationMetrics, in the order of its throws, leave
\* only what the protocol allows.
LEMMA Accepted ==
  ASSUME NEW document \in Document, LoadObject(document) # Rejected
  PROVE  LET metrics == LoadObject(document)
             given == {p \in Percentile : metrics.latency[p] # NoMetric}
         IN /\ metrics.operations = NoMetric \/ metrics.operations > 0
            /\ metrics.throughput = NoMetric \/ metrics.throughput >= 0
            /\ \A p \in given : metrics.latency[p] >= 0
            /\ ~\E p, q \in given : Rank[p] < Rank[q] /\ metrics.latency[p] > metrics.latency[q]
            /\ given # {} \/ {metrics.operations, metrics.throughput} # {NoMetric}
<1> DEFINE throughput == Optional(document.throughput)
           latency == Latency(document)
           operations == Optional(document.operations)
           given == {p \in Percentile : latency[p] # NoMetric}
<1>1. /\ OperationsValid(document.operations)
      /\ throughput # WrongType /\ \A p \in Percentile : latency[p] # WrongType
      /\ Nonnegative(throughput) /\ \A p \in Percentile : Nonnegative(latency[p])
      /\ \/ document.operations # Missing \/ throughput # NoMetric
         \/ \E p \in Percentile : latency[p] # NoMetric
      /\ Ordered(latency)
  BY DEF LoadObject
<1>2. LoadObject(document) = [operations |-> operations, throughput |-> throughput,
                              latency |-> latency]
  BY <1>1 DEF LoadObject
<1>3. document.operations \in Value /\ document.throughput \in Value
  BY DEF Document
<1>4. \A p \in Percentile : latency[p] = NoMetric \/ latency[p] \in Int
  <2>1. CASE document.latency \in {Missing, Null, WrongType}
    BY <2>1 DEF Latency
  <2>2. CASE document.latency \notin {Missing, Null, WrongType}
    <3> SUFFICES ASSUME NEW p \in Percentile PROVE latency[p] = NoMetric \/ latency[p] \in Int
      OBVIOUS
    <3>1. document.latency[p] \in Value
      BY <2>2 DEF Document
    <3>2. latency[p] = Optional(document.latency[p])
      BY <2>2 DEF Latency
    <3> QED
      BY <1>1, <3>1, <3>2, Conversion
  <2> QED
    BY <2>1, <2>2
<1>5. operations = NoMetric \/ operations > 0
  BY <1>1 DEF OperationsValid, Optional
<1>6. throughput = NoMetric \/ throughput >= 0
  BY <1>1 DEF Nonnegative
<1>7. \A p \in given : latency[p] >= 0 /\ latency[p] \in Int
  BY <1>1, <1>4 DEF Nonnegative
<1>8. ~\E p, q \in given : Rank[p] < Rank[q] /\ latency[p] > latency[q]
  BY <1>1, <1>7 DEF Ordered
<1>9. given # {} \/ {operations, throughput} # {NoMetric}
  <2>1. ASSUME document.operations # Missing PROVE operations # NoMetric
    BY <1>1, <1>3, <2>1, MetricsAssumption DEF OperationsValid, Optional, Value
  <2> QED
    BY <1>1, <2>1
<1> QED
  BY <1>2, <1>5, <1>6, <1>7, <1>8, <1>9

\* Nothing but loadApplicationMetrics answers for a metrics file.
LEMMA LoadedStays == Loaded /\ [Next]_vars => Loaded'
<1> SUFFICES ASSUME Loaded, [Next]_vars PROVE Loaded'
  OBVIOUS
<1>1. CASE Scale \/ Compare
  BY <1>1 DEF Scale, Compare, Loaded
<1>2. CASE Load
  BY <1>2 DEF Load, Loaded
<1>3. CASE UNCHANGED vars
  BY <1>3 DEF vars, Loaded
<1> QED
  BY <1>1, <1>2, <1>3 DEF Next

\* Whatever a workload writes, the metrics that a run accepts keep the protocol.
THEOREM ProtocolKept == Spec => []MetricsFollowProtocol
<1>1. Init => Loaded
  BY DocumentsAssumption DEF Init, Loaded, Pending
<1>2. Loaded => MetricsFollowProtocol
  <2> SUFFICES ASSUME Loaded, answer.kind = "metrics", answer.value \notin {NoMetric, Rejected}
               PROVE  LET metrics == answer.value
                          given == {p \in Percentile : metrics.latency[p] # NoMetric}
                      IN /\ metrics.operations = NoMetric \/ metrics.operations > 0
                         /\ metrics.throughput = NoMetric \/ metrics.throughput >= 0
                         /\ \A p \in given : metrics.latency[p] >= 0
                         /\ ~\E p, q \in given :
                               Rank[p] < Rank[q] /\ metrics.latency[p] > metrics.latency[q]
                         /\ given # {} \/ {metrics.operations, metrics.throughput} # {NoMetric}
    BY DEF MetricsFollowProtocol
  <2>1. job.input \in Document /\ answer.value = LoadObject(job.input)
    BY DEF Loaded, LoadApplicationMetrics
  <2> QED
    BY <2>1, Accepted
<1> QED
  BY <1>1, <1>2, LoadedStays, PTL DEF Spec

-----------------------------------------------------------------------------
(* Profiles, for any number of runs and functions. *)

\* The elements of a sum.
LEMMA UnitIs ==
  ASSUME NEW weight, NEW u
  PROVE  u \in Units(weight) <=>
           \E x \in DOMAIN weight : \E k \in 1 .. weight[x] : u = <<x, k>>
  BY DEF Units

\* A set that a finite one is mapped onto is finite.
LEMMA FiniteImage ==
  ASSUME NEW S, IsFiniteSet(S), NEW T, NEW g \in [S -> T], \A t \in T : \E x \in S : g[x] = t
  PROVE  IsFiniteSet(T)
<1>1. g \in Surjection(S, T)
  BY DEF Surjection
<1> QED
  BY <1>1, FS_Surjection

\* A finite sum of natural numbers is finite.
LEMMA UnitsFinite ==
  ASSUME NEW K, IsFiniteSet(K), NEW weight \in [K -> Nat]
  PROVE  IsFiniteSet(Units(weight))
<1> DEFINE Part(x) == {x} \X (1 .. weight[x])
           Parts == {Part(x) : x \in K}
           part == [x \in K |-> Part(x)]
<1>1. ASSUME NEW x \in K PROVE IsFiniteSet(Part(x))
  <2>1. 1 \in Int /\ weight[x] \in Int
    OBVIOUS
  <2>2. IsFiniteSet(1 .. weight[x])
    BY <2>1, FS_Interval
  <2>3. IsFiniteSet({x})
    BY FS_Singleton
  <2> QED
    BY <2>2, <2>3, FS_Product
<1> HIDE DEF Part
<1>2. IsFiniteSet(Parts)
  <2>1. part \in [K -> Parts] /\ \A t \in Parts : \E x \in K : part[x] = t
    OBVIOUS
  <2> HIDE DEF Parts, part
  <2> QED
    BY <2>1, FiniteImage
<1>3. \A t \in Parts : IsFiniteSet(t)
  BY <1>1
<1>4. IsFiniteSet(UNION Parts)
  <2> HIDE DEF Parts
  <2> QED
    BY <1>2, <1>3, FS_UNION
<1>5. Units(weight) = UNION Parts
  <2>1. DOMAIN weight = K
    OBVIOUS
  <2> QED
    BY <2>1, Zenon DEF Units, Parts, Part
<1> QED
  BY <1>4, <1>5

\* The samples of finitely many finite profiles are finite.
LEMMA SamplesFinite ==
  ASSUME NEW runs, AreProfiles(runs)
  PROVE  IsFiniteSet(SamplesOf(runs))
<1> DEFINE Row(i) == {i} \X DOMAIN runs[i]
           Rows == {Row(i) : i \in DOMAIN runs}
           row == [i \in DOMAIN runs |-> Row(i)]
           weight == [p \in UNION Rows |-> runs[p[1]][p[2]]]
<1>1. ASSUME NEW i \in DOMAIN runs PROVE IsFiniteSet(Row(i))
  <2>1. IsFiniteSet(DOMAIN runs[i]) /\ IsFiniteSet({i})
    BY FS_Singleton DEF AreProfiles
  <2> QED
    BY <2>1, FS_Product
<1>2. IsFiniteSet(Rows)
  <2> HIDE DEF Row
  <2>1. row \in [DOMAIN runs -> Rows] /\ \A t \in Rows : \E x \in DOMAIN runs : row[x] = t
    OBVIOUS
  <2>2. IsFiniteSet(DOMAIN runs)
    BY DEF AreProfiles
  <2> HIDE DEF Rows, row
  <2> QED
    BY <2>1, <2>2, FiniteImage
<1>3. IsFiniteSet(UNION Rows)
  <2>1. \A t \in Rows : IsFiniteSet(t)
    BY <1>1
  <2> HIDE DEF Rows
  <2> QED
    BY <1>2, <2>1, FS_UNION
<1>4. weight \in [UNION Rows -> Nat]
  <2> SUFFICES ASSUME NEW p \in UNION Rows PROVE runs[p[1]][p[2]] \in Nat
    OBVIOUS
  <2>1. PICK i \in DOMAIN runs : p \in {i} \X DOMAIN runs[i]
    OBVIOUS
  <2>2. p[1] = i /\ p[2] \in DOMAIN runs[i] /\ runs[i] \in [DOMAIN runs[i] -> Nat]
    BY <2>1 DEF AreProfiles
  <2> QED
    BY <2>2
<1>5. SamplesOf(runs) = Units(weight)
  BY DEF SamplesOf
<1> QED
  <2> HIDE DEF weight, Rows
  <2> QED
    BY <1>3, <1>4, <1>5, UnitsFinite

\* Counting the elements of a set key by key counts each of them once.
LEMMA Fibres ==
  ASSUME NEW S, IsFiniteSet(S), NEW K, NEW key \in [S -> K], NEW weight \in [K -> Nat],
         \A x \in K : weight[x] = Cardinality({s \in S : key[s] = x})
  PROVE  Cardinality(Units(weight)) = Cardinality(S)
<1> DEFINE Fibre(x) == {s \in S : key[s] = x}
           b == [x \in K |-> CHOOSE g \in Bijection(1 .. weight[x], Fibre(x)) : TRUE]
           U == Units(weight)
           h == [u \in U |-> b[u[1]][u[2]]]
<1>1. ASSUME NEW x \in K PROVE b[x] \in Bijection(1 .. weight[x], Fibre(x))
  <2>1. Fibre(x) \in SUBSET S
    OBVIOUS
  <2>2. weight[x] = Cardinality(Fibre(x))
    OBVIOUS
  <2> HIDE DEF Fibre
  <2>3. IsFiniteSet(Fibre(x))
    BY <2>1, FS_Subset
  <2>4. ExistsBijection(1 .. weight[x], Fibre(x))
    BY <2>2, <2>3, FS_CardinalityType
  <2> QED
    BY <2>4 DEF ExistsBijection
<1>2. ASSUME NEW x \in K
      PROVE  /\ \A k \in 1 .. weight[x] : b[x][k] \in S /\ key[b[x][k]] = x
             /\ \A k, l \in 1 .. weight[x] : b[x][k] = b[x][l] => k = l
             /\ \A s \in S : key[s] = x => \E k \in 1 .. weight[x] : b[x][k] = s
  <2> HIDE DEF b
  <2> QED
    BY <1>1 DEF Bijection, Injection, Surjection, IsInjective
<1> HIDE DEF b
<1>3. \A u \in U : u[1] \in K /\ u[2] \in 1 .. weight[u[1]] /\ u = <<u[1], u[2]>>
  <2> SUFFICES ASSUME NEW u \in U
               PROVE  u[1] \in K /\ u[2] \in 1 .. weight[u[1]] /\ u = <<u[1], u[2]>>
    OBVIOUS
  <2>1. PICK x \in K : \E k \in 1 .. weight[x] : u = <<x, k>>
    BY UnitIs
  <2> QED
    BY <2>1
<1>4. h \in [U -> S]
  BY <1>2, <1>3
<1>5. \A u, v \in U : h[u] = h[v] => u = v
  <2> SUFFICES ASSUME NEW u \in U, NEW v \in U, h[u] = h[v] PROVE u = v
    OBVIOUS
  <2>1. key[h[u]] = u[1] /\ key[h[v]] = v[1]
    BY <1>2, <1>3
  <2>2. b[u[1]][u[2]] = b[u[1]][v[2]]
    BY <2>1
  <2> QED
    BY <1>2, <1>3, <2>1, <2>2
<1>6. \A s \in S : \E u \in U : h[u] = s
  <2> SUFFICES ASSUME NEW s \in S PROVE \E u \in U : h[u] = s
    OBVIOUS
  <2>1. key[s] \in K
    OBVIOUS
  <2>2. PICK k \in 1 .. weight[key[s]] : b[key[s]][k] = s
    BY <1>2, <2>1
  <2>3. <<key[s], k>> \in U
    BY <2>1, UnitIs
  <2> QED
    BY <2>2, <2>3
<1>7. h \in Injection(U, S) /\ h \in Surjection(U, S)
  <2> HIDE DEF h, U
  <2> QED
    BY <1>4, <1>5, <1>6 DEF Injection, Surjection, IsInjective
<1> QED
  <2> HIDE DEF h
  <2> QED
    BY <1>7, FS_Injection

\* SetToSeq lists every element of a finite set once.
LEMMA Listing ==
  ASSUME NEW S, IsFiniteSet(S)
  PROVE  /\ SetToSeq(S) \in [1 .. Cardinality(S) -> S]
         /\ \A i, j \in 1 .. Cardinality(S) : SetToSeq(S)[i] = SetToSeq(S)[j] => i = j
         /\ \A t \in S : \E i \in 1 .. Cardinality(S) : SetToSeq(S)[i] = t
<1> DEFINE n == Cardinality(S)
           list == SetToSeq(S)
<1>1. n \in Nat /\ ExistsBijection(1 .. n, S)
  BY FS_CardinalityType
<1>2. \E f \in [1 .. n -> S] : IsInjective(f)
  BY <1>1 DEF ExistsBijection, Bijection, Injection
<1>3. list \in [1 .. n -> S] /\ IsInjective(list)
  <2> HIDE DEF n
  <2> QED
    BY <1>2, Zenon DEF SetToSeq, n
<1>4. list \in Injection(1 .. n, S)
  <2> HIDE DEF list, n
  <2> QED
    BY <1>3 DEF Injection
<1>5. Cardinality(1 .. n) = Cardinality(S)
  <2>1. 1 \in Int /\ n \in Int
    BY <1>1
  <2>2. Cardinality(1 .. n) = IF 1 > n THEN 0 ELSE n - 1 + 1
    <3> HIDE DEF n
    <3> QED
      BY <2>1, FS_Interval
  <2> HIDE DEF n
  <2>3. Cardinality(1 .. n) = n
    BY <1>1, <2>2
  <2> QED
    BY <2>3 DEF n
<1>6. list \in Surjection(1 .. n, S)
  <2> HIDE DEF list
  <2> QED
    BY <1>4, <1>5, FS_Injection
<1> QED
  <2> HIDE DEF list, n
  <2>1. /\ list \in [1 .. n -> S]
        /\ \A i, j \in 1 .. n : list[i] = list[j] => i = j
        /\ \A t \in S : \E i \in 1 .. n : list[i] = t
    BY <1>3, <1>6 DEF IsInjective, Surjection
  <2> QED
    BY <2>1, Zenon DEF list, n

Fraction == Int \X (Nat \ {0})

\* Comparing fractions by cross-multiplication is an order.
LEMMA LargerIsOrder ==
  ASSUME NEW x \in Fraction, NEW y \in Fraction, NEW z \in Fraction
  PROVE  /\ Larger(x, y) => ~Larger(y, x)
         /\ ~Larger(x, y) /\ ~Larger(y, z) => ~Larger(x, z)
<1>1. /\ x[1] \in Int /\ y[1] \in Int /\ z[1] \in Int
      /\ x[2] \in Int /\ y[2] \in Int /\ z[2] \in Int
      /\ x[2] > 0 /\ y[2] > 0 /\ z[2] > 0
  BY DEF Fraction
<1>2. \A a, b, c, d, e, f \in Int :
        b > 0 /\ d > 0 /\ f > 0 /\ a * d <= c * b /\ c * f <= e * d => a * f <= e * b
  <2> SUFFICES ASSUME NEW a \in Int, NEW b \in Int, NEW c \in Int, NEW d \in Int,
                      NEW e \in Int, NEW f \in Int,
                      b > 0, d > 0, f > 0, a * d <= c * b, c * f <= e * d
               PROVE  a * f <= e * b
    OBVIOUS
  <2>1. (a * d) * f <= (c * b) * f /\ (c * f) * b <= (e * d) * b
    OBVIOUS
  <2>2. (a * f) * d <= (e * b) * d
    BY <2>1
  <2>3. a * f \in Int /\ e * b \in Int
    OBVIOUS
  <2>4. \A u, v \in Int : u * d <= v * d => u <= v
    OBVIOUS
  <2> QED
    BY <2>2, <2>3, <2>4
<1>3. x[1] * y[2] \in Int /\ y[1] * x[2] \in Int /\ y[1] * z[2] \in Int /\ z[1] * y[2] \in Int
      /\ x[1] * z[2] \in Int /\ z[1] * x[2] \in Int
  BY <1>1
<1>4. Larger(x, y) => ~Larger(y, x)
  BY <1>3 DEF Larger
<1>5. ASSUME ~Larger(x, y), ~Larger(y, z) PROVE ~Larger(x, z)
  <2>1. x[1] * y[2] <= y[1] * x[2] /\ y[1] * z[2] <= z[1] * y[2]
    BY <1>3, <1>5 DEF Larger
  <2>2. x[1] * z[2] <= z[1] * x[2]
    BY <1>1, <1>2, <2>1
  <2> QED
    BY <1>3, <2>2 DEF Larger
<1> QED
  BY <1>4, <1>5

\* A share of a profile is a fraction of its samples.
LEMMA Shares ==
  ASSUME NEW runs, AreProfiles(runs), NEW f
  PROVE  /\ Share(runs, f) \in Nat \X (Nat \ {0})
         /\ Share(runs, f)[1] = CountOf(runs, f)
         /\ CountOf(runs, f) \in Nat
<1>1. IsFiniteSet(SamplesOf(runs))
  BY SamplesFinite
<1>2. {s \in SamplesOf(runs) : s[1][2] = f} \in SUBSET SamplesOf(runs)
  OBVIOUS
<1>3. /\ TotalOf(runs) \in Nat
      /\ CountOf(runs, f) \in Nat /\ CountOf(runs, f) <= TotalOf(runs)
  BY <1>1, <1>2, FS_Subset, FS_CardinalityType DEF TotalOf, CountOf
<1> QED
  BY <1>3 DEF Share

\* A change and its magnitude are fractions.
LEMMA Changes ==
  ASSUME NEW b \in Nat \X (Nat \ {0}), NEW c \in Nat \X (Nat \ {0})
  PROVE  Magnitude(Change(b, c)) \in Fraction
<1>1. c[1] * b[2] - b[1] * c[2] \in Int /\ b[2] * c[2] \in Nat \ {0}
  <2>1. c[1] \in Nat /\ b[1] \in Nat /\ b[2] \in Nat \ {0} /\ c[2] \in Nat \ {0}
    OBVIOUS
  <2>2. \A u, v \in Nat \ {0} : u * v \in Nat \ {0}
    OBVIOUS
  <2> QED
    BY <2>1, <2>2
<1> DEFINE numerator == c[1] * b[2] - b[1] * c[2]
           denominator == b[2] * c[2]
<1>2. Change(b, c) = <<numerator, denominator>>
  BY DEF Change
<1>3. numerator \in Int /\ denominator \in Nat \ {0}
  BY <1>1
<1> HIDE DEF numerator, denominator
<1> QED
  BY <1>2, <1>3 DEF Magnitude, Fraction

\* The entries come in an order with no larger change behind a smaller one.
LEMMA SortedChanges ==
  ASSUME NEW n \in Nat, NEW E, NEW list \in [1 .. n -> E],
         \A e \in E : Magnitude(e.change) \in Fraction
  PROVE  \E p \in Bijection(1 .. n, 1 .. n) :
           /\ Sort(list, LargerChange) = [i \in 1 .. n |-> list[p[i]]]
           /\ \A i, j \in 1 .. n : i < j => ~LargerChange(list[p[j]], list[p[i]])
<1> DEFINE R == {pair \in E \X E : LargerChange(pair[1], pair[2])}
           NoneAhead(p) == \A i, j \in 1 .. n : i < j => ~LargerChange(list[p[j]], list[p[i]])
           order == CHOOSE p \in Bijection(1 .. n, 1 .. n) : NoneAhead(p)
<1>1. IsOrder(R, E)
  <2>1. \A x, y \in E : <<x, y>> \in R <=> LargerChange(x, y)
    OBVIOUS
  <2>2. ASSUME NEW x \in E, NEW y \in E, NEW z \in E
        PROVE  /\ LargerChange(x, y) => ~LargerChange(y, x)
               /\ ~LargerChange(x, y) /\ ~LargerChange(y, z) => ~LargerChange(x, z)
    BY LargerIsOrder, Zenon DEF LargerChange
  <2> HIDE DEF R
  <2> QED
    BY <2>1, <2>2 DEF IsOrder
<1>2. PICK p \in Bijection(1 .. n, 1 .. n) : InOrder(p, list, n, R)
  <2> HIDE DEF R
  <2> QED
    BY <1>1, OrderExists
<1>3. NoneAhead(p)
  <2>1. p \in [1 .. n -> 1 .. n]
    BY DEF Bijection, Injection
  <2>2. \A i, j \in 1 .. n : i < j => <<list[p[j]], list[p[i]]>> \notin R
    BY <1>2 DEF InOrder
  <2>3. \A i \in 1 .. n : list[p[i]] \in E
    BY <2>1
  <2> QED
    BY <2>2, <2>3
<1>4. order \in Bijection(1 .. n, 1 .. n) /\ NoneAhead(order)
  <2> HIDE DEF NoneAhead
  <2> QED
    BY <1>3
<1>5. Sort(list, LargerChange) = [i \in 1 .. n |-> list[order[i]]]
  <2>1. DOMAIN list = 1 .. n
    OBVIOUS
  <2> QED
    BY <2>1 DEF Sort
<1> QED
  BY <1>4, <1>5, Zenon

\* compareProfiles lists every compared function once, the largest change first.
LEMMA EntriesListed ==
  ASSUME NEW baseline, AreProfiles(baseline), NEW candidate, AreProfiles(candidate),
         NEW entries, entries = CompareProfiles(baseline, candidate)
  PROVE  \E n \in Nat :
           /\ DOMAIN entries = 1 .. n
           /\ \A i \in 1 .. n : \E f : entries[i] = Entry(baseline, candidate, f)
           /\ \A i, j \in 1 .. n : entries[i].function = entries[j].function => i = j
           /\ \A f \in Compared(baseline, candidate) :
                \E i \in 1 .. n : entries[i].function = f
           /\ \A i, j \in 1 .. n : i < j => ~LargerChange(entries[j], entries[i])
<1> DEFINE F == Compared(baseline, candidate)
           E == {Entry(baseline, candidate, f) : f \in F}
           n == Cardinality(E)
           list == SetToSeq(E)
<1>1. IsFiniteSet(F)
  <2>1. ASSUME NEW runs, AreProfiles(runs) PROVE IsFiniteSet(Sampled(runs))
    <3> DEFINE D == {DOMAIN runs[i] : i \in DOMAIN runs}
               g == [i \in DOMAIN runs |-> DOMAIN runs[i]]
    <3>1. g \in [DOMAIN runs -> D] /\ \A t \in D : \E i \in DOMAIN runs : g[i] = t
      OBVIOUS
    <3>2. IsFiniteSet(DOMAIN runs) /\ \A t \in D : IsFiniteSet(t)
      BY <2>1 DEF AreProfiles
    <3>3. Sampled(runs) = UNION D
      BY DEF Sampled
    <3> HIDE DEF D, g
    <3>4. IsFiniteSet(D)
      BY <3>1, <3>2, FiniteImage
    <3> QED
      BY <3>2, <3>3, <3>4, FS_UNION
  <2>2. IsFiniteSet(Sampled(baseline)) /\ IsFiniteSet(Sampled(candidate))
    BY <2>1
  <2> QED
    BY <2>2, FS_Union DEF Compared
<1>2. IsFiniteSet(E)
  <2> DEFINE g == [f \in F |-> Entry(baseline, candidate, f)]
  <2> HIDE DEF F
  <2>1. g \in [F -> E] /\ \A t \in E : \E f \in F : g[f] = t
    OBVIOUS
  <2> HIDE DEF g, E
  <2> QED
    BY <1>1, <2>1, FiniteImage
<1>3. \A e \in E : Magnitude(e.change) \in Fraction
  <2> SUFFICES ASSUME NEW f \in F
               PROVE  Magnitude(Entry(baseline, candidate, f).change) \in Fraction
    OBVIOUS
  <2>1. Entry(baseline, candidate, f).change = Change(Share(baseline, f), Share(candidate, f))
    BY DEF Entry
  <2>2. /\ Share(baseline, f) \in Nat \X (Nat \ {0})
        /\ Share(candidate, f) \in Nat \X (Nat \ {0})
    BY Shares
  <2> QED
    BY <2>1, <2>2, Changes
<1> HIDE DEF E
<1>4. n \in Nat
  BY <1>2, FS_CardinalityType
<1>5. /\ list \in [1 .. n -> E]
      /\ \A i, j \in 1 .. n : list[i] = list[j] => i = j
      /\ \A t \in E : \E i \in 1 .. n : list[i] = t
  BY <1>2, Listing, Zenon
<1> HIDE DEF list, n
<1>6. PICK p \in Bijection(1 .. n, 1 .. n) :
           /\ Sort(list, LargerChange) = [i \in 1 .. n |-> list[p[i]]]
           /\ \A i, j \in 1 .. n : i < j => ~LargerChange(list[p[j]], list[p[i]])
  BY <1>3, <1>4, <1>5, SortedChanges, Zenon
<1>7. entries = [i \in 1 .. n |-> list[p[i]]]
  BY <1>6, Zenon DEF CompareProfiles, list, E, F
<1>8. /\ p \in [1 .. n -> 1 .. n]
      /\ \A i, j \in 1 .. n : p[i] = p[j] => i = j
      /\ \A t \in 1 .. n : \E i \in 1 .. n : p[i] = t
  BY DEF Bijection, Injection, Surjection, IsInjective
<1>9. \A i, j \in 1 .. n : i < j => ~LargerChange(entries[j], entries[i])
  <2>1. \A i, j \in 1 .. n : i < j => ~LargerChange(list[p[j]], list[p[i]])
    BY <1>6, Zenon
  <2> QED
    BY <1>7, <2>1
<1>10. DOMAIN entries = 1 .. n /\ \A i \in 1 .. n : entries[i] \in E /\ entries[i] = list[p[i]]
  BY <1>5, <1>7, <1>8
<1>11. \A e \in E : \E f \in F : e = Entry(baseline, candidate, f) /\ e.function = f
  BY DEF E, Entry
<1>12. \A f \in F : Entry(baseline, candidate, f) \in E
  BY DEF E
<1>13. \A i \in 1 .. n : \E f : entries[i] = Entry(baseline, candidate, f)
  BY <1>10, <1>11
<1>14. ASSUME NEW i \in 1 .. n, NEW j \in 1 .. n, entries[i].function = entries[j].function
       PROVE  i = j
  <2>1. list[p[i]] = list[p[j]]
    BY <1>10, <1>11, <1>14
  <2>2. p[i] \in 1 .. n /\ p[j] \in 1 .. n
    BY <1>8
  <2>3. p[i] = p[j]
    BY <1>5, <2>1, <2>2
  <2> QED
    BY <1>8, <2>3
<1>15. ASSUME NEW f \in F PROVE \E i \in 1 .. n : entries[i].function = f
  <2>1. PICK k \in 1 .. n : list[k] = Entry(baseline, candidate, f)
    BY <1>5, <1>12
  <2>2. PICK i \in 1 .. n : p[i] = k
    BY <1>8
  <2>3. Entry(baseline, candidate, f).function = f
    BY DEF Entry
  <2> QED
    BY <1>10, <2>1, <2>2, <2>3
<1> QED
  BY <1>4, <1>9, <1>10, <1>13, <1>14, <1>15

\* The counts of a list that names every sampled function once add up to all
\* samples.
THEOREM CountsAddUp ==
  ASSUME NEW runs, AreProfiles(runs), NEW K, NEW name,
         \A i, j \in K : name[i] = name[j] => i = j,
         \A f \in Sampled(runs) : \E i \in K : name[i] = f,
         NEW weight \in [K -> Nat], \A i \in K : weight[i] = CountOf(runs, name[i])
  PROVE  Cardinality(Units(weight)) = TotalOf(runs)
<1> DEFINE S == SamplesOf(runs)
           key == [s \in S |-> CHOOSE i \in K : name[i] = s[1][2]]
<1>1. IsFiniteSet(S)
  BY SamplesFinite
<1>2. ASSUME NEW s \in S PROVE s[1][2] \in Sampled(runs)
  <2> DEFINE recorded == UNION {{i} \X DOMAIN runs[i] : i \in DOMAIN runs}
             w == [p \in recorded |-> runs[p[1]][p[2]]]
  <2>1. s \in Units(w)
    BY DEF SamplesOf
  <2>2. PICK p \in recorded : \E k \in 1 .. w[p] : s = <<p, k>>
    <3>1. DOMAIN w = recorded
      OBVIOUS
    <3> HIDE DEF w, recorded
    <3> QED
      BY <2>1, <3>1, UnitIs
  <2>3. PICK i \in DOMAIN runs : p \in {i} \X DOMAIN runs[i]
    OBVIOUS
  <2>4. s[1] = p /\ p[2] \in DOMAIN runs[i]
    BY <2>2, <2>3
  <2> QED
    BY <2>4 DEF Sampled
<1>3. ASSUME NEW s \in S PROVE key[s] \in K /\ name[key[s]] = s[1][2]
  BY <1>2
<1>4. key \in [S -> K]
  <2>1. key = [s \in S |-> key[s]]
    OBVIOUS
  <2> HIDE DEF key
  <2> QED
    BY <1>3, <2>1
<1>5. ASSUME NEW x \in K PROVE weight[x] = Cardinality({s \in S : key[s] = x})
  <2> HIDE DEF key
  <2>1. \A s \in S : key[s] = x <=> s[1][2] = name[x]
    BY <1>3
  <2>2. {s \in S : key[s] = x} = {s \in S : s[1][2] = name[x]}
    BY <2>1
  <2> QED
    BY <2>2 DEF CountOf
<1> QED
  <2> HIDE DEF key, S
  <2>1. Cardinality(Units(weight)) = Cardinality(S)
    BY <1>1, <1>4, <1>5, Fibres
  <2> QED
    BY <2>1 DEF S, TotalOf

-----------------------------------------------------------------------------
(* compareProfiles. *)

ComparedProfiles ==
    /\ job.kind = "profiles" => job.input \in ProfileJobs
    /\ answer.kind = "profiles" =>
         /\ job.input \in ProfileJobs
         /\ answer.value = CompareProfiles(job.input.baseline, job.input.candidate)

\* Nothing but compareProfiles answers for two lists of profiles.
LEMMA ComparedStays == ComparedProfiles /\ [Next]_vars => ComparedProfiles'
<1> SUFFICES ASSUME ComparedProfiles, [Next]_vars PROVE ComparedProfiles'
  OBVIOUS
<1>1. CASE Scale \/ Load
  BY <1>1 DEF Scale, Load, ComparedProfiles
<1>2. CASE Compare
  BY <1>2 DEF Compare, ComparedProfiles
<1>3. CASE UNCHANGED vars
  BY <1>3 DEF vars, ComparedProfiles
<1> QED
  BY <1>1, <1>2, <1>3 DEF Next

\* Whatever functions only one side has, each side's shares are the whole.
LEMMA SharesAddUp ==
  ASSUME NEW baseline, AreProfiles(baseline), NEW candidate, AreProfiles(candidate),
         NEW entries, entries = CompareProfiles(baseline, candidate)
  PROVE  /\ SumOfShares(entries, "baseline") = TotalOf(baseline)
         /\ SumOfShares(entries, "candidate") = TotalOf(candidate)
<1>1. PICK n \in Nat :
        /\ DOMAIN entries = 1 .. n
        /\ \A i \in 1 .. n : \E f : entries[i] = Entry(baseline, candidate, f)
        /\ \A i, j \in 1 .. n : entries[i].function = entries[j].function => i = j
        /\ \A f \in Compared(baseline, candidate) : \E i \in 1 .. n : entries[i].function = f
  BY EntriesListed
<1> DEFINE K == 1 .. n
           name == [i \in K |-> entries[i].function]
<1>2. \A i, j \in K : name[i] = name[j] => i = j
  BY <1>1
<1>3. \A f \in Sampled(baseline) \cup Sampled(candidate) : \E i \in K : name[i] = f
  BY <1>1 DEF Compared
<1>4. \A i \in K : /\ entries[i]["baseline"] = Share(baseline, name[i])
                  /\ entries[i]["candidate"] = Share(candidate, name[i])
  BY <1>1 DEF Entry
<1>5. DOMAIN entries = K
  BY <1>1
<1> HIDE DEF name, K
<1>6. SumOfShares(entries, "baseline") = TotalOf(baseline)
  <2> DEFINE weight == [i \in K |-> entries[i]["baseline"][1]]
  <2>1. \A i \in K : weight[i] = CountOf(baseline, name[i])
    BY <1>4, Shares
  <2>2. weight \in [K -> Nat]
    BY <1>4, Shares
  <2>3. SumOfShares(entries, "baseline") = Cardinality(Units(weight))
    BY <1>5 DEF SumOfShares
  <2>4. \A f \in Sampled(baseline) : \E i \in K : name[i] = f
    BY <1>3
  <2> HIDE DEF weight
  <2>5. Cardinality(Units(weight)) = TotalOf(baseline)
    BY <1>2, <2>1, <2>2, <2>4, CountsAddUp
  <2> QED
    BY <2>3, <2>5
<1>7. SumOfShares(entries, "candidate") = TotalOf(candidate)
  <2> DEFINE weight == [i \in K |-> entries[i]["candidate"][1]]
  <2>1. \A i \in K : weight[i] = CountOf(candidate, name[i])
    BY <1>4, Shares
  <2>2. weight \in [K -> Nat]
    BY <1>4, Shares
  <2>3. SumOfShares(entries, "candidate") = Cardinality(Units(weight))
    BY <1>5 DEF SumOfShares
  <2>4. \A f \in Sampled(candidate) : \E i \in K : name[i] = f
    BY <1>3
  <2> HIDE DEF weight
  <2>5. Cardinality(Units(weight)) = TotalOf(candidate)
    BY <1>2, <2>1, <2>2, <2>4, CountsAddUp
  <2> QED
    BY <2>3, <2>5
<1> QED
  BY <1>6, <1>7

\* The comparison of any two lists of profiles names every function once,
\* neither loses nor invents a sample, and begins with the largest change.
THEOREM SharesConsistent == Spec => []ProfileSharesConsistent
<1>1. Init => ComparedProfiles
  BY DEF Init, ComparedProfiles, Pending
<1>2. ComparedProfiles => ProfileSharesConsistent
  <2> SUFFICES ASSUME ComparedProfiles, answer.kind = "profiles"
               PROVE  LET entries == answer.value
                          sides == [baseline |-> job.input.baseline,
                                    candidate |-> job.input.candidate]
                      IN /\ \A side \in DOMAIN sides :
                              SumOfShares(entries, side) = TotalOf(sides[side])
                         /\ \A i, j \in DOMAIN entries :
                              /\ i # j => entries[i].function # entries[j].function
                              /\ i < j => ~Larger(Magnitude(entries[j].change),
                                                  Magnitude(entries[i].change))
    BY DEF ProfileSharesConsistent
  <2> DEFINE baseline == job.input.baseline
             candidate == job.input.candidate
             entries == answer.value
             sides == [baseline |-> baseline, candidate |-> candidate]
  <2>1. AreProfiles(baseline) /\ AreProfiles(candidate)
        /\ entries = CompareProfiles(baseline, candidate)
    BY ProfilesAssumption DEF ComparedProfiles
  <2>2. /\ SumOfShares(entries, "baseline") = TotalOf(baseline)
        /\ SumOfShares(entries, "candidate") = TotalOf(candidate)
    <3> HIDE DEF baseline, candidate, entries
    <3> QED
      BY <2>1, SharesAddUp
  <2>3. PICK n \in Nat :
          /\ DOMAIN entries = 1 .. n
          /\ \A i, j \in 1 .. n : entries[i].function = entries[j].function => i = j
          /\ \A i, j \in 1 .. n : i < j => ~LargerChange(entries[j], entries[i])
    <3> HIDE DEF baseline, candidate, entries
    <3> QED
      BY <2>1, EntriesListed
  <2>4. \A side \in DOMAIN sides : SumOfShares(entries, side) = TotalOf(sides[side])
    <3> HIDE DEF baseline, candidate, entries
    <3> QED
      BY <2>2
  <2>5. \A i, j \in DOMAIN entries :
          /\ i # j => entries[i].function # entries[j].function
          /\ i < j => ~Larger(Magnitude(entries[j].change), Magnitude(entries[i].change))
    <3> HIDE DEF entries
    <3> QED
      BY <2>3 DEF LargerChange
  <2> QED
    BY <2>4, <2>5
<1> QED
  BY <1>1, <1>2, ComparedStays, PTL DEF Spec

-----------------------------------------------------------------------------
(* scaleCounter. *)

ScaledJob ==
    /\ job.kind = "scale" => job.input \in ScaleJobs
    /\ answer.kind = "scale" =>
         /\ job.input \in ScaleJobs
         /\ answer.value = ScaleCounter(job.input.raw, job.input.enabled, job.input.running)

\* Nothing but scaleCounter answers for a count and its times.
LEMMA ScaledStays == ScaledJob /\ [Next]_vars => ScaledJob'
<1> SUFFICES ASSUME ScaledJob, [Next]_vars PROVE ScaledJob'
  OBVIOUS
<1>1. CASE Compare \/ Load
  BY <1>1 DEF Compare, Load, ScaledJob
<1>2. CASE Scale
  BY <1>2 DEF Scale, ScaledJob
<1>3. CASE UNCHANGED vars
  BY <1>3 DEF vars, ScaledJob
<1> QED
  BY <1>1, <1>2, <1>3 DEF Next

\* For every width of a word and every mantissa that holds one, no count and no
\* times make the three roundings, the saturation and the truncation of
\* scaleCounter miss the exact extrapolation by 2.5 or fall below the count.
THEOREM ScaledAccurate == Spec => []ScaledCounterAccurate
<1>1. Init => ScaledJob
  BY DEF Init, ScaledJob, Pending
<1>2. ScaledJob => ScaledCounterAccurate
  <2> SUFFICES ASSUME ScaledJob, answer.kind = "scale" PROVE ScaledCounterAccurate
    BY DEF ScaledCounterAccurate
  <2> DEFINE raw == job.input.raw
             enabled == job.input.enabled
             running == job.input.running
             v == answer.value
  <2>1. raw \in Word /\ enabled \in Word /\ running \in Word \ {0}
        /\ v = ScaleCounter(raw, enabled, running)
    BY ScaleJobsAssumption DEF ScaledJob
  <2>2. /\ v \in Word /\ v >= raw
        /\ running >= enabled => v = raw
        /\ running < enabled =>
             \/ /\ 2 * v * running < 2 * (raw * enabled) + 5 * running
                /\ 2 * (raw * enabled) < 2 * v * running + 5 * running
             \/ v = MaxWord /\ raw * enabled >= MaxWord * running
        /\ /\ running < enabled /\ raw * enabled \in Word /\ (raw * enabled) % running = 0
           /\ 2 * ((raw * enabled) \div running) < MaxWord
           => v * running = raw * enabled
    <3> HIDE DEF raw, enabled, running, v
    <3> QED
      BY <2>1, ScaledAccurately
  <2> QED
    BY <2>2 DEF ScaledCounterAccurate
<1> QED
  BY <1>1, <1>2, ScaledStays, PTL DEF Spec
=============================================================================
