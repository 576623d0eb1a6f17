------------------------- MODULE RerankBatch_proofs --------------------------
(***************************************************************************)
(* The bound filter of the tiled rerank loses nothing: the threshold that  *)
(* the tiles of a batch are pruned with is the k-th distance of all        *)
(* candidates before the tile, those that were never read included.        *)
(***************************************************************************)
EXTENDS RerankBatch, FiniteSetTheorems, TLAPS

(* Taken for granted, as both are sums and sorts over as many places as    *)
(* there are: a warp adds every term once (WarpReduce), and the bitonic    *)
(* network gives back as many entries as it was given, all of them entries *)
(* it was given or the padding.                                            *)
WarpsAdd ==
  \A q \in Queries, n \in Nodes :
    WarpSum([d \in Dims |-> (Vectors[n][d] - QueryVectors[q][d])^2]) = Exact[q][n]

SortsKeepEntries ==
  \A n \in Nat \ {0} : \A entries :
    entries = [i \in 1 .. n |-> entries[i]] =>
      BitonicSorted(entries, n) \in [1 .. n -> {entries[i] : i \in 1 .. n} \cup {Unfilled}]
-----------------------------------------------------------------------------
(* A set of natural numbers has a least element.                           *)
LEMMA LeastElement ==
  ASSUME NEW T, T \subseteq Nat, T # {}
  PROVE  \E x \in T : \A y \in T : x <= y
<1> DEFINE R == StrictSubsetOrdering(Nat)
           S == FiniteSubsetsOf(Nat)
           U == {0..x : x \in T}
<1>1. IsWellFoundedOn(R, S)
  BY FS_StrictSubsetOrderingWellFounded, Zenon
<1>2. U \subseteq S
  <2>1. ASSUME NEW x \in T PROVE 0..x \subseteq Nat /\ IsFiniteSet(0..x)
    BY FS_Interval, SMT
  <2> QED
    BY <2>1 DEF FiniteSubsetsOf
<1>3. U # {}
  OBVIOUS
<1>4. ASSUME NEW x \in T, NEW y \in T, y < x PROVE <<0..y, 0..x>> \in R
  <2>1. /\ 0..y \in SUBSET Nat /\ 0..x \in SUBSET Nat
        /\ 0..y \subseteq 0..x /\ x \notin 0..y /\ x \in 0..x
    BY <1>4, SMT
  <2> QED
    BY <2>1 DEF StrictSubsetOrdering
<1> HIDE DEF R, S
<1>5. PICK u \in U : \A v \in U : ~ (<<v, u>> \in R)
  <2> HIDE DEF U
  <2> QED
    BY <1>1, <1>2, <1>3, WFMin, Zenon
<1>6. PICK x \in T : u = 0..x
  OBVIOUS
<1>7. ASSUME NEW y \in T PROVE x <= y
  <2>1. ~ (<<0..y, 0..x>> \in R)
    BY <1>5, <1>6
  <2>2. ~ (y < x)
    BY <1>4, <2>1
  <2> QED
    BY <2>2
<1> QED
  BY <1>7

(* The places of the first m entries that are no farther than d.           *)
Within(a, m, d) == {i \in 1 .. m : a[i].distance <= d}

(* There are finitely many of them.                                        *)
LEMMA WithinCounts ==
  ASSUME NEW a, NEW m \in Nat, NEW d
  PROVE  IsFiniteSet(Within(a, m, d)) /\ Cardinality(Within(a, m, d)) \in Nat
<1>1. IsFiniteSet(1 .. m)
  BY FS_Interval
<1>2. Within(a, m, d) \in SUBSET (1 .. m)
  BY DEF Within
<1> QED
  BY <1>1, <1>2, FS_Subset, FS_CardinalityType

(* With more places there are no fewer.                                    *)
LEMMA MoreWithin ==
  ASSUME NEW a, NEW b, NEW m \in Nat, NEW n \in Nat, NEW d, NEW e,
         Within(a, m, d) \subseteq Within(b, n, e)
  PROVE  Cardinality(Within(a, m, d)) <= Cardinality(Within(b, n, e))
<1>1. IsFiniteSet(Within(b, n, e))
  BY WithinCounts
<1> QED
  BY <1>1, FS_Subset, Zenon

Distances(a, m) == \A i \in 1 .. m : a[i].distance \in 0 .. Infinity

(* t is the k-th distance of the first m entries: that of one of them that *)
(* has top_k within it, and no nearer one has; or there are not so many.   *)
IsKth(a, m, t) ==
  /\ t \in 0 .. Infinity
  /\ t = Infinity \/ (Cardinality(Within(a, m, t)) >= TopK /\ \E i \in 1 .. m : a[i].distance = t)
  /\ \A i \in 1 .. m : a[i].distance < t => Cardinality(Within(a, m, a[i].distance)) < TopK

(* The k-th distance is the only one with that property.                   *)
LEMMA KthDistanceIsKth ==
  ASSUME NEW m \in Nat, NEW a, DOMAIN a = 1 .. m, Distances(a, m)
  PROVE  \A t : IsKth(a, m, t) <=> t = KthDistance(a)
<1> DEFINE found == {a[i].distance : i \in 1 .. m} \cup {Infinity}
           reached == {d \in found : d = Infinity \/ Cardinality(Within(a, m, d)) >= TopK}
<1>0. Infinity \in Nat /\ TopK \in Nat
  BY OrderAssumption
<1>1. KthDistance(a) = CHOOSE d \in reached : \A e \in reached : d <= e
  BY DEF KthDistance, Within
<1>2. reached \subseteq 0 .. Infinity /\ Infinity \in reached
  BY <1>0 DEF Distances
<1>3. PICK k \in reached : \A e \in reached : k <= e
  <2>1. reached \subseteq Nat /\ reached # {}
    BY <1>0, <1>2
  <2> HIDE DEF reached
  <2> QED
    BY <2>1, LeastElement
<1>4. ASSUME NEW d \in reached, \A e \in reached : d <= e PROVE d = k
  <2>1. d <= k /\ k <= d /\ d \in 0 .. Infinity /\ k \in 0 .. Infinity
    BY <1>2, <1>3, <1>4
  <2> HIDE DEF reached
  <2> QED
    BY <1>0, <2>1
<1>5. KthDistance(a) = k
  <2> HIDE DEF reached
  <2> QED
    BY <1>1, <1>3, <1>4
<1>6. IsKth(a, m, k)
  <2>1. k \in 0 .. Infinity
    BY <1>2, <1>3
  <2>2. k = Infinity \/ (Cardinality(Within(a, m, k)) >= TopK /\ \E i \in 1 .. m : a[i].distance = k)
    BY <1>3
  <2>3. ASSUME NEW i \in 1 .. m, a[i].distance < k
        PROVE  Cardinality(Within(a, m, a[i].distance)) < TopK
    <3>1. a[i].distance \in 0 .. Infinity /\ a[i].distance \in found
      BY DEF Distances
    <3>2. a[i].distance \notin reached
      <4>1. ~(k <= a[i].distance)
        BY <1>0, <2>1, <2>3, <3>1
      <4> QED
        BY <1>3, <4>1
    <3>3. ~(Cardinality(Within(a, m, a[i].distance)) >= TopK)
      BY <3>1, <3>2
    <3>4. Cardinality(Within(a, m, a[i].distance)) \in Nat
      BY WithinCounts
    <3> QED
      BY <1>0, <3>3, <3>4
  <2> QED
    BY <2>1, <2>2, <2>3 DEF IsKth
<1>7. ASSUME NEW t, IsKth(a, m, t) PROVE t = k
  <2>1. t \in 0 .. Infinity /\ k \in 0 .. Infinity
    BY <1>2, <1>3, <1>7 DEF IsKth
  <2>2. t \in reached
    BY <1>7 DEF IsKth
  <2>3. k <= t
    BY <1>3, <2>2
  <2>4. ~(k < t)
    <3> SUFFICES ASSUME k < t PROVE FALSE
      OBVIOUS
    <3>1. k # Infinity
      BY <1>0, <2>1
    <3>2. Cardinality(Within(a, m, k)) >= TopK /\ \E i \in 1 .. m : a[i].distance = k
      BY <1>6, <3>1 DEF IsKth
    <3>3. Cardinality(Within(a, m, k)) < TopK
      BY <1>7, <3>2 DEF IsKth
    <3>4. Cardinality(Within(a, m, k)) \in Nat
      BY WithinCounts
    <3> QED
      BY <1>0, <3>2, <3>3, <3>4
  <2> QED
    BY <1>0, <2>1, <2>3, <2>4
<1> HIDE DEF reached, found
<1> QED
  BY <1>5, <1>6, <1>7

(* Entries that are cleared and stand for farther ones than the k-th do    *)
(* not move it.                                                            *)
LEMMA PrunedKth ==
  ASSUME NEW m \in Nat, NEW a, NEW b, NEW t, IsKth(a, m, t), Distances(b, m),
         \A i \in 1 .. m : a[i] = b[i] \/ (a[i].distance = Infinity /\ b[i].distance > t)
  PROVE  IsKth(b, m, t)
<1>0. Infinity \in Nat /\ TopK \in Nat /\ t \in 0 .. Infinity
  BY OrderAssumption DEF IsKth
<1>1. ASSUME NEW d \in 0 .. Infinity - 1, d <= t PROVE Within(a, m, d) = Within(b, m, d)
  <2> SUFFICES ASSUME NEW i \in 1 .. m PROVE a[i].distance <= d <=> b[i].distance <= d
    BY DEF Within
  <2>1. b[i].distance \in 0 .. Infinity
    BY DEF Distances
  <2>2. CASE a[i] = b[i]
    BY <2>2
  <2>3. CASE a[i].distance = Infinity /\ b[i].distance > t
    BY <1>0, <1>1, <2>1, <2>3
  <2> QED
    BY <2>2, <2>3
<1>2. ASSUME t # Infinity
      PROVE  Cardinality(Within(b, m, t)) >= TopK /\ \E i \in 1 .. m : b[i].distance = t
  <2>1. Cardinality(Within(a, m, t)) >= TopK /\ \E i \in 1 .. m : a[i].distance = t
    BY <1>2 DEF IsKth
  <2>2. Within(a, m, t) = Within(b, m, t)
    <3>1. t \in 0 .. Infinity - 1 /\ t <= t
      BY <1>0, <1>2
    <3> QED
      BY <1>1, <3>1
  <2>3. PICK i \in 1 .. m : a[i].distance = t
    BY <2>1
  <2>4. b[i].distance = t
    BY <1>2, <2>3
  <2> QED
    BY <2>1, <2>2, <2>4
<1>3. ASSUME NEW i \in 1 .. m, b[i].distance < t
      PROVE  Cardinality(Within(b, m, b[i].distance)) < TopK
  <2>1. b[i].distance \in 0 .. Infinity
    BY DEF Distances
  <2>2. a[i] = b[i]
    BY <1>0, <1>3, <2>1
  <2>3. Cardinality(Within(a, m, b[i].distance)) < TopK
    BY <1>3, <2>2 DEF IsKth
  <2>4. b[i].distance \in 0 .. Infinity - 1 /\ b[i].distance <= t
    BY <1>0, <1>3, <2>1
  <2>5. Within(a, m, b[i].distance) = Within(b, m, b[i].distance)
    BY <1>1, <2>4
  <2> QED
    BY <2>3, <2>5
<1> QED
  BY <1>0, <1>2, <1>3 DEF IsKth

(* Entries that are clear do not count.                                    *)
LEMMA ClearKth ==
  ASSUME NEW m \in Nat, NEW n \in Nat, m <= n, NEW a, NEW t, IsKth(a, m, t), Distances(a, m),
         \A i \in 1 .. n : i > m => a[i].distance = Infinity
  PROVE  IsKth(a, n, t)
<1>0. Infinity \in Nat /\ TopK \in Nat /\ t \in 0 .. Infinity
  BY OrderAssumption DEF IsKth
<1>1. ASSUME NEW d \in 0 .. Infinity - 1 PROVE Within(a, m, d) = Within(a, n, d)
  <2> SUFFICES ASSUME NEW i \in 1 .. n, a[i].distance <= d PROVE i \in 1 .. m
    BY DEF Within
  <2> QED
    BY <1>0
<1>2. ASSUME t # Infinity
      PROVE  Cardinality(Within(a, n, t)) >= TopK /\ \E i \in 1 .. n : a[i].distance = t
  <2>1. t \in 0 .. Infinity - 1
    BY <1>0, <1>2
  <2> QED
    BY <1>1, <1>2, <2>1 DEF IsKth
<1>3. ASSUME NEW i \in 1 .. n, a[i].distance < t
      PROVE  Cardinality(Within(a, n, a[i].distance)) < TopK
  <2>1. i \in 1 .. m
    BY <1>0, <1>3
  <2>2. a[i].distance \in 0 .. Infinity - 1
    BY <1>0, <1>3, <2>1 DEF Distances
  <2> QED
    BY <1>1, <1>3, <2>1, <2>2 DEF IsKth
<1> QED
  BY <1>0, <1>2, <1>3 DEF IsKth

(* More entries bring the k-th no farther away.                            *)
LEMMA KthNearer ==
  ASSUME NEW m \in Nat, NEW n \in Nat, m <= n, NEW a, NEW b, NEW t, NEW u,
         IsKth(a, m, t), IsKth(b, n, u), \A i \in 1 .. m : a[i] = b[i]
  PROVE  u <= t
<1>0. /\ Infinity \in Nat /\ TopK \in Nat /\ t \in 0 .. Infinity /\ u \in 0 .. Infinity
  BY OrderAssumption DEF IsKth
<1> SUFFICES ASSUME t < u PROVE FALSE
  BY <1>0
<1>1. t # Infinity
  BY <1>0
<1>2. Cardinality(Within(a, m, t)) >= TopK /\ \E i \in 1 .. m : a[i].distance = t
  BY <1>1 DEF IsKth
<1>3. PICK i \in 1 .. m : a[i].distance = t
  BY <1>2
<1>4. i \in 1 .. n /\ b[i].distance = t
  BY <1>3
<1>5. Cardinality(Within(b, n, t)) < TopK
  BY <1>4 DEF IsKth
<1>6. Within(a, m, t) \subseteq Within(b, n, t)
  BY DEF Within
<1>7. Cardinality(Within(a, m, t)) <= Cardinality(Within(b, n, t))
  BY <1>6, MoreWithin
<1>8. Cardinality(Within(a, m, t)) \in Nat /\ Cardinality(Within(b, n, t)) \in Nat
  BY WithinCounts
<1> QED
  BY <1>0, <1>2, <1>5, <1>7, <1>8
-----------------------------------------------------------------------------
(* A bound that holds for the distance of a candidate prunes only where    *)
(* the distance exceeds the threshold.                                     *)
LEMMA BoundPrunes ==
  ASSUME NEW approx \in Int, NEW e \in Nat, NEW x \in Nat, NEW t \in Nat,
         BoundExceeds(approx, e, t), ~BoundExceeds(approx, e, x)
  PROVE  x > t
<1> SUFFICES ASSUME x <= t PROVE FALSE
  OBVIOUS
<1> DEFINE far == approx - e * e - t
           near == approx - e * e - x
<1>1. e * e \in Nat
  OBVIOUS
<1>2. far \in Int /\ near \in Int /\ far > 0 /\ near >= far
  BY <1>1 DEF BoundExceeds
<1>3. far * far > 4 * e * e * t
  BY DEF BoundExceeds
<1>4. near * near >= far * far
  <2> HIDE DEF far, near
  <2> QED
    BY <1>2
<1>5. 4 * e * e * t >= 4 * e * e * x
  <2>1. \A c, y, z \in Nat : y >= z => c * y >= c * z
    OBVIOUS
  <2>2. 4 * e * e \in Nat
    BY <1>1
  <2> QED
    BY <2>1, <2>2
<1>6. near > 0 /\ near * near > 4 * e * e * x
  <2>1. far * far \in Int /\ near * near \in Int /\ 4 * e * e * t \in Int /\ 4 * e * e * x \in Int
    BY <1>1, <1>2
  <2> HIDE DEF far, near
  <2> QED
    BY <1>2, <1>3, <1>4, <1>5, <2>1
<1> QED
  BY <1>6 DEF BoundExceeds
-----------------------------------------------------------------------------
(* The record at the page and slot of a node is its vector.                *)
LEMMA RecordIsVector ==
  ASSUME NEW n \in Nodes
  PROVE  /\ Resolve(n).page \in DOMAIN WrittenPages
         /\ Record(WrittenPages[Resolve(n).page], Resolve(n).slot) = Vectors[n]
<1> DEFINE count == Cardinality(DOMAIN Vectors)
           v == vectors_per_page
           page == n \div v
           slot == n % v
<1>1. /\ Dim \in Nat \ {0} /\ PageScalars \in Nat /\ PageScalars >= Dim
      /\ count \in Nat /\ DOMAIN Vectors = 0 .. count - 1 /\ Vectors[n] \in [Dims -> Int]
      /\ n \in DOMAIN Vectors
  BY StoreAssumption, RankTiledAssumption
<1>2. v \in Nat \ {0} /\ v * Dim <= PageScalars
  <2>1. \A p, k \in Nat : k # 0 /\ p >= k => p \div k \in Nat \ {0} /\ (p \div k) * k <= p
    OBVIOUS
  <2> QED
    BY <1>1, <2>1 DEF vectors_per_page
<1>3. n \in Nat /\ n < count
  BY <1>1
<1> HIDE DEF count, v
<1>4. page \in Nat /\ slot \in 0 .. v - 1 /\ page * v + slot = n
  <2>1. n \div v \in Nat
    BY <1>2, <1>3
  <2>2. n % v \in 0 .. v - 1
    BY <1>2, <1>3
  <2>3. (n \div v) * v + (n % v) = n
    BY <1>2, <1>3
  <2> QED
    BY <2>1, <2>2, <2>3
<1> HIDE DEF page, slot
<1>5. page < (count + v - 1) \div v
  <2>1. \A p, k, m \in Nat : k # 0 /\ p * k < m => p < (m + k - 1) \div k
    <3> SUFFICES ASSUME NEW p \in Nat, NEW k \in Nat, NEW m \in Nat, k # 0, p * k < m
                 PROVE  p < (m + k - 1) \div k
      OBVIOUS
    <3> DEFINE s == m + k - 1
               d == s \div k
    <3>1. s \in Nat /\ s >= p * k + k
      OBVIOUS
    <3> HIDE DEF s
    <3>2. d \in Nat /\ s < d * k + k
      BY <3>1
    <3> HIDE DEF d
    <3>3. p * k < d * k
      BY <3>1, <3>2
    <3>4. ~(d <= p)
      <4>1. \A x, y \in Nat : x <= y => x * k <= y * k
        OBVIOUS
      <4> QED
        BY <3>2, <3>3, <4>1
    <3> QED
      BY <3>2, <3>4 DEF d, s
  <2>2. page * v <= n
    BY <1>2, <1>4
  <2>3. page * v < count
    BY <1>1, <1>2, <1>3, <1>4, <2>2
  <2> QED
    BY <1>1, <1>2, <1>4, <2>1, <2>3
<1>6. PageCount \in Int /\ page \in 0 .. PageCount - 1
  <2>1. PageCount = (count + v - 1) \div v
    BY DEF PageCount, count, v
  <2>2. (count + v - 1) \div v \in Int
    BY <1>1, <1>2
  <2> QED
    BY <1>4, <1>5, <2>1, <2>2
<1>7. Resolve(n).page = page /\ Resolve(n).slot = slot
  BY DEF Resolve, page, slot, v
<1>8. WrittenPages[page] = WrittenPage(page) /\ page \in DOMAIN WrittenPages
  BY <1>6 DEF WrittenPages
<1>9. ASSUME NEW d \in Dims PROVE WrittenPage(page)[slot * Dim + d] = Vectors[n][d]
  <2> DEFINE place == slot * Dim + d
  <2>1. d \in Nat /\ d < Dim
    BY <1>1 DEF Dims
  <2>2. place \in Nat /\ place < v * Dim
    <3>1. (slot + 1) * Dim <= v * Dim
      <4>1. \A x, y, z \in Nat : x <= y => x * z <= y * z
        OBVIOUS
      <4> QED
        BY <1>1, <1>2, <1>4, <4>1
    <3>2. (slot + 1) * Dim = slot * Dim + Dim
      BY <1>1, <1>4
    <3> QED
      BY <1>1, <1>2, <1>4, <2>1, <3>1, <3>2
  <2>3. place \in 0 .. PageScalars - 1
    BY <1>1, <1>2, <2>2
  <2>4. place \div Dim = slot /\ place % Dim = d
    <3>1. \A x, y, k \in Nat : k # 0 /\ y < k => (x * k + y) \div k = x /\ (x * k + y) % k = y
      <4> SUFFICES ASSUME NEW x \in Nat, NEW y \in Nat, NEW k \in Nat, k # 0, y < k
                   PROVE  (x * k + y) \div k = x /\ (x * k + y) % k = y
        OBVIOUS
      <4> DEFINE s == x * k + y
                 q == s \div k
      <4>1. s \in Nat
        OBVIOUS
      <4>2. q \in Nat /\ q * k <= s /\ s < q * k + k /\ s % k = s - q * k
        <5> HIDE DEF s
        <5> QED
          BY <4>1
      <4> HIDE DEF q
      <4>3. q * k <= x * k + y /\ x * k + y < q * k + k
        BY <4>2
      <4>4. ~(q < x) /\ ~(x < q)
        <5>1. \A i, j \in Nat : i < j => i * k + k <= j * k
          <6>1. \A i, j \in Nat : i < j => (i + 1) * k <= j * k
            OBVIOUS
          <6>2. \A i \in Nat : (i + 1) * k = i * k + k
            OBVIOUS
          <6> QED
            BY <6>1, <6>2
        <5>2. q < x => q * k + k <= x * k
          BY <4>2, <5>1
        <5>3. x < q => x * k + k <= q * k
          BY <4>2, <5>1
        <5>4. x * k \in Nat /\ q * k \in Nat
          BY <4>2
        <5> QED
          BY <4>3, <5>2, <5>3, <5>4
      <4>5. q = x
        BY <4>2, <4>4
      <4> QED
        BY <4>2, <4>5 DEF q
    <3>2. slot \in Nat /\ Dim \in Nat /\ Dim # 0
      BY <1>1, <1>2, <1>4
    <3> QED
      BY <2>1, <3>1, <3>2
  <2>5. page * v + place \div Dim = n /\ place \div Dim < v
    BY <1>2, <1>4, <2>4
  <2> HIDE DEF place
  <2>6. WrittenPage(page)[place] = Vectors[n][place % Dim]
    BY <1>1, <2>3, <2>5 DEF WrittenPage, v
  <2> QED
    BY <2>4, <2>6 DEF place
<1>10. Record(WrittenPages[page], slot) = [d \in Dims |-> Vectors[n][d]]
  BY <1>8, <1>9 DEF Record
<1>11. Vectors[n] = [d \in Dims |-> Vectors[n][d]]
  BY <1>1
<1> QED
  BY <1>7, <1>8, <1>10, <1>11

(* What the kernel computes for a node is its distance.                    *)
LEMMA KernelIsExact ==
  ASSUME WarpsAdd, NEW q \in Queries, NEW n \in Nodes
  PROVE  KernelDistance(QueryVectors[q], WrittenPages[Resolve(n).page], Resolve(n).slot)
           = Exact[q][n]
<1>1. Record(WrittenPages[Resolve(n).page], Resolve(n).slot) = Vectors[n]
  BY RecordIsVector
<1> QED
  BY <1>1 DEF KernelDistance, WarpsAdd
-----------------------------------------------------------------------------
Entry == [distance : 0 .. Infinity, node : NodeOrNone]

(* What a candidate would be scored with.                                  *)
Truth(q, r) == Scored(Exact[q], list[q][r].node)

(* The bound of a candidate holds for its own distance.                    *)
Bounded(q, candidate) ==
  candidate.node # NoNode =>
    /\ candidate.node \in Nodes /\ Approximate(q, candidate) \in Int
    /\ ~BoundExceeds(Approximate(q, candidate), ErrorBounds[candidate.node],
                     Exact[q][candidate.node])

Filtering == Params.filter /\ Params.mode \in {"tiled", "page"}

(* In a run that filters the candidates carry the distances by residual    *)
(* codes that the error bounds are for.                                    *)
LEMMA RefinedAreBounded ==
  ASSUME SortsKeepEntries, batch \in Batches, run \in DOMAIN batch.runs, Filtering,
         Params.refine, "residual" \in batch.loaded, NEW q \in Queries, NEW r \in 1 .. Params.top_n
  PROVE  Bounded(q, RefinedList(q, [i \in DOMAIN ToRefine(q) |->
                                      Pq2Distance(batch, q, ToRefine(q)[i])])[r])
<1> DEFINE found == batch.found[q]
           size == RefineTopL(Params)
           distances == [i \in DOMAIN ToRefine(q) |-> Pq2Distance(batch, q, ToRefine(q)[i])]
           entries == [i \in 1 .. size |->
                         IF i \in DOMAIN distances
                         THEN [distance |-> distances[i], node |-> ToRefine(q)[i].node]
                         ELSE Unfilled]
<1>1. /\ Capacity \in Nat \ {0} /\ Params.top_n \in 1 .. Capacity /\ Params.refine_top_l \in Nat
      /\ Params.refine_top_l = 0 \/ Params.refine_top_l >= Params.top_n
  BY RankTiledAssumption, RerankBatchAssumption DEF Params
<1>2. found \in Seq(Nodes) /\ Len(found) \in Nat /\ Len(found) <= Capacity
  BY RerankBatchAssumption
<1>3. size \in Nat \ {0} /\ size <= Capacity /\ Params.top_n <= size
  BY <1>1 DEF RefineTopL, LesserOf
<1> HIDE DEF found, size
<1>4. /\ DOMAIN ToRefine(q) = 1 .. LesserOf(Len(found), size)
      /\ \A i \in 1 .. LesserOf(Len(found), size) : ToRefine(q)[i] = BaseEntry(q, found[i])
  <2> DEFINE whole == TopologyList(batch, q)
             length == LesserOf(Len(found), size)
             S == {whole[i] : i \in 1 .. Capacity}
  <2>1. length \in Nat /\ length <= Capacity /\ length <= Len(found)
    BY <1>1, <1>2, <1>3 DEF LesserOf
  <2>2. /\ whole \in [1 .. Capacity -> S] /\ whole \in Seq(S) /\ Len(whole) = Capacity
        /\ \A i \in 1 .. length : whole[i] = BaseEntry(q, found[i])
    <3>1. whole = [i \in 1 .. Capacity |-> IF i <= Len(batch.found[q])
                                           THEN BaseEntry(q, batch.found[q][i]) ELSE Unfilled]
      BY DEF TopologyList
    <3>2. whole \in [1 .. Capacity -> S]
      BY <3>1
    <3>3. whole \in Seq(S) /\ Len(whole) = Capacity
      <4> HIDE DEF whole, S
      <4> QED
        BY <1>1, <3>2
    <3>4. \A i \in 1 .. length : i \in 1 .. Capacity /\ i <= Len(found)
      <4> HIDE DEF length
      <4> QED
        BY <1>1, <1>2, <2>1
    <3>5. \A i \in 1 .. length : whole[i] = BaseEntry(q, found[i])
      <4> HIDE DEF length
      <4> QED
        BY <3>1, <3>4 DEF found
    <3> QED
      BY <3>2, <3>3, <3>5
  <2>3. ToRefine(q) = SubSeq(whole, 1, length)
    <3>1. ToRefine(q) = SubSeq(whole, 1, LesserOf(length, Len(whole)))
      BY DEF ToRefine, Prefix, found, size
    <3>2. LesserOf(length, Len(whole)) = length
      <4> HIDE DEF length, whole
      <4> QED
        BY <2>1, <2>2 DEF LesserOf
    <3> QED
      BY <3>1, <3>2
  <2>4. ToRefine(q) = [i \in 1 .. length |-> whole[i]]
    <3> HIDE DEF whole, length, S
    <3> QED
      BY <1>1, <2>1, <2>2, <2>3
  <2> HIDE DEF whole
  <2> QED
    BY <2>2, <2>4
<1>5. \A i \in DOMAIN distances : /\ found[i] \in Nodes /\ ToRefine(q)[i].node = found[i]
                                  /\ distances[i] = ResidualDistance(Base, Residual, QueryVectors[q],
                                                                     BaseEntry(q, found[i]))
  <2> SUFFICES ASSUME NEW i \in 1 .. LesserOf(Len(found), size)
               PROVE  /\ found[i] \in Nodes /\ ToRefine(q)[i].node = found[i]
                      /\ distances[i] = ResidualDistance(Base, Residual, QueryVectors[q],
                                                         BaseEntry(q, found[i]))
    BY <1>4
  <2>1. i \in 1 .. Len(found)
    BY <1>2, <1>3 DEF LesserOf
  <2>2. found[i] \in Nodes
    BY <1>2, <2>1
  <2>3. ToRefine(q)[i] = BaseEntry(q, found[i])
    BY <1>4
  <2> QED
    BY <1>4, <2>2, <2>3 DEF Pq2Distance, BaseEntry
<1>6. \A i \in 1 .. size : Bounded(q, entries[i])
  <2> SUFFICES ASSUME NEW i \in 1 .. size PROVE Bounded(q, entries[i])
    OBVIOUS
  <2>1. CASE i \notin DOMAIN distances
    BY <2>1 DEF Bounded, Unfilled
  <2>2. CASE i \in DOMAIN distances
    <3>1. /\ found[i] \in Nodes
          /\ entries[i] = [distance |-> ResidualDistance(Base, Residual, QueryVectors[q],
                                                         BaseEntry(q, found[i])),
                           node |-> found[i]]
      BY <1>5, <2>2
    <3>2. Approximate(q, entries[i]) =
            ResidualDistance(Base, Residual, QueryVectors[q], BaseEntry(q, found[i]))
              - SquaredNorm(QueryVectors[q])
      BY <3>1 DEF Approximate
    <3> HIDE DEF entries
    <3> QED
      BY <3>1, <3>2, BoundAssumption DEF Bounded
  <2> QED
    BY <2>1, <2>2
<1>7. RefinedList(q, distances) = BitonicSorted(entries, size)
  BY DEF RefinedList, size
<1>8. BitonicSorted(entries, size) \in [1 .. size -> {entries[i] : i \in 1 .. size} \cup {Unfilled}]
  <2>1. entries = [i \in 1 .. size |-> entries[i]]
    OBVIOUS
  <2> HIDE DEF entries
  <2> QED
    BY <1>3, <2>1 DEF SortsKeepEntries
<1>9. r \in 1 .. size
  BY <1>1, <1>3
<1>10. Bounded(q, Unfilled)
  BY DEF Bounded, Unfilled
<1> HIDE DEF entries, distances
<1>11. Bounded(q, RefinedList(q, distances)[r])
  BY <1>6, <1>7, <1>8, <1>9, <1>10
<1> QED
  BY <1>11 DEF distances

(* A candidate that the filter leaves out is farther than the threshold.   *)
LEMMA LeftOutIsFarther ==
  ASSUME NEW q \in Queries, NEW r, threshold[q] \in 0 .. Infinity,
         Bounded(q, list[q][r]), ~Kept(q, list[q][r]), list[q][r].node # NoNode
  PROVE  Truth(q, r).distance > threshold[q]
<1> DEFINE n == list[q][r].node
           approx == Approximate(q, list[q][r])
<1>1. /\ n \in Nodes /\ approx \in Int /\ ErrorBounds[n] \in Nat /\ Exact[q][n] \in Nat
      /\ ~BoundExceeds(approx, ErrorBounds[n], Exact[q][n])
  BY RankTiledAssumption, OrderAssumption DEF Bounded
<1>2. BoundExceeds(approx, ErrorBounds[n], threshold[q])
  BY DEF Kept
<1>3. threshold[q] \in Nat
  BY OrderAssumption
<1>4. Exact[q][n] > threshold[q]
  <2> HIDE DEF n, approx
  <2> QED
    BY <1>1, <1>2, <1>3, BoundPrunes
<1> QED
  BY <1>4 DEF Truth, Scored

(* A candidate is scored with a distance below infinity, a hole is not.    *)
LEMMA TruthIsEntry ==
  ASSUME NEW q \in Queries, NEW r, Bounded(q, list[q][r])
  PROVE  Truth(q, r) \in Entry
<1>1. Infinity \in Nat /\ \A n \in Nodes : Exact[q][n] \in 0 .. Infinity
  BY RankTiledAssumption, OrderAssumption
<1> QED
  BY <1>1 DEF Bounded, Truth, Scored, Entry, Unfilled, NodeOrNone
-----------------------------------------------------------------------------
Here == LesserOf(topN, rankBegin)

Places == {Slot(q, r) : q \in Queries, r \in Ranks}

(* The result arrays up to the tile: a rank has what its candidate scores, *)
(* or it is clear and the candidate is farther than the threshold.         *)
Pruned(q) ==
  /\ IsKth(final[q], Here, threshold[q])
  /\ \A r \in Ranks :
       IF r > rankBegin THEN final[q][r] = Unfilled
       ELSE \/ final[q][r] = Truth(q, r)
            \/ final[q][r] = Unfilled /\ Truth(q, r).distance > threshold[q]

(* A rank of the tile has not been seen yet, is in the tile, or need not   *)
(* be: it is a hole or farther than the threshold.                         *)
LeftOut(q, r) == list[q][r].node = NoNode \/ Truth(q, r).distance > threshold[q]

TileTaken ==
  /\ tile \in Seq(Places) /\ pending \subseteq Queries \X TileRanks
  /\ \A i \in DOMAIN tile : \E q \in Queries, r \in TileRanks :
       tile[i] = Slot(q, r) /\ list[q][r].node # NoNode
  /\ \A q \in Queries, r \in TileRanks :
       <<q, r>> \in pending \/ (\E i \in DOMAIN tile : tile[i] = Slot(q, r)) \/ LeftOut(q, r)
  /\ pc = "score" => pending = {}

TileInvariant ==
  /\ topN \in Nat /\ rankTile \in Nat /\ rankBegin \in Nat
  /\ final \in [Queries -> [Ranks -> Entry]] /\ threshold \in [Queries -> 0 .. Infinity]
  /\ \A q \in Queries, r \in Ranks : Bounded(q, list[q][r])
  /\ \A q \in Queries : Pruned(q)
  /\ pc \in {"prepare", "score"} => TileTaken

(* The number of ranks in a tile is a number.                              *)
LEMMA TileSize ==
  ASSUME TileInvariant PROVE EffectiveTile \in Nat
BY DEF TileInvariant, EffectiveTile, LesserOf

(* The facts of sizes that the steps need, for one rank.                   *)
LEMMA RankPlaces ==
  ASSUME TileInvariant, NEW r \in Ranks
  PROVE  /\ rankBegin \in Nat /\ rankBegin + EffectiveTile \in Nat
         /\ rankBegin + EffectiveTile >= rankBegin /\ r \in Nat
         /\ r <= Here <=> r <= rankBegin
         /\ r \in TileRanks <=> (r > rankBegin /\ ~(r > rankBegin + EffectiveTile))
<1>1. rankBegin \in Nat /\ EffectiveTile \in Nat /\ topN \in Nat
  BY TileSize DEF TileInvariant
<1>2. r \in Nat /\ r <= topN
  BY <1>1 DEF Ranks
<1>3. r \in TileRanks <=> (r > rankBegin /\ r <= rankBegin + EffectiveTile)
  BY DEF TileRanks
<1> QED
  BY <1>1, <1>2, <1>3 DEF Here, LesserOf

(* The ranks before the tile are among those up to its end.                *)
LEMMA PrefixPlaces ==
  ASSUME TileInvariant
  PROVE  /\ Here \in Nat /\ ThresholdPrefix \in Nat /\ Here <= ThresholdPrefix
         /\ \A i \in 1 .. ThresholdPrefix : i \in Ranks /\ (i > Here => i > rankBegin)
         /\ \A i \in 1 .. Here : i \in Ranks /\ i <= rankBegin /\ ~(i > rankBegin)
<1>1. /\ rankBegin \in Nat /\ EffectiveTile \in Nat /\ topN \in Nat
  BY TileSize DEF TileInvariant
<1> QED
  BY <1>1 DEF Here, ThresholdPrefix, LesserOf, Ranks

(* At the beginning of a tile every rank of it is pending.                 *)
LEMMA BeginKeeps ==
  ASSUME TileInvariant, BeginTile, boundFilter PROVE TileInvariant'
<1>1. /\ UNCHANGED <<topN, rankTile, rankBegin, list, final, threshold>>
      /\ pending' = Queries \X TileRanks /\ tile' = <<>> /\ pc' = "prepare"
  BY DEF BeginTile, request
<1>2. /\ UNCHANGED <<Ranks, TileRanks, Here>>
      /\ \A q \in Queries : Pruned(q) => Pruned(q)'
  BY <1>1 DEF Ranks, TileRanks, Here, EffectiveTile, Pruned, Truth
<1>3. TileTaken'
  BY <1>1, <1>2 DEF TileTaken
<1> QED
  BY <1>1, <1>2, <1>3 DEF TileInvariant, Bounded, Approximate

(* A thread puts its candidate in the tile, or it is a hole or farther.    *)
LEMMA PrepareKeeps ==
  ASSUME TileInvariant, NEW q \in Queries, NEW r \in Ranks, PrepareCandidate(q, r)
  PROVE  TileInvariant'
<1>1. /\ UNCHANGED <<topN, rankTile, rankBegin, list, final, threshold>>
      /\ pc = "prepare" /\ pending' = pending \ {<<q, r>>} /\ <<q, r>> \in pending
      /\ tile' = IF HasNode(list[q][r]) /\ Kept(q, list[q][r])
                 THEN Append(tile, Slot(q, r)) ELSE tile
      /\ pc' = IF pending' = {} THEN "score" ELSE "prepare"
  BY DEF PrepareCandidate, request
<1>2. /\ UNCHANGED <<Ranks, TileRanks, Here, Places>>
      /\ \A p \in Queries : Pruned(p) => Pruned(p)'
      /\ \A p, s : (Slot(p, s)' = Slot(p, s)) /\ (LeftOut(p, s)' <=> LeftOut(p, s))
  BY <1>1 DEF Ranks, TileRanks, Here, EffectiveTile, Pruned, Truth, Places, Slot, LeftOut
<1>3. TileTaken /\ threshold[q] \in 0 .. Infinity /\ Bounded(q, list[q][r])
  BY <1>1 DEF TileInvariant
<1>4. tile' \in Seq(Places) /\ \A i \in DOMAIN tile : i \in DOMAIN tile' /\ tile'[i] = tile[i]
  <2>1. Slot(q, r) \in Places /\ tile \in Seq(Places)
    BY <1>3 DEF Places, TileTaken
  <2> HIDE DEF Places
  <2> QED
    BY <1>1, <2>1
<1>5. ASSUME NEW i \in DOMAIN tile'
      PROVE  \E p \in Queries, s \in TileRanks : tile'[i] = Slot(p, s) /\ list[p][s].node # NoNode
  <2>1. CASE i \in DOMAIN tile
    BY <1>3, <1>4, <2>1 DEF TileTaken
  <2>2. CASE i \notin DOMAIN tile
    <3>1. tile \in Seq(Places)
      BY <1>3 DEF TileTaken
    <3>2. HasNode(list[q][r]) /\ tile' = Append(tile, Slot(q, r))
      BY <1>1, <2>2
    <3>3. tile'[i] = Slot(q, r)
      <4> HIDE DEF Places
      <4> QED
        BY <1>5, <2>2, <3>1, <3>2
    <3>4. r \in TileRanks
      BY <1>1, <1>3 DEF TileTaken
    <3> QED
      BY <3>2, <3>3, <3>4 DEF HasNode
  <2> QED
    BY <2>1, <2>2
<1>6. ASSUME NEW p \in Queries, NEW s \in TileRanks
      PROVE  \/ <<p, s>> \in pending' \/ (\E i \in DOMAIN tile' : tile'[i] = Slot(p, s))
             \/ LeftOut(p, s)
  <2>1. CASE p = q /\ s = r
    <3>1. CASE list[q][r].node = NoNode
      BY <2>1, <3>1 DEF LeftOut
    <3>2. CASE list[q][r].node # NoNode /\ ~Kept(q, list[q][r])
      BY <1>3, <2>1, <3>2, LeftOutIsFarther DEF LeftOut
    <3>3. CASE list[q][r].node # NoNode /\ Kept(q, list[q][r])
      <4>1. tile' = Append(tile, Slot(q, r)) /\ tile \in Seq(Places)
        BY <1>1, <1>3, <3>3 DEF HasNode, TileTaken
      <4>2. Len(tile) + 1 \in DOMAIN tile' /\ tile'[Len(tile) + 1] = Slot(q, r)
        <5> HIDE DEF Places
        <5> QED
          BY <4>1
      <4> QED
        BY <2>1, <4>2
    <3> QED
      BY <3>1, <3>2, <3>3
  <2>2. CASE <<p, s>> # <<q, r>>
    <3>1. <<p, s>> \in pending \/ (\E i \in DOMAIN tile : tile[i] = Slot(p, s)) \/ LeftOut(p, s)
      BY <1>3 DEF TileTaken
    <3> QED
      BY <1>1, <1>4, <2>2, <3>1
  <2> QED
    BY <2>1, <2>2
<1>7. (pc' = "score" => pending' = {}) /\ pending' \subseteq Queries \X TileRanks
  BY <1>1, <1>3 DEF TileTaken
<1>8. TileTaken'
  BY <1>1, <1>2, <1>4, <1>5, <1>6, <1>7 DEF TileTaken
<1> QED
  BY <1>1, <1>2, <1>8 DEF TileInvariant, Bounded, Approximate

(* All places of a tile are of candidates.                                 *)
LEMMA AllValid ==
  ASSUME TileInvariant, pc = "score"
  PROVE  /\ tile \in Seq(Places) /\ Len(tile) \in Nat /\ ValidPlaces = Len(tile)
         /\ \A i \in DOMAIN tile : i <= ValidPlaces
<1>1. TileTaken
  BY DEF TileInvariant
<1>2. tile \in Seq(Places) /\ Len(tile) \in Nat /\ DOMAIN tile = 1 .. Len(tile)
  <2>1. tile \in Seq(Places)
    BY <1>1 DEF TileTaken
  <2> HIDE DEF Places
  <2> QED
    BY <2>1
<1>3. \A i \in DOMAIN tile : tile[i].node # NoNode
  BY <1>1 DEF TileTaken, Slot
<1>4. {i \in DOMAIN tile : tile[i].node # NoNode} = 1 .. Len(tile)
  BY <1>2, <1>3
<1>5. Cardinality(1 .. Len(tile)) = Len(tile)
  BY <1>2, FS_Interval
<1>6. ValidPlaces = Len(tile)
  BY <1>4, <1>5 DEF ValidPlaces
<1> QED
  BY <1>2, <1>6

(* A tile that all candidates are left out of moves no threshold.          *)
LEMMA SkipKeeps ==
  ASSUME TileInvariant, SkipTile, boundFilter PROVE TileInvariant'
<1>1. /\ UNCHANGED <<topN, rankTile, list, final, threshold>>
      /\ pc = "score" /\ pc' = "next tile" /\ ValidPlaces = 0
      /\ rankBegin' = rankBegin + EffectiveTile
  BY DEF SkipTile, request
<1>2. UNCHANGED <<Ranks>> /\ \A q, r : Truth(q, r)' = Truth(q, r)
  BY <1>1 DEF Ranks, Truth
<1>3. Here' = ThresholdPrefix
  BY <1>1 DEF Here, ThresholdPrefix
<1>4. TileTaken
  BY <1>1 DEF TileInvariant
<1>5. tile = <<>> /\ DOMAIN tile = {}
  <2>1. tile \in Seq(Places) /\ Len(tile) = 0
    BY <1>1, AllValid
  <2> HIDE DEF Places
  <2> QED
    BY <2>1
<1>6. \A q \in Queries, r \in TileRanks : LeftOut(q, r)
  BY <1>1, <1>4, <1>5 DEF TileTaken
<1>7. ASSUME NEW q \in Queries PROVE Pruned(q)'
  <2>1. /\ Pruned(q) /\ final[q] \in [Ranks -> Entry]
        /\ \A r \in Ranks : Bounded(q, list[q][r])
    BY DEF TileInvariant
  <2>2. IsKth(final[q], ThresholdPrefix, threshold[q])
    <3>1. IsKth(final[q], Here, threshold[q])
      BY <2>1 DEF Pruned
    <3>2. Distances(final[q], Here)
      BY <2>1, PrefixPlaces DEF Distances, Entry
    <3>3. \A i \in 1 .. ThresholdPrefix : i > Here => final[q][i].distance = Infinity
      <4> SUFFICES ASSUME NEW i \in 1 .. ThresholdPrefix, i > Here
                   PROVE  final[q][i].distance = Infinity
        OBVIOUS
      <4>1. i \in Ranks /\ i > rankBegin
        BY PrefixPlaces
      <4> QED
        BY <2>1, <4>1 DEF Pruned, Unfilled
    <3> QED
      BY <3>1, <3>2, <3>3, PrefixPlaces, ClearKth
  <2>3. IsKth(final[q], Here, threshold[q])'
    BY <1>1, <1>3, <2>2 DEF IsKth, Within
  <2>4. ASSUME NEW r \in Ranks
        PROVE  IF r > rankBegin' THEN final[q][r] = Unfilled
               ELSE \/ final[q][r] = Truth(q, r)
                    \/ final[q][r] = Unfilled /\ Truth(q, r).distance > threshold[q]
    <3>1. /\ rankBegin \in Nat /\ rankBegin' \in Nat /\ rankBegin' >= rankBegin /\ r \in Nat
          /\ r \in TileRanks <=> (r > rankBegin /\ ~(r > rankBegin'))
      BY <1>1, RankPlaces
    <3>2. CASE r > rankBegin'
      BY <2>1, <3>1, <3>2 DEF Pruned
    <3>3. CASE ~(r > rankBegin)
      BY <2>1, <3>1, <3>3 DEF Pruned
    <3>4. CASE r > rankBegin /\ ~(r > rankBegin')
      <4>1. final[q][r] = Unfilled
        BY <2>1, <3>4 DEF Pruned
      <4>2. LeftOut(q, r)
        BY <1>6, <3>1, <3>4
      <4>3. list[q][r].node = NoNode => Truth(q, r) = Unfilled
        BY DEF Truth, Scored
      <4> QED
        BY <3>4, <4>1, <4>2, <4>3 DEF LeftOut
    <3> QED
      BY <3>2, <3>3, <3>4
  <2> QED
    BY <1>1, <1>2, <2>3, <2>4 DEF Pruned
<1>8. rankBegin' \in Nat
  <2>1. rankBegin \in Nat /\ EffectiveTile \in Nat
    BY TileSize DEF TileInvariant
  <2>2. rankBegin + EffectiveTile \in Nat
    BY <2>1
  <2> QED
    BY <1>1, <2>2, Zenon
<1>9. \A q \in Queries, r \in Ranks' : Bounded(q, list[q][r])'
  BY <1>1, <1>2 DEF TileInvariant, Bounded, Approximate
<1> QED
  BY <1>1, <1>2, <1>7, <1>8, <1>9 DEF TileInvariant

(* The entry that a place of the tile is scattered to.                     *)
LEMMA TileScores ==
  ASSUME WarpsAdd, TileInvariant, pc = "score", NEW q \in Queries, NEW r \in Ranks, NEW garbage
  PROVE  Scattered(garbage)[q][r] =
           IF \E i \in DOMAIN tile : tile[i] = Slot(q, r) THEN Truth(q, r) ELSE final[q][r]
<1>1. /\ \A i \in DOMAIN tile : i <= ValidPlaces
      /\ \A i \in DOMAIN tile : \E p \in Queries, s \in TileRanks :
           tile[i] = Slot(p, s) /\ list[p][s].node # NoNode
  BY AllValid DEF TileInvariant, TileTaken
<1>2. \A i \in DOMAIN tile : i \in PlaceFor(q, r) <=> tile[i] = Slot(q, r)
  BY <1>1 DEF PlaceFor, Slot
<1>3. CASE \E i \in DOMAIN tile : tile[i] = Slot(q, r)
  <2>1. PICK i \in PlaceFor(q, r) : i = CHOOSE j \in PlaceFor(q, r) : TRUE
    BY <1>2, <1>3
  <2>2. i \in DOMAIN tile /\ tile[i] = Slot(q, r)
    BY <1>2 DEF PlaceFor
  <2>3. list[q][r].node # NoNode
    BY <1>1, <2>2 DEF Slot
  <2>4. list[q][r].node \in Nodes
    BY <2>3 DEF TileInvariant, Bounded
  <2>5. DistanceOf(tile[i]) = Exact[q][list[q][r].node]
    BY <2>2, <2>3, <2>4, KernelIsExact DEF DistanceOf, Slot
  <2>6. Distance(i, garbage) = Exact[q][list[q][r].node]
    BY <1>1, <2>2, <2>5 DEF Distance
  <2>7. PlaceFor(q, r) # {}
    BY <2>1
  <2>8. Scattered(garbage)[q][r] = [distance |-> Distance(i, garbage), node |-> tile[i].node]
    BY <2>1, <2>7 DEF Scattered
  <2>9. tile[i].node = list[q][r].node
    BY <2>2 DEF Slot
  <2> QED
    BY <1>3, <2>3, <2>6, <2>8, <2>9 DEF Truth, Scored
<1>4. CASE ~\E i \in DOMAIN tile : tile[i] = Slot(q, r)
  <2>1. PlaceFor(q, r) = {}
    BY <1>2, <1>4 DEF PlaceFor
  <2> QED
    BY <1>4, <2>1 DEF Scattered
<1> QED
  BY <1>3, <1>4

(* The places of a tile are those of its ranks.                            *)
LEMMA InTileRanks ==
  ASSUME TileInvariant, pc = "score", NEW q \in Queries, NEW r \in Ranks,
         NEW i \in DOMAIN tile, tile[i] = Slot(q, r)
  PROVE  r \in TileRanks
<1>1. PICK p \in Queries, s \in TileRanks : tile[i] = Slot(p, s)
  BY DEF TileInvariant, TileTaken
<1> QED
  BY <1>1 DEF Slot

(* The threshold is computed from what was read, and only falls.           *)
LEMMA ScoreKeeps ==
  ASSUME WarpsAdd, TileInvariant, ScoreTile, boundFilter PROVE TileInvariant'
<1>1. /\ UNCHANGED <<topN, rankTile, list>>
      /\ pc = "score" /\ pc' = "next tile" /\ rankBegin' = rankBegin + EffectiveTile
      /\ threshold' = [q \in Queries |-> KthDistance(SubSeq(final'[q], 1, ThresholdPrefix))]
  BY DEF ScoreTile, request
<1>2. PICK garbage \in Uninitialised : final' = Scattered(garbage)
  BY DEF ScoreTile
<1>3. UNCHANGED <<Ranks>> /\ \A q, r : Truth(q, r)' = Truth(q, r)
  BY <1>1 DEF Ranks, Truth
<1>4. Here' = ThresholdPrefix
  BY <1>1 DEF Here, ThresholdPrefix
<1>5. TileTaken /\ pending = {}
  BY <1>1 DEF TileInvariant, TileTaken
<1>6. \A q \in Queries, r \in Ranks :
        final'[q][r] = IF \E i \in DOMAIN tile : tile[i] = Slot(q, r)
                       THEN Truth(q, r) ELSE final[q][r]
  BY <1>1, <1>2, TileScores
<1>7. final' \in [Queries -> [Ranks -> Entry]]
  <2>1. \A q \in Queries, r \in Ranks : final'[q][r] \in Entry
    BY <1>6, TruthIsEntry DEF TileInvariant
  <2>2. final' = [q \in Queries |-> [r \in Ranks |-> final'[q][r]]]
    BY <1>2 DEF Scattered
  <2> QED
    BY <2>1, <2>2
<1>8. ASSUME NEW q \in Queries
      PROVE  threshold'[q] \in 0 .. Infinity /\ IsKth(final'[q], ThresholdPrefix, threshold'[q])
  <2> DEFINE entries == SubSeq(final'[q], 1, ThresholdPrefix)
  <2>1. entries = [i \in 1 .. ThresholdPrefix |-> final'[q][i]]
    <3>1. final'[q] \in [1 .. topN -> Entry]
      BY <1>7 DEF Ranks
    <3>2. ThresholdPrefix \in Nat /\ ThresholdPrefix <= topN /\ topN \in Nat
      <4>1. rankBegin \in Nat /\ EffectiveTile \in Nat /\ topN \in Nat
        BY TileSize DEF TileInvariant
      <4> QED
        BY <4>1 DEF ThresholdPrefix, LesserOf
    <3>3. \A f \in [1 .. topN -> Entry] : f \in Seq(Entry) /\ Len(f) = topN
      BY <3>2
    <3> HIDE DEF Entry
    <3>4. final'[q] \in Seq(Entry) /\ Len(final'[q]) = topN
      BY <3>1, <3>3
    <3> QED
      BY <3>2, <3>4
  <2>2. ThresholdPrefix \in Nat /\ \A i \in 1 .. ThresholdPrefix : i \in Ranks
    BY PrefixPlaces
  <2>3. DOMAIN entries = 1 .. ThresholdPrefix /\ Distances(entries, ThresholdPrefix)
    BY <1>7, <2>1, <2>2 DEF Distances, Entry
  <2>4. threshold'[q] = KthDistance(entries)
    BY <1>1
  <2> HIDE DEF entries
  <2>5. IsKth(entries, ThresholdPrefix, threshold'[q])
    BY <2>2, <2>3, <2>4, KthDistanceIsKth
  <2>6. Distances(final'[q], ThresholdPrefix)
    BY <1>7, <2>2 DEF Distances, Entry
  <2>7. \A i \in 1 .. ThresholdPrefix : entries[i] = final'[q][i]
    BY <2>1
  <2>8. IsKth(final'[q], ThresholdPrefix, threshold'[q])
    BY <2>2, <2>5, <2>6, <2>7, PrunedKth
  <2> QED
    BY <2>8 DEF IsKth
<1>9. ASSUME NEW q \in Queries PROVE threshold'[q] <= threshold[q]
  <2>1. IsKth(final[q], Here, threshold[q])
    BY DEF TileInvariant, Pruned
  <2>2. \A i \in 1 .. Here : final[q][i] = final'[q][i]
    <3> SUFFICES ASSUME NEW i \in 1 .. Here PROVE final[q][i] = final'[q][i]
      OBVIOUS
    <3>1. i \in Ranks /\ i <= rankBegin
      BY PrefixPlaces
    <3>2. i \notin TileRanks
      BY <3>1, RankPlaces
    <3> QED
      BY <1>1, <1>6, <3>1, <3>2, InTileRanks
  <2> QED
    BY <1>8, <2>1, <2>2, PrefixPlaces, KthNearer
<1>10. ASSUME NEW q \in Queries PROVE Pruned(q)'
  <2>1. Pruned(q)
    BY DEF TileInvariant
  <2>2. threshold'[q] \in Nat /\ threshold[q] \in Nat /\ threshold'[q] <= threshold[q]
    BY <1>8, <1>9, OrderAssumption DEF TileInvariant
  <2>3. ASSUME NEW r \in Ranks
        PROVE  IF r > rankBegin' THEN final'[q][r] = Unfilled
               ELSE \/ final'[q][r] = Truth(q, r)
                    \/ final'[q][r] = Unfilled /\ Truth(q, r).distance > threshold'[q]
    <3>1. /\ rankBegin \in Nat /\ rankBegin' \in Nat /\ rankBegin' >= rankBegin /\ r \in Nat
          /\ r \in TileRanks <=> (r > rankBegin /\ ~(r > rankBegin'))
      BY <1>1, RankPlaces
    <3>2. Truth(q, r).distance \in Nat
      <4>1. Truth(q, r) \in Entry
        BY TruthIsEntry DEF TileInvariant
      <4> QED
        BY <4>1, OrderAssumption DEF Entry
    <3>3. Truth(q, r).distance > threshold[q] => Truth(q, r).distance > threshold'[q]
      BY <2>2, <3>2
    <3>4. CASE r \notin TileRanks
      <4>1. final'[q][r] = final[q][r]
        BY <1>1, <1>6, <3>4, InTileRanks
      <4>2. r > rankBegin' <=> r > rankBegin
        BY <3>1, <3>4
      <4> QED
        BY <2>1, <3>3, <4>1, <4>2 DEF Pruned
    <3>5. CASE r \in TileRanks /\ (\E i \in DOMAIN tile : tile[i] = Slot(q, r))
      BY <1>6, <3>1, <3>5
    <3>6. CASE r \in TileRanks /\ ~(\E i \in DOMAIN tile : tile[i] = Slot(q, r))
      <4>1. final'[q][r] = final[q][r] /\ final[q][r] = Unfilled
        BY <1>6, <2>1, <3>1, <3>6 DEF Pruned
      <4>2. LeftOut(q, r)
        BY <1>5, <3>6 DEF TileTaken
      <4>3. list[q][r].node = NoNode => Truth(q, r) = Unfilled
        BY DEF Truth, Scored
      <4> QED
        BY <3>1, <3>3, <3>6, <4>1, <4>2, <4>3 DEF LeftOut
    <3> QED
      BY <3>4, <3>5, <3>6
  <2>4. IsKth(final[q], Here, threshold[q])'
    BY <1>4, <1>8 DEF IsKth, Within
  <2> QED
    BY <1>3, <2>3, <2>4 DEF Pruned
<1>11. rankBegin' \in Nat
  <2>1. rankBegin \in Nat /\ EffectiveTile \in Nat
    BY TileSize DEF TileInvariant
  <2>2. rankBegin + EffectiveTile \in Nat
    BY <2>1
  <2> QED
    BY <1>1, <2>2, Zenon
<1>12. \A q \in Queries, r \in Ranks' : Bounded(q, list[q][r])'
  BY <1>1, <1>3 DEF TileInvariant, Bounded, Approximate
<1>13. threshold' \in [Queries -> 0 .. Infinity]
  BY <1>1, <1>8
<1> QED
  BY <1>1, <1>3, <1>7, <1>10, <1>11, <1>12, <1>13 DEF TileInvariant
-----------------------------------------------------------------------------
(* A run that filters is one that refines, with the residual codes that    *)
(* the bounds are for: the others were refused.                            *)
FiltersRefined == Filtering => Params.refine /\ "residual" \in batch.loaded

BatchInvariant ==
  /\ batch \in Batches /\ run \in DOMAIN batch.runs
  /\ pc \in {"refine", "rerank"} => FiltersRefined
  /\ (pc = "rerank" /\ Filtering) =>
       \A q \in Queries, r \in 1 .. Params.top_n : Bounded(q, list[q][r])
  /\ (pc \in {"next tile", "prepare", "score"} /\ boundFilter) => TileInvariant

(* A batch starts with its first run.                                      *)
LEMMA BatchStarts == BatchInit => BatchInvariant
<1> SUFFICES ASSUME BatchInit PROVE BatchInvariant
  OBVIOUS
<1>1. batch \in Batches /\ run = 1 /\ pc = "check"
  BY DEF BatchInit
<1>2. Len(batch.runs) \in 1 .. MaxRuns /\ DOMAIN batch.runs = 1 .. Len(batch.runs) /\ MaxRuns \in Nat
  BY <1>1, RerankBatchAssumption
<1>3. run \in DOMAIN batch.runs
  BY <1>1, <1>2
<1> QED
  BY <1>1, <1>3 DEF BatchInvariant

(* A run that passes the checks and filters goes to the refine step.       *)
LEMMA CheckKeeps ==
  ASSUME BatchInvariant, Check PROVE BatchInvariant'
<1>1. /\ UNCHANGED <<batch, run>>
      /\ pc' = IF Refused(batch, Params) THEN "thrown"
               ELSE IF Params.refine /\ Params.mode # "host" THEN "refine" ELSE "rerank"
  BY DEF Check, batchVars
<1>2. batch \in Batches /\ run \in DOMAIN batch.runs
  BY DEF BatchInvariant
<1>3. (Filtering' <=> Filtering) /\ (FiltersRefined' <=> FiltersRefined) /\ Params' = Params
  BY <1>1 DEF Filtering, FiltersRefined, Params
<1>4. (Filtering /\ ~Refused(batch, Params)) =>
        Params.refine /\ Params.mode # "host" /\ "bounds" \in batch.loaded
  BY DEF Filtering, Refused, FilterRefused
<1>5. "bounds" \in batch.loaded => "residual" \in batch.loaded
  BY <1>2, RerankBatchAssumption
<1>6. pc' \in {"refine", "rerank"} => FiltersRefined'
  BY <1>1, <1>3, <1>4, <1>5 DEF FiltersRefined
<1>7. ~(pc' = "rerank" /\ Filtering')
  BY <1>1, <1>3, <1>4
<1>8. pc' \notin {"next tile", "prepare", "score"}
  BY <1>1
<1> QED
  BY <1>1, <1>2, <1>6, <1>7, <1>8 DEF BatchInvariant

(* The refine step leaves distances that the bounds hold for.              *)
LEMMA RefineKeeps ==
  ASSUME SortsKeepEntries, BatchInvariant, RefinePq2 \/ RefineHybrid PROVE BatchInvariant'
<1>1. UNCHANGED <<batch, run>> /\ pc = "refine" /\ pc' = "rerank"
  BY DEF RefinePq2, RefineHybrid, Refined, batchVars
<1>2. batch \in Batches /\ run \in DOMAIN batch.runs /\ FiltersRefined
  BY <1>1 DEF BatchInvariant
<1>3. (Filtering' <=> Filtering) /\ (FiltersRefined' <=> FiltersRefined) /\ Params' = Params
  BY <1>1 DEF Filtering, FiltersRefined, Params
<1>4. ASSUME Filtering, NEW q \in Queries, NEW r \in 1 .. Params.top_n
      PROVE  Bounded(q, list[q][r])'
  <2>1. ~UsesHybrid(Params)
    BY <1>4 DEF Filtering, UsesHybrid
  <2>2. list'[q] = RefinedList(q, [i \in DOMAIN ToRefine(q) |-> Pq2Distance(batch, q, ToRefine(q)[i])])
    BY <2>1 DEF RefinePq2, RefineHybrid
  <2>3. Params.refine /\ "residual" \in batch.loaded
    BY <1>2, <1>4 DEF FiltersRefined
  <2>4. Bounded(q, list'[q][r])
    BY <1>2, <1>4, <2>2, <2>3, RefinedAreBounded
  <2> QED
    BY <2>4 DEF Bounded, Approximate
<1> QED
  BY <1>1, <1>2, <1>3, <1>4 DEF BatchInvariant

(* A filtering rerank starts with clear arrays and no threshold.           *)
LEMMA StartKeeps ==
  ASSUME BatchInvariant, StartTiles PROVE BatchInvariant'
<1>1. /\ UNCHANGED <<batch, run, list>> /\ pc = "rerank" /\ pc' = "next tile"
      /\ Params.mode \in {"tiled", "page"} /\ boundFilter' = Params.filter
      /\ topN' = Params.top_n /\ rankTile' = IF Params.mode = "page" THEN 1 ELSE Params.tile
      /\ rankBegin' = 0 /\ threshold' = [q \in Queries |-> Infinity]
  BY DEF StartTiles, batchVars
<1>2. PICK garbage \in Uninitialised : final' = FirstFinal(Params.filter, Params.top_n, garbage)
  BY DEF StartTiles
<1>3. batch \in Batches /\ run \in DOMAIN batch.runs
  BY DEF BatchInvariant
<1>4. Params.top_n \in 1 .. Capacity /\ Params.tile \in Nat /\ Capacity \in Nat
  BY <1>3, RerankBatchAssumption, RankTiledAssumption DEF Params
<1>5. ASSUME boundFilter' PROVE TileInvariant'
  <2>1. Filtering
    BY <1>1, <1>5 DEF Filtering
  <2>2. topN' \in Nat /\ rankTile' \in Nat /\ rankBegin' \in Nat /\ Here' = 0
    <3>1. Params.top_n \in Nat /\ Params.top_n > 0
      BY <1>4
    <3>2. topN' \in Nat /\ topN' > 0
      BY <1>1, <3>1, Zenon
    <3>3. rankTile' \in Nat /\ rankBegin' = 0
      BY <1>1, <1>4
    <3> QED
      BY <3>2, <3>3 DEF Here, LesserOf
  <2>3. Ranks' = 1 .. Params.top_n
    BY <1>1 DEF Ranks
  <2>4. \A q \in Queries, r \in Ranks' : Bounded(q, list[q][r])'
    BY <1>1, <2>1, <2>3 DEF BatchInvariant, Bounded, Approximate
  <2>5. final' = [q \in Queries |-> [r \in 1 .. Params.top_n |-> Unfilled]]
    BY <1>1, <1>2, <1>5 DEF FirstFinal
  <2>6. Infinity \in Nat /\ Unfilled \in Entry
    BY OrderAssumption DEF Unfilled, Entry, NodeOrNone
  <2>7. final' \in [Queries -> [Ranks' -> Entry]] /\ threshold' \in [Queries -> 0 .. Infinity]
    <3>1. final' \in [Queries -> [Ranks' -> Entry]]
      <4> HIDE DEF Entry
      <4> QED
        BY <2>3, <2>5, <2>6
    <3>2. threshold' \in [Queries -> 0 .. Infinity]
      <4>1. threshold' = [q \in Queries |-> Infinity]
        BY <1>1
      <4>2. Infinity \in 0 .. Infinity
        BY <2>6
      <4> QED
        BY <4>1, <4>2
    <3> QED
      BY <3>1, <3>2
  <2>8. ASSUME NEW q \in Queries PROVE Pruned(q)'
    <3>1. \A a : IsKth(a, 0, Infinity)
      BY <2>6 DEF IsKth
    <3>2. IsKth(final[q], Here, threshold[q])'
      BY <1>1, <2>2, <3>1 DEF IsKth, Within
    <3>3. \A r \in Ranks' : final'[q][r] = Unfilled /\ r > rankBegin'
      <4> SUFFICES ASSUME NEW r \in 1 .. Params.top_n
                   PROVE  final'[q][r] = Unfilled /\ r > rankBegin'
        BY <2>3
      <4>1. r \in Nat /\ r > 0
        BY <1>4
      <4>2. rankBegin' = 0
        BY <1>1
      <4> QED
        BY <2>5, <4>1, <4>2
    <3> QED
      BY <3>2, <3>3 DEF Pruned
  <2> QED
    BY <1>1, <2>2, <2>4, <2>7, <2>8 DEF TileInvariant
<1> QED
  BY <1>1, <1>3, <1>5 DEF BatchInvariant

(* The steps of a tile, of which some only run without the filter.         *)
LEMMA TileKeeps ==
  ASSUME WarpsAdd, BatchInvariant, TileStep, UNCHANGED batchVars PROVE BatchInvariant'
<1>1. UNCHANGED <<batch, run, boundFilter>>
  BY DEF TileStep, BeginTile, PrepareTile, PrepareCandidate, SkipTile, ScoreTile, Finalize,
         request, batchVars
<1>2. pc \in {"next tile", "prepare", "score"} /\ pc' \in {"next tile", "prepare", "score", "done"}
  BY DEF TileStep, BeginTile, PrepareTile, PrepareCandidate, SkipTile, ScoreTile, Finalize
<1>3. ASSUME boundFilter, pc' # "done" PROVE TileInvariant'
  <2>1. TileInvariant
    BY <1>2, <1>3 DEF BatchInvariant
  <2>2. CASE BeginTile
    BY <1>3, <2>1, <2>2, BeginKeeps
  <2>3. CASE PrepareTile
    BY <1>3, <2>3 DEF PrepareTile
  <2>4. ASSUME NEW q \in Queries, NEW r \in Ranks, PrepareCandidate(q, r)
        PROVE  TileInvariant'
    BY <2>1, <2>4, PrepareKeeps
  <2>5. CASE SkipTile
    BY <1>3, <2>1, <2>5, SkipKeeps
  <2>6. CASE ScoreTile
    BY <1>3, <2>1, <2>6, ScoreKeeps
  <2>7. CASE Finalize
    BY <1>3, <2>7 DEF Finalize
  <2> QED
    BY <2>2, <2>3, <2>4, <2>5, <2>6, <2>7 DEF TileStep
<1> QED
  BY <1>1, <1>2, <1>3 DEF BatchInvariant

(* The next run is one of the batch.                                       *)
LEMMA CollectKeeps ==
  ASSUME BatchInvariant, CollectResult PROVE BatchInvariant'
<1>1. /\ batch' = batch /\ batch \in Batches /\ run \in DOMAIN batch.runs
      /\ run' = (IF run = Len(batch.runs) THEN run ELSE run + 1)
      /\ pc' \in {"returned", "check"}
  BY DEF CollectResult, BatchInvariant
<1>2. Len(batch.runs) \in 1 .. MaxRuns /\ DOMAIN batch.runs = 1 .. Len(batch.runs) /\ MaxRuns \in Nat
  BY <1>1, RerankBatchAssumption
<1>3. run' \in DOMAIN batch.runs
  BY <1>1, <1>2
<1> QED
  BY <1>1, <1>3 DEF BatchInvariant

(* The reranks of a step leave the tiles alone.                            *)
LEMMA AnswerKeeps ==
  ASSUME BatchInvariant, RerankLinear \/ RerankOnHost \/ RerankPersistent PROVE BatchInvariant'
<1>1. pc' = "done" /\ UNCHANGED <<batch, run>>
  BY DEF RerankLinear, RerankOnHost, RerankPersistent, Answered, batchVars
<1> QED
  BY <1>1 DEF BatchInvariant

(* Nothing the invariant is about changes in a stuttering step.            *)
LEMMA StutterKeeps ==
  ASSUME BatchInvariant, UNCHANGED allVars PROVE BatchInvariant'
<1>1. UNCHANGED <<batch, run, pc, list, boundFilter, topN, rankTile, rankBegin, final, threshold,
                  tile, pending>>
  BY DEF allVars, vars, request, tiles, batchVars
<1>2. /\ Params' = Params /\ (Filtering' <=> Filtering) /\ (FiltersRefined' <=> FiltersRefined)
      /\ \A q, r : Bounded(q, list[q][r])' <=> Bounded(q, list[q][r])
  BY <1>1 DEF Params, Filtering, FiltersRefined, Bounded, Approximate
<1>3. /\ UNCHANGED <<Ranks, TileRanks, Here>> /\ (TileTaken' <=> TileTaken)
      /\ \A q : Pruned(q)' <=> Pruned(q)
  BY <1>1 DEF Ranks, TileRanks, Here, EffectiveTile, TileTaken, Places, Slot, LeftOut, Truth, Pruned
<1>4. TileInvariant' <=> TileInvariant
  BY <1>1, <1>2, <1>3 DEF TileInvariant
<1> QED
  BY <1>1, <1>2, <1>4 DEF BatchInvariant

(* Every step of a batch keeps the invariant.                              *)
LEMMA BatchKeeps ==
  ASSUME WarpsAdd, SortsKeepEntries, BatchInvariant, [BatchNext]_allVars PROVE BatchInvariant'
<1>1. CASE Check
  BY <1>1, CheckKeeps
<1>2. CASE RefinePq2 \/ RefineHybrid
  BY <1>2, RefineKeeps
<1>3. CASE StartTiles
  BY <1>3, StartKeeps
<1>4. CASE TileStep /\ UNCHANGED batchVars
  BY <1>4, TileKeeps
<1>5. CASE RerankLinear \/ RerankOnHost \/ RerankPersistent
  BY <1>5, AnswerKeeps
<1>6. CASE CollectResult
  BY <1>6, CollectKeeps
<1>7. CASE UNCHANGED allVars
  BY <1>7, StutterKeeps
<1> QED
  BY <1>1, <1>2, <1>3, <1>4, <1>5, <1>6, <1>7 DEF BatchNext

(* The k-th distance of what was scored is that of all candidates.         *)
LEMMA InvariantShowsKth ==
  ASSUME BatchInvariant PROVE ThresholdIsKth
<1> SUFFICES ASSUME boundFilter, pc = "next tile", NEW q \in Queries
             PROVE  threshold[q] = KthDistance([i \in 1 .. Here |-> Truth(q, i)])
  BY DEF ThresholdIsKth, Here, Truth
<1> DEFINE scored == [i \in 1 .. Here |-> Truth(q, i)]
<1>1. TileInvariant
  BY DEF BatchInvariant
<1>2. Here \in Nat /\ \A i \in 1 .. Here : i \in Ranks /\ ~(i > rankBegin)
  BY <1>1, PrefixPlaces
<1>3. Distances(scored, Here)
  <2>1. \A i \in 1 .. Here : Truth(q, i) \in Entry
    BY <1>1, <1>2, TruthIsEntry DEF TileInvariant
  <2> QED
    BY <2>1 DEF Distances, Entry
<1>4. IsKth(final[q], Here, threshold[q])
  BY <1>1 DEF TileInvariant, Pruned
<1>5. ASSUME NEW i \in 1 .. Here
      PROVE  \/ final[q][i] = scored[i]
             \/ final[q][i].distance = Infinity /\ scored[i].distance > threshold[q]
  <2>1. i \in Ranks /\ ~(i > rankBegin)
    BY <1>2
  <2>2. \/ final[q][i] = Truth(q, i)
        \/ final[q][i] = Unfilled /\ Truth(q, i).distance > threshold[q]
    BY <1>1, <2>1 DEF TileInvariant, Pruned
  <2> QED
    <3>1. scored[i] = Truth(q, i)
      OBVIOUS
    <3>2. Unfilled.distance = Infinity
      BY DEF Unfilled
    <3> HIDE DEF scored
    <3> QED
      BY <2>2, <3>1, <3>2
<1>6. DOMAIN scored = 1 .. Here
  OBVIOUS
<1> HIDE DEF scored
<1>7. IsKth(scored, Here, threshold[q])
  BY <1>2, <1>3, <1>4, <1>5, PrunedKth
<1>8. threshold[q] = KthDistance(scored)
  BY <1>2, <1>3, <1>6, <1>7, KthDistanceIsKth
<1> QED
  BY <1>8 DEF scored

(* Whatever the filter has pruned, the threshold of the next tile is the   *)
(* k-th distance of all candidates so far (ScoreTile computes it from the  *)
(* ones that were read).                                                   *)
THEOREM ThresholdsAreKth ==
  ASSUME WarpsAdd, SortsKeepEntries
  PROVE  BatchSpec => []ThresholdIsKth
<1>1. BatchInvariant /\ [BatchNext]_allVars => BatchInvariant'
  BY BatchKeeps
<1> QED
  BY <1>1, BatchStarts, InvariantShowsKth, PTL DEF BatchSpec
=============================================================================
