------------------------ MODULE TopologySearch_proofs ------------------------
(***************************************************************************)
(* Safety of one query's traversal, for every topology, entry list, filter *)
(* and setting of the parameters: types, the budget of expansions, that    *)
(* the visited filter keeps the prefix across its rebuilds, that the list  *)
(* stays sorted, its ranks only improve and the host cuts the nearest from *)
(* it, that an early stop has settled what it promises and that a learned  *)
(* stop cuts no search too early.  Then, under the hypotheses each of them *)
(* names, but for every hash function: where a search ends is a local      *)
(* minimum, no node is expanded twice, and the traversal implements the    *)
(* best-first search step by step.  The first part is about what the merge *)
(* of a frontier and the selection of ranks return, for every list,        *)
(* frontier and size.                                                      *)
(***************************************************************************)
EXTENDS TopologySearch, FiniteSetTheorems, TLAPS

(* The candidate order is a strict order, total up to equal ids.           *)
LEMMA CandidateOrder ==
  ASSUME NEW a \in NodeOrNone, NEW b \in NodeOrNone, NEW c \in NodeOrNone
  PROVE  /\ ~CandidateLess(a, a)
         /\ CandidateLess(a, b) /\ CandidateLess(b, c) => CandidateLess(a, c)
         /\ a # b => CandidateLess(a, b) \/ CandidateLess(b, a)
<1>1. /\ a # NoNode => a \in Nat /\ Dist[a] \in Nat
      /\ b # NoNode => b \in Nat /\ Dist[b] \in Nat
      /\ c # NoNode => c \in Nat /\ Dist[c] \in Nat
  BY NodesAssumption DEF NodeOrNone
<1>2. QED
  BY <1>1 DEF CandidateLess

(* Sorting a frontier orders its admitted slots strictly and totally.      *)
LEMMA SlotOrder ==
  ASSUME NEW frontier \in FrontierArray, NEW s \in Admitted(frontier),
         NEW t \in Admitted(frontier), NEW u \in Admitted(frontier)
  PROVE  /\ ~SortsBefore(frontier, s, s)
         /\ SortsBefore(frontier, s, t) /\ SortsBefore(frontier, t, u)
              => SortsBefore(frontier, s, u)
         /\ s # t => SortsBefore(frontier, s, t) \/ SortsBefore(frontier, t, s)
<1>1. /\ s \in 1 .. Slots /\ t \in 1 .. Slots /\ u \in 1 .. Slots
      /\ frontier[s] \in NodeOrNone /\ frontier[t] \in NodeOrNone
      /\ frontier[u] \in NodeOrNone
  BY DEF Admitted, FrontierArray
<1>2. ~SortsBefore(frontier, s, s)
  BY <1>1, CandidateOrder, SizesAssumption DEF SortsBefore
<1>3. SortsBefore(frontier, s, t) /\ SortsBefore(frontier, t, u)
        => SortsBefore(frontier, s, u)
  BY <1>1, CandidateOrder, SizesAssumption DEF SortsBefore
<1>4. s # t => SortsBefore(frontier, s, t) \/ SortsBefore(frontier, t, s)
  BY <1>1, CandidateOrder, SizesAssumption DEF SortsBefore
<1>5. QED
  BY <1>2, <1>3, <1>4

(* The admitted slots are finitely many, so each has a place in the sorted *)
(* frontier.                                                               *)
LEMMA SlotsFinite ==
  ASSUME NEW frontier \in FrontierArray
  PROVE  /\ IsFiniteSet(Admitted(frontier))
         /\ Cardinality(Admitted(frontier)) \in Nat
         /\ \A s : SortRank(frontier, s) \in Nat \ {0}
<1>1. IsFiniteSet(1 .. Slots)
  BY FS_Interval, SizesAssumption
<1>2. IsFiniteSet(Admitted(frontier)) /\ Cardinality(Admitted(frontier)) \in Nat
  BY <1>1, FS_Subset, FS_CardinalityType DEF Admitted
<1>3. ASSUME NEW s PROVE SortRank(frontier, s) \in Nat \ {0}
  <2>1. IsFiniteSet({t \in Admitted(frontier) : SortsBefore(frontier, t, s)})
    BY <1>2, FS_Subset
  <2>2. QED
    BY <2>1, FS_CardinalityType DEF SortRank
<1>4. QED
  BY <1>2, <1>3

(* A slot that sorts before another has a smaller place.                   *)
LEMMA SortRankIncreases ==
  ASSUME NEW frontier \in FrontierArray, NEW s \in Admitted(frontier),
         NEW t \in Admitted(frontier), SortsBefore(frontier, s, t)
  PROVE  SortRank(frontier, s) < SortRank(frontier, t)
<1> DEFINE Before(x) == {u \in Admitted(frontier) : SortsBefore(frontier, u, x)}
<1>1. IsFiniteSet(Before(s)) /\ IsFiniteSet(Before(t))
  BY SlotsFinite, FS_Subset
<1>2. Before(s) \subseteq Before(t)
  BY SlotOrder
<1>3. s \in Before(t) /\ s \notin Before(s)
  BY SlotOrder
<1>4. Cardinality(Before(s)) <= Cardinality(Before(t))
      /\ Cardinality(Before(s)) # Cardinality(Before(t))
  BY <1>1, <1>2, <1>3, FS_Subset
<1>5. Cardinality(Before(s)) \in Nat /\ Cardinality(Before(t)) \in Nat
  BY <1>1, FS_CardinalityType
<1>6. QED
  BY <1>4, <1>5 DEF SortRank

(* Fewer slots are accepted in front of position p than there are          *)
(* positions in front of p.                                                *)
LEMMA AboveBound ==
  ASSUME NEW held \in CandidateArray, NEW total \in 0 .. Capacity,
         NEW frontier \in FrontierArray, NEW p \in 1 .. Capacity, NEW high_l
  PROVE  LET above == {s \in AcceptedSlots(held, total, frontier) :
                         OutputPosition(held, frontier, s, high_l) < p}
         IN  IsFiniteSet(above) /\ Cardinality(above) \in 0 .. p - 1
<1> DEFINE above == {s \in AcceptedSlots(held, total, frontier) :
                       OutputPosition(held, frontier, s, high_l) < p}
           place == [s \in above |-> SortRank(frontier, s)]
<1>1. above \subseteq Admitted(frontier) /\ IsFiniteSet(above)
  BY SlotsFinite, FS_Subset DEF AcceptedSlots
<1>2. ASSUME NEW s \in above PROVE SortRank(frontier, s) \in 1 .. p - 1
  <2>1. IsFiniteSet(1 .. Capacity)
    BY FS_Interval, SizesAssumption
  <2>2. Cardinality(EntriesAhead(held, frontier[s], high_l)) \in Nat
    <3>1. /\ StrictlyBefore(held, frontier[s]) \subseteq 1 .. Capacity
          /\ NotAfter(held, frontier[s]) \subseteq 1 .. Capacity
      BY DEF StrictlyBefore, NotAfter
    <3>2. QED
      BY <2>1, <3>1, FS_Subset, FS_CardinalityType DEF EntriesAhead
  <2>3. SortRank(frontier, s) \in Nat \ {0}
    BY SlotsFinite
  <2>4. QED
    BY <2>2, <2>3, SizesAssumption DEF OutputPosition
<1>3. ASSUME NEW s \in above, NEW t \in above, s # t
      PROVE  SortRank(frontier, s) # SortRank(frontier, t)
  BY <1>1, <1>3, SlotOrder, SortRankIncreases, SlotsFinite
<1>4. place \in Injection(above, 1 .. p - 1)
  BY <1>2, <1>3 DEF Injection, IsInjective
<1>5. IsFiniteSet(1 .. p - 1) /\ Cardinality(1 .. p - 1) = p - 1
  <2>1. p - 1 \in Nat
    BY SizesAssumption
  <2>2. /\ IsFiniteSet(1 .. p - 1)
        /\ Cardinality(1 .. p - 1) = IF 1 > p - 1 THEN 0 ELSE (p - 1) - 1 + 1
    BY <2>1, FS_Interval
  <2>3. QED
    BY <2>1, <2>2
<1>6. Cardinality(above) <= p - 1
  BY <1>4, <1>5, FS_Injection
<1>7. Cardinality(above) \in Nat
  BY <1>1, FS_CardinalityType
<1>8. QED
  BY <1>1, <1>6, <1>7, SizesAssumption

(* The merge does not shorten the list and stays within its capacity.      *)
LEMMA NewValidCountBounds ==
  ASSUME NEW total \in 0 .. Capacity, NEW frontier \in FrontierArray
  PROVE  NewValidCount(total, frontier) \in total .. Capacity
BY SlotsFinite, SizesAssumption DEF NewValidCount, SmallerOf

(* Each entry of a merged list is an admitted node, or an entry that the   *)
(* list held at the same rank or before.                                   *)
LEMMA MergeOrigin ==
  ASSUME NEW held \in CandidateArray, NEW total \in 0 .. Capacity,
         NEW frontier \in FrontierArray, NEW p \in 1 .. Capacity, NEW high_l
  PROVE  LET merged == MergeFrontier(held, total, frontier, high_l)
         IN  \/ \E s \in Admitted(frontier) :
                  merged[p] = [id |-> frontier[s], expanded |-> FALSE]
             \/ \E q \in 1 .. p :
                  merged[p] = held[q] /\ (p > NewValidCount(total, frontier) => q = p)
<1> DEFINE accepted == AcceptedSlots(held, total, frontier)
           at == {s \in accepted : OutputPosition(held, frontier, s, high_l) = p}
           above == {s \in accepted : OutputPosition(held, frontier, s, high_l) < p}
           merged == MergeFrontier(held, total, frontier, high_l)
<1>1. merged[p] = IF p > NewValidCount(total, frontier) THEN held[p]
                  ELSE IF at # {}
                       THEN [id |-> frontier[CHOOSE s \in at : TRUE],
                             expanded |-> FALSE]
                       ELSE held[p - Cardinality(above)]
  BY DEF MergeFrontier
<1>2. at \subseteq Admitted(frontier)
  BY DEF AcceptedSlots
<1>3. Cardinality(above) \in 0 .. p - 1
  BY AboveBound
<1>4. CASE p > NewValidCount(total, frontier)
  BY <1>1, <1>4, SizesAssumption
<1>5. CASE p <= NewValidCount(total, frontier) /\ at # {}
  <2>1. (CHOOSE s \in at : TRUE) \in Admitted(frontier)
    BY <1>2, <1>5
  <2>2. ~(p > NewValidCount(total, frontier))
    BY <1>5, NewValidCountBounds, SizesAssumption
  <2>3. QED
    BY <1>1, <1>5, <2>1, <2>2
<1>6. CASE p <= NewValidCount(total, frontier) /\ at = {}
  <2>1. ~(p > NewValidCount(total, frontier))
    BY <1>6, NewValidCountBounds, SizesAssumption
  <2>2. p - Cardinality(above) \in 1 .. p
    BY <1>3, SizesAssumption
  <2>3. merged[p] = held[p - Cardinality(above)]
    BY <1>1, <1>6, <2>1
  <2>4. QED
    BY <2>1, <2>2, <2>3
<1>7. QED
  BY <1>4, <1>5, <1>6, NewValidCountBounds, SizesAssumption

(* A merged list is a candidate array.                                     *)
LEMMA MergeType ==
  ASSUME NEW held \in CandidateArray, NEW total \in 0 .. Capacity,
         NEW frontier \in FrontierArray, NEW high_l
  PROVE  MergeFrontier(held, total, frontier, high_l) \in CandidateArray
<1> DEFINE merged == MergeFrontier(held, total, frontier, high_l)
<1>1. ASSUME NEW p \in 1 .. Capacity PROVE merged[p] \in Candidate
  <2>1. CASE \E s \in Admitted(frontier) :
               merged[p] = [id |-> frontier[s], expanded |-> FALSE]
    BY <2>1 DEF Admitted, FrontierArray, Candidate
  <2>2. CASE \E q \in 1 .. p : merged[p] = held[q]
    BY <2>2, SizesAssumption DEF CandidateArray
  <2>3. QED
    BY <2>1, <2>2, MergeOrigin
<1>2. merged = [p \in 1 .. Capacity |-> merged[p]]
  BY DEF MergeFrontier
<1>3. QED
  BY <1>1, <1>2 DEF CandidateArray

(* The place of a rank in a finite set lies within the set's size.         *)
LEMMA PlaceBounds ==
  ASSUME NEW ranks, IsFiniteSet(ranks), ranks \subseteq Nat, NEW i \in ranks
  PROVE  PlaceOf(ranks, i) \in 1 .. Cardinality(ranks)
<1> DEFINE below == {k \in ranks : k < i}
<1>1. Cardinality(ranks) \in Nat /\ IsFiniteSet(below) /\ Cardinality(below) \in Nat
  BY FS_Subset, FS_CardinalityType
<1>2. i \notin below
  BY i \in Nat
<1>3. Cardinality(below) <= Cardinality(ranks) /\ Cardinality(below) # Cardinality(ranks)
  BY <1>1, <1>2, FS_Subset
<1>4. QED
  BY <1>1, <1>3 DEF PlaceOf

(* A smaller rank has a smaller place.                                     *)
LEMMA PlacesIncrease ==
  ASSUME NEW ranks, IsFiniteSet(ranks), ranks \subseteq Nat,
         NEW i \in ranks, NEW j \in ranks, i < j
  PROVE  PlaceOf(ranks, i) < PlaceOf(ranks, j)
<1> DEFINE Below(n) == {k \in ranks : k < n}
<1>1. \A n : IsFiniteSet(Below(n)) /\ Cardinality(Below(n)) \in Nat
  BY FS_Subset, FS_CardinalityType
<1>2. i \in Nat /\ j \in Nat
  OBVIOUS
<1>3. Below(i) \subseteq Below(j)
  <2>1. ASSUME NEW k \in ranks, k < i PROVE k < j
    <3>1. k \in Nat
      OBVIOUS
    <3>2. QED
      BY <1>2, <2>1, <3>1
  <2>2. QED
    BY <2>1
<1>4. i \in Below(j) /\ i \notin Below(i)
  BY <1>2
<1>5. Cardinality(Below(i)) <= Cardinality(Below(j))
      /\ Cardinality(Below(i)) # Cardinality(Below(j))
  BY <1>1, <1>3, <1>4, FS_Subset
<1>6. QED
  BY <1>1, <1>5 DEF PlaceOf

(* Different ranks have different places.                                  *)
LEMMA PlacesDiffer ==
  ASSUME NEW ranks, IsFiniteSet(ranks), ranks \subseteq Nat,
         NEW i \in ranks, NEW j \in ranks, i # j
  PROVE  PlaceOf(ranks, i) # PlaceOf(ranks, j)
<1>1. i \in Nat /\ j \in Nat
  OBVIOUS
<1>2. /\ PlaceOf(ranks, i) \in 1 .. Cardinality(ranks)
      /\ PlaceOf(ranks, j) \in 1 .. Cardinality(ranks)
  BY PlaceBounds
<1>3. Cardinality(ranks) \in Nat
  BY FS_CardinalityType
<1>4. CASE i < j
  <2>1. PlaceOf(ranks, i) < PlaceOf(ranks, j)
    BY <1>4, PlacesIncrease
  <2>2. QED
    BY <1>2, <1>3, <2>1
<1>5. CASE j < i
  <2>1. PlaceOf(ranks, j) < PlaceOf(ranks, i)
    BY <1>5, PlacesIncrease
  <2>2. QED
    BY <1>2, <1>3, <2>1
<1>6. QED
  BY <1>1, <1>4, <1>5

(* The places of a finite set of ranks are 1, 2, ... without a gap.        *)
LEMMA PlacesFilled ==
  ASSUME NEW ranks, IsFiniteSet(ranks), ranks \subseteq Nat,
         NEW k \in 1 .. Cardinality(ranks)
  PROVE  \E i \in ranks : PlaceOf(ranks, i) = k
<1> DEFINE places == 1 .. Cardinality(ranks)
           place == [i \in ranks |-> PlaceOf(ranks, i)]
<1>1. Cardinality(ranks) \in Nat
  BY FS_CardinalityType
<1>2. ASSUME NEW i \in ranks, NEW j \in ranks, i # j
      PROVE  PlaceOf(ranks, i) # PlaceOf(ranks, j)
  BY <1>2, PlacesDiffer
<1>3. ASSUME NEW i \in ranks PROVE PlaceOf(ranks, i) \in places
  BY PlaceBounds
<1>4. place \in Injection(ranks, places)
  BY <1>2, <1>3 DEF Injection, IsInjective
<1>5. IsFiniteSet(places) /\ Cardinality(places) = Cardinality(ranks)
  BY <1>1, FS_Interval
<1>6. place \in Surjection(ranks, places)
  BY <1>4, <1>5, FS_Injection
<1>7. \E i \in ranks : place[i] = k
  BY <1>6 DEF Surjection
<1>8. QED
  BY <1>7

(* Selecting the first ranks of a set yields at most as many as asked for. *)
LEMMA FirstRanksBound ==
  ASSUME NEW ranks, IsFiniteSet(ranks), ranks \subseteq Nat, NEW width \in Nat
  PROVE  /\ FirstRanks(ranks, width) \subseteq ranks
         /\ IsFiniteSet(FirstRanks(ranks, width))
         /\ Cardinality(FirstRanks(ranks, width)) \in 0 .. width
<1> DEFINE first == FirstRanks(ranks, width)
           place == [i \in first |-> PlaceOf(ranks, i)]
<1>1. first \subseteq ranks /\ IsFiniteSet(first)
  BY FS_Subset DEF FirstRanks
<1>2. ASSUME NEW i \in first PROVE PlaceOf(ranks, i) \in 1 .. width
  <2>1. Cardinality({j \in ranks : j < i}) \in Nat
    BY FS_Subset, FS_CardinalityType
  <2>2. QED
    BY <2>1 DEF PlaceOf, FirstRanks
<1>3. ASSUME NEW i \in first, NEW j \in first, i # j
      PROVE  PlaceOf(ranks, i) # PlaceOf(ranks, j)
  <2>1. i \in ranks /\ j \in ranks
    BY <1>1
  <2>2. QED
    BY <1>3, <2>1, PlacesDiffer
<1>4. place \in Injection(first, 1 .. width)
  BY <1>2, <1>3 DEF Injection, IsInjective
<1>5. IsFiniteSet(1 .. width) /\ Cardinality(1 .. width) = width
  BY FS_Interval
<1>6. Cardinality(first) <= width
  BY <1>4, <1>5, FS_Injection
<1>7. QED
  BY <1>1, <1>6, FS_CardinalityType
-----------------------------------------------------------------------------
(* MergeFrontierIntoCandidates and the merge by output positions of the    *)
(* high-L kernel keep the list in order, for every list, frontier and      *)
(* capacity: the positions of the accepted entries leave gaps in which the *)
(* old entries fit, shifted by the accepted entries in front of them.      *)

(* Valid entries in front, none of them after a smaller one.               *)
InOrder(held, total) ==
  /\ \A i \in 1 .. Capacity : IsValid(held[i]) <=> i <= total
  /\ \A i, j \in 1 .. total : i < j => ~CandidateLess(held[j].id, held[i].id)

(* Old entries that an accepted slot goes behind, and those it may.        *)
Ahead(held, frontier, s, high_l) == Cardinality(EntriesAhead(held, frontier[s], high_l))
NotBehind(held, frontier, s) == Cardinality(NotAfter(held, frontier[s]))

AboveSlots(held, total, frontier, high_l, p) ==
  {s \in AcceptedSlots(held, total, frontier) : OutputPosition(held, frontier, s, high_l) < p}

-----------------------------------------------------------------------------
(* A set of numbers without gaps is an interval from one.                  *)
LEMMA WithoutGaps ==
  ASSUME NEW n \in Nat, NEW S \in SUBSET (1 .. n),
         \A i \in S : \A j \in 1 .. i : j \in S
  PROVE  S = 1 .. Cardinality(S) /\ Cardinality(S) \in 0 .. n
<1>1. IsFiniteSet(1 .. n) /\ Cardinality(1 .. n) = n
  BY FS_Interval
<1>2. IsFiniteSet(S) /\ Cardinality(S) \in 0 .. n
  <2>1. IsFiniteSet(S) /\ Cardinality(S) <= Cardinality(1 .. n)
    BY <1>1, FS_Subset
  <2>2. Cardinality(S) \in Nat
    BY <2>1, FS_CardinalityType
  <2> QED
    BY <1>1, <2>1, <2>2
<1>3. ASSUME NEW i \in S PROVE i \in 1 .. Cardinality(S)
  <2>1. i \in Nat /\ 1 .. i \subseteq S /\ i >= 1
    OBVIOUS
  <2>2. Cardinality(1 .. i) = i
    BY <2>1, FS_Interval
  <2>3. i <= Cardinality(S)
    BY <1>2, <2>1, <2>2, FS_Subset
  <2> QED
    BY <1>2, <2>1, <2>3
<1>4. IsFiniteSet(1 .. Cardinality(S)) /\ Cardinality(1 .. Cardinality(S)) = Cardinality(S)
  BY <1>2, FS_Interval
<1> QED
  BY <1>2, <1>3, <1>4, FS_Subset

(* In an ordered list the entries in front of a node are the first ones.   *)
LEMMA AheadAreFirst ==
  ASSUME NEW held \in CandidateArray, NEW total \in 0 .. Capacity, InOrder(held, total),
         NEW node \in Nodes, NEW high_l
  PROVE  /\ Cardinality(NotAfter(held, node)) \in 0 .. total
         /\ Cardinality(EntriesAhead(held, node, high_l)) \in 0 .. Cardinality(NotAfter(held, node))
         /\ \A i \in 1 .. total :
              /\ CandidateLess(held[i].id, node)
                   => i <= Cardinality(EntriesAhead(held, node, high_l))
              /\ CandidateLess(node, held[i].id) => i > Cardinality(NotAfter(held, node))
<1> DEFINE before == StrictlyBefore(held, node)
           upto   == NotAfter(held, node)
<1>1. total \in Nat /\ Capacity \in Nat /\ 1 .. total \subseteq 1 .. Capacity
  BY SizesAssumption
<1>2. ASSUME NEW i \in 1 .. Capacity
      PROVE  /\ held[i].id \in NodeOrNone /\ node \in NodeOrNone
             /\ IsValid(held[i]) <=> i \in 1 .. total
             /\ CandidateLess(held[i].id, node) => IsValid(held[i])
  BY <1>1 DEF CandidateArray, Candidate, InOrder, CandidateLess, IsValid, NodeOrNone
<1>3. before \subseteq upto /\ upto \subseteq 1 .. total
  <2>1. ASSUME NEW i \in 1 .. Capacity, CandidateLess(held[i].id, node)
        PROVE  IsValid(held[i]) /\ ~CandidateLess(node, held[i].id)
    BY <1>2, <2>1, CandidateOrder
  <2> QED
    BY <1>1, <1>2, <2>1 DEF StrictlyBefore, NotAfter
<1>4. ASSUME NEW i \in 1 .. total, NEW j \in 1 .. i
      PROVE  j \in 1 .. total /\ j \in 1 .. Capacity /\ ~CandidateLess(held[i].id, held[j].id)
  <2>1. j \in 1 .. total
    BY <1>1
  <2>2. CASE i = j
    BY <1>1, <1>2, <2>1, <2>2, CandidateOrder
  <2>3. CASE i # j
    <3>1. j < i
      BY <1>1, <2>3
    <3> QED
      BY <1>1, <2>1, <3>1 DEF InOrder
  <2> QED
    BY <1>1, <2>1, <2>2, <2>3
<1>5. \A i \in upto : \A j \in 1 .. i : j \in upto
  <2>1. SUFFICES ASSUME NEW i \in upto, NEW j \in 1 .. i, CandidateLess(node, held[j].id)
                 PROVE  FALSE
    BY <1>1, <1>2, <1>3, <1>4 DEF NotAfter
  <2>2. /\ i \in 1 .. total /\ i \in 1 .. Capacity /\ ~CandidateLess(node, held[i].id)
        /\ j \in 1 .. Capacity /\ ~CandidateLess(held[i].id, held[j].id)
    BY <1>1, <1>3, <1>4 DEF NotAfter
  <2> QED
    BY <1>2, <2>1, <2>2, CandidateOrder
<1>6. \A i \in before : \A j \in 1 .. i : j \in before
  <2>1. SUFFICES ASSUME NEW i \in before, NEW j \in 1 .. i PROVE CandidateLess(held[j].id, node)
    BY <1>1, <1>3, <1>4 DEF StrictlyBefore
  <2>2. /\ i \in 1 .. Capacity /\ CandidateLess(held[i].id, node)
        /\ j \in 1 .. Capacity /\ ~CandidateLess(held[i].id, held[j].id)
    BY <1>1, <1>3, <1>4 DEF StrictlyBefore
  <2> QED
    BY <1>2, <2>2, CandidateOrder
<1>7. upto = 1 .. Cardinality(upto) /\ Cardinality(upto) \in 0 .. total
  BY <1>1, <1>3, <1>5, WithoutGaps
<1>8. before = 1 .. Cardinality(before) /\ Cardinality(before) \in 0 .. total
  BY <1>1, <1>3, <1>6, WithoutGaps
<1>9. Cardinality(before) <= Cardinality(upto)
  <2>1. IsFiniteSet(1 .. total)
    BY <1>1, FS_Interval
  <2>2. IsFiniteSet(upto)
    BY <1>3, <2>1, FS_Subset
  <2> QED
    BY <1>3, <2>2, FS_Subset
<1>10. ASSUME NEW i \in 1 .. total
       PROVE  /\ CandidateLess(held[i].id, node) => i <= Cardinality(before)
              /\ CandidateLess(node, held[i].id) => i > Cardinality(upto)
  <2>1. CASE CandidateLess(held[i].id, node)
    <3>1. i \in before
      BY <1>1, <2>1 DEF StrictlyBefore
    <3>2. ~CandidateLess(node, held[i].id)
      BY <1>1, <1>2, <2>1, CandidateOrder
    <3> QED
      BY <1>8, <3>1, <3>2
  <2>2. CASE CandidateLess(node, held[i].id)
    <3>1. i \notin upto
      BY <2>2 DEF NotAfter
    <3>2. ~CandidateLess(held[i].id, node)
      BY <1>1, <1>2, <2>2, CandidateOrder
    <3> QED
      BY <1>1, <1>7, <3>1, <3>2
  <2> QED
    BY <2>1, <2>2
<1>11. EntriesAhead(held, node, high_l) \in {before, upto}
  BY DEF EntriesAhead
<1> HIDE DEF before, upto
<1>12. CASE EntriesAhead(held, node, high_l) = before
  <2> QED
    BY <1>1, <1>7, <1>8, <1>9, <1>10, <1>12 DEF upto
<1>13. CASE EntriesAhead(held, node, high_l) = upto
  <2> QED
    BY <1>1, <1>7, <1>8, <1>9, <1>10, <1>13 DEF upto
<1> QED
  BY <1>11, <1>12, <1>13

(* A slot that sorts behind another has no fewer old entries in front.     *)
LEMMA AheadIncreases ==
  ASSUME NEW held \in CandidateArray, NEW frontier \in FrontierArray, NEW high_l,
         NEW s \in Admitted(frontier), NEW t \in Admitted(frontier),
         SortsBefore(frontier, s, t)
  PROVE  /\ Ahead(held, frontier, s, high_l) <= Ahead(held, frontier, t, high_l)
         /\ NotBehind(held, frontier, s) <= NotBehind(held, frontier, t)
<1>1. /\ frontier[s] \in NodeOrNone /\ frontier[t] \in NodeOrNone
      /\ \A i \in 1 .. Capacity : held[i].id \in NodeOrNone
  BY DEF Admitted, FrontierArray, CandidateArray, Candidate
<1>2. CandidateLess(frontier[s], frontier[t]) \/ frontier[s] = frontier[t]
  BY DEF SortsBefore
<1>3. NotAfter(held, frontier[s]) \subseteq NotAfter(held, frontier[t])
  BY <1>1, <1>2, CandidateOrder DEF NotAfter
<1>4. StrictlyBefore(held, frontier[s]) \subseteq StrictlyBefore(held, frontier[t])
  BY <1>1, <1>2, CandidateOrder DEF StrictlyBefore
<1>5. IsFiniteSet(1 .. Capacity)
  BY FS_Interval, SizesAssumption
<1>6. IsFiniteSet(NotAfter(held, frontier[t])) /\ IsFiniteSet(StrictlyBefore(held, frontier[t]))
  BY <1>5, FS_Subset DEF NotAfter, StrictlyBefore
<1>7. /\ Cardinality(NotAfter(held, frontier[s])) <= Cardinality(NotAfter(held, frontier[t]))
      /\ Cardinality(StrictlyBefore(held, frontier[s]))
           <= Cardinality(StrictlyBefore(held, frontier[t]))
  BY <1>3, <1>4, <1>6, FS_Subset
<1> QED
  BY <1>7 DEF Ahead, NotBehind, EntriesAhead

(* The ranks of the admitted slots are 1, 2, ..., in the order of sorting. *)
LEMMA SortRanks ==
  ASSUME NEW frontier \in FrontierArray
  PROVE  /\ \A s \in Admitted(frontier) : SortRank(frontier, s) \in 1 .. Cardinality(Admitted(frontier))
         /\ \A s, t \in Admitted(frontier) :
              /\ SortRank(frontier, s) < SortRank(frontier, t) => SortsBefore(frontier, s, t)
              /\ SortRank(frontier, s) = SortRank(frontier, t) => s = t
         /\ \A k \in 1 .. Cardinality(Admitted(frontier)) :
              \E s \in Admitted(frontier) : SortRank(frontier, s) = k
<1> DEFINE slots == Admitted(frontier)
           ranks == 1 .. Cardinality(slots)
           rank == [s \in slots |-> SortRank(frontier, s)]
<1>1. IsFiniteSet(slots) /\ Cardinality(slots) \in Nat /\ \A s : SortRank(frontier, s) \in Nat \ {0}
  BY SlotsFinite
<1>2. ASSUME NEW s \in slots PROVE SortRank(frontier, s) \in ranks
  <2> DEFINE first == {t \in slots : SortsBefore(frontier, t, s)}
  <2>1. s \notin first
    BY SlotOrder
  <2>2. Cardinality(first) <= Cardinality(slots) /\ Cardinality(first) # Cardinality(slots)
    BY <1>1, <2>1, FS_Subset
  <2>3. Cardinality(first) \in Nat
    BY <1>1, FS_Subset, FS_CardinalityType
  <2>4. SortRank(frontier, s) = Cardinality(first) + 1
    BY DEF SortRank
  <2> HIDE DEF first, slots
  <2> QED
    BY <1>1, <2>2, <2>3, <2>4
<1>3. ASSUME NEW s \in slots, NEW t \in slots
      PROVE  /\ SortRank(frontier, s) < SortRank(frontier, t) => SortsBefore(frontier, s, t)
             /\ SortRank(frontier, s) = SortRank(frontier, t) => s = t
  <2>1. SortsBefore(frontier, s, t) \/ SortsBefore(frontier, t, s) \/ s = t
    BY SlotOrder
  <2>2. /\ SortsBefore(frontier, s, t) => SortRank(frontier, s) < SortRank(frontier, t)
        /\ SortsBefore(frontier, t, s) => SortRank(frontier, t) < SortRank(frontier, s)
    BY SortRankIncreases
  <2> QED
    BY <1>1, <2>1, <2>2
<1>4. rank \in Injection(slots, ranks)
  BY <1>2, <1>3 DEF Injection, IsInjective
<1>5. IsFiniteSet(ranks) /\ Cardinality(ranks) = Cardinality(slots)
  BY <1>1, FS_Interval
<1>6. rank \in Surjection(slots, ranks)
  BY <1>4, <1>5, FS_Injection
<1>7. \A k \in ranks : \E s \in slots : rank[s] = k
  BY <1>6 DEF Surjection
<1> QED
  BY <1>2, <1>3, <1>7

(* Slots that have all slots in front of them among them are the first     *)
(* ones of the sorted frontier.                                            *)
LEMMA FirstSlots ==
  ASSUME NEW frontier \in FrontierArray, NEW first, first \subseteq Admitted(frontier),
         \A s \in first, t \in Admitted(frontier) :
           SortRank(frontier, t) < SortRank(frontier, s) => t \in first
  PROVE  /\ Cardinality(first) \in 0 .. Cardinality(Admitted(frontier))
         /\ \A s \in Admitted(frontier) :
              s \in first <=> SortRank(frontier, s) <= Cardinality(first)
<1> DEFINE slots == Admitted(frontier)
           taken == {SortRank(frontier, s) : s \in first}
           n == Cardinality(slots)
<1>1. IsFiniteSet(slots) /\ n \in Nat /\ \A s : SortRank(frontier, s) \in Nat \ {0}
  BY SlotsFinite
<1>2. first \subseteq slots
  OBVIOUS
<1>4. ASSUME NEW s \in first, NEW t \in slots,
             SortRank(frontier, t) <= SortRank(frontier, s)
      PROVE  t \in first
  <2>1. SortRank(frontier, t) = SortRank(frontier, s) => t = s
    BY <1>2, SortRanks
  <2> QED
    BY <1>1, <1>4, <2>1
<1>5. taken \subseteq 1 .. n
  BY <1>2, SortRanks
<1>6. \A i \in taken : \A j \in 1 .. i : j \in taken
  <2>1. SUFFICES ASSUME NEW s \in first, NEW j \in 1 .. SortRank(frontier, s)
                 PROVE  j \in taken
    OBVIOUS
  <2>2. SortRank(frontier, s) \in 1 .. n
    BY <1>5
  <2>3. j \in 1 .. n
    BY <1>1, <2>2
  <2>4. PICK t \in slots : SortRank(frontier, t) = j
    BY <2>3, SortRanks
  <2>5. t \in first
    BY <1>4, <2>4
  <2> QED
    BY <2>4, <2>5
<1>7. taken = 1 .. Cardinality(taken) /\ Cardinality(taken) \in 0 .. n
  BY <1>1, <1>5, <1>6, WithoutGaps
<1>8. Cardinality(taken) = Cardinality(first)
  <2> DEFINE rank == [s \in first |-> SortRank(frontier, s)]
  <2>1. rank \in Bijection(first, taken)
    <3>1. rank \in [first -> taken]
      OBVIOUS
    <3>2. \A s, t \in first : rank[s] = rank[t] => s = t
      BY <1>2, SortRanks
    <3>3. \A k \in taken : \E s \in first : rank[s] = k
      OBVIOUS
    <3> QED
      BY <3>1, <3>2, <3>3 DEF Bijection, Injection, Surjection, IsInjective
  <2>2. IsFiniteSet(first)
    BY <1>1, <1>2, FS_Subset
  <2>3. ExistsBijection(first, taken)
    BY <2>1, Zenon DEF ExistsBijection
  <2> HIDE DEF taken
  <2> QED
    BY <2>2, <2>3, FS_Bijection
<1>9. ASSUME NEW s \in slots
      PROVE  s \in first <=> SortRank(frontier, s) <= Cardinality(first)
  <2>1. CASE s \in first
    <3>1. SortRank(frontier, s) \in 1 .. Cardinality(first)
      BY <1>7, <1>8, <2>1
    <3> QED
      BY <1>7, <1>8, <2>1, <3>1
  <2>2. CASE SortRank(frontier, s) <= Cardinality(first)
    <3>1. SortRank(frontier, s) \in taken
      BY <1>1, <1>7, <1>8, <2>2
    <3>2. PICK t \in first : SortRank(frontier, t) = SortRank(frontier, s)
      BY <3>1
    <3>3. t = s
      BY <1>2, <3>2, SortRanks
    <3> QED
      BY <2>2, <3>3
  <2> QED
    BY <2>1, <2>2
<1> HIDE DEF slots
<1> QED
  BY <1>7, <1>8, <1>9 DEF slots

(* The accepted slots placed before p are the first ones of the sorted     *)
(* frontier: a slot in front of an accepted one is accepted.               *)
LEMMA AboveRanks ==
  ASSUME NEW held \in CandidateArray, NEW total \in 0 .. Capacity, InOrder(held, total),
         NEW frontier \in FrontierArray, NEW high_l, NEW p \in Nat
  PROVE  LET a == Cardinality(AboveSlots(held, total, frontier, high_l, p))
         IN  /\ a \in 0 .. Cardinality(Admitted(frontier))
             /\ \A s \in Admitted(frontier) :
                  s \in AboveSlots(held, total, frontier, high_l, p)
                    <=> SortRank(frontier, s) <= a
<1> DEFINE slots == Admitted(frontier)
           above == AboveSlots(held, total, frontier, high_l, p)
           n == Cardinality(slots)
           limit == NewValidCount(total, frontier)
<1>1. /\ IsFiniteSet(slots) /\ n \in Nat /\ limit \in Nat
      /\ \A s : SortRank(frontier, s) \in Nat \ {0}
  BY SlotsFinite, NewValidCountBounds, SizesAssumption
<1>2. above \subseteq slots
  BY DEF AboveSlots, AcceptedSlots
<1>3. ASSUME NEW s \in slots
      PROVE  /\ Ahead(held, frontier, s, high_l) \in Nat /\ NotBehind(held, frontier, s) \in Nat
             /\ s \in above <=>
                  /\ NotBehind(held, frontier, s) + SortRank(frontier, s) <= limit
                  /\ Ahead(held, frontier, s, high_l) + SortRank(frontier, s) < p
  <2>1. frontier[s] \in Nodes
    BY DEF Admitted, FrontierArray, NodeOrNone
  <2>2. NotBehind(held, frontier, s) \in 0 .. total
    BY <2>1, AheadAreFirst DEF NotBehind
  <2>3. Ahead(held, frontier, s, high_l) \in 0 .. NotBehind(held, frontier, s)
    BY <2>1, AheadAreFirst DEF NotBehind, Ahead
  <2> QED
    BY <2>2, <2>3 DEF AboveSlots, AcceptedSlots, OutputPosition, Ahead, NotBehind
<1>4. ASSUME NEW s \in above, NEW t \in slots,
             SortRank(frontier, t) < SortRank(frontier, s)
      PROVE  t \in above
  <2>1. SortsBefore(frontier, t, s)
    BY <1>2, <1>4, SortRanks
  <2>2. /\ Ahead(held, frontier, t, high_l) <= Ahead(held, frontier, s, high_l)
        /\ NotBehind(held, frontier, t) <= NotBehind(held, frontier, s)
    BY <1>2, <2>1, AheadIncreases
  <2>3. /\ NotBehind(held, frontier, s) + SortRank(frontier, s) <= limit
        /\ Ahead(held, frontier, s, high_l) + SortRank(frontier, s) < p
        /\ Ahead(held, frontier, s, high_l) \in Nat /\ NotBehind(held, frontier, s) \in Nat
    BY <1>2, <1>3
  <2>4. Ahead(held, frontier, t, high_l) \in Nat /\ NotBehind(held, frontier, t) \in Nat
    BY <1>3
  <2>5. /\ NotBehind(held, frontier, t) + SortRank(frontier, t) <= limit
        /\ Ahead(held, frontier, t, high_l) + SortRank(frontier, t) < p
    BY <1>1, <1>4, <2>2, <2>3, <2>4
  <2> QED
    BY <1>3, <2>5
<1> HIDE DEF above, slots
<1> QED
  BY <1>2, <1>4, FirstSlots DEF above, slots

(* What a merge writes to place p: an accepted node, or the entry that the *)
(* accepted slots above p have shifted, whose old place is in the list.    *)
AtSlots(held, total, frontier, high_l, p) ==
  {s \in AcceptedSlots(held, total, frontier) : OutputPosition(held, frontier, s, high_l) = p}

OldPlace(held, total, frontier, high_l, p) ==
  p - Cardinality(AboveSlots(held, total, frontier, high_l, p))

LEMMA MergedEntry ==
  ASSUME NEW held \in CandidateArray, NEW total \in 0 .. Capacity, InOrder(held, total),
         NEW frontier \in FrontierArray, NEW high_l,
         NEW p \in 1 .. NewValidCount(total, frontier)
  PROVE  LET merged == MergeFrontier(held, total, frontier, high_l)
             q == OldPlace(held, total, frontier, high_l, p)
         IN  \/ \E s \in AtSlots(held, total, frontier, high_l, p) :
                  merged[p].id = frontier[s]
             \/ /\ AtSlots(held, total, frontier, high_l, p) = {}
                /\ merged[p] = held[q] /\ q \in 1 .. total /\ q <= p
<1> DEFINE at == AtSlots(held, total, frontier, high_l, p)
           above == AboveSlots(held, total, frontier, high_l, p)
           a == Cardinality(above)
           limit == NewValidCount(total, frontier)
           n == Cardinality(Admitted(frontier))
           merged == MergeFrontier(held, total, frontier, high_l)
<1>1. limit \in total .. Capacity /\ Capacity \in Nat /\ total \in Nat
  BY NewValidCountBounds, SizesAssumption
<1>2. p \in 1 .. Capacity /\ p \in Nat
  BY <1>1
<1>3. merged[p] = IF at # {} THEN [id |-> frontier[CHOOSE s \in at : TRUE], expanded |-> FALSE]
                  ELSE held[p - a]
  <2>1. ~(p > limit)
    BY <1>1
  <2> QED
    BY <1>2, <2>1 DEF MergeFrontier, AtSlots, AboveSlots
<1>4. CASE at # {}
  <2>1. PICK s \in at : s = CHOOSE t \in at : TRUE
    BY <1>4
  <2>2. merged[p] = [id |-> frontier[s], expanded |-> FALSE]
    BY <1>3, <1>4, <2>1
  <2>3. merged[p].id = frontier[s]
    BY <2>2
  <2> QED
    BY <2>3
<1>5. CASE at = {}
  <2>1. a \in 0 .. p - 1
    BY <1>2, AboveBound DEF AboveSlots
  <2>2. a \in 0 .. n /\ \A s \in Admitted(frontier) : s \in above <=> SortRank(frontier, s) <= a
    BY <1>2, AboveRanks
  <2>3. p - a <= total
    <3>1. SUFFICES ASSUME p - a > total PROVE FALSE
      BY <1>1, <1>2, <2>1
    <3>2. n \in Nat /\ limit <= total + n
      BY SlotsFinite, SizesAssumption DEF NewValidCount, SmallerOf
    <3>3. a + 1 \in 1 .. n
      BY <1>1, <1>2, <2>1, <2>2, <3>1, <3>2
    <3>4. PICK t \in Admitted(frontier) : SortRank(frontier, t) = a + 1
      BY <3>3, SortRanks
    <3>5. frontier[t] \in Nodes
      BY DEF Admitted, FrontierArray, NodeOrNone
    <3>6. /\ NotBehind(held, frontier, t) \in 0 .. total
          /\ Ahead(held, frontier, t, high_l) \in 0 .. NotBehind(held, frontier, t)
      BY <3>5, AheadAreFirst DEF NotBehind, Ahead
    <3>7. t \in AcceptedSlots(held, total, frontier)
      <4>1. NotBehind(held, frontier, t) + SortRank(frontier, t) <= limit
        BY <1>1, <1>2, <2>1, <3>1, <3>4, <3>6
      <4> QED
        BY <4>1 DEF AcceptedSlots, NotBehind
    <3>8. OutputPosition(held, frontier, t, high_l)
            = Ahead(held, frontier, t, high_l) + (a + 1)
      BY <3>4 DEF OutputPosition, Ahead
    <3>9. t \notin above
      BY <2>1, <2>2, <3>4
    <3>10. ~(OutputPosition(held, frontier, t, high_l) < p)
      BY <3>7, <3>9 DEF AboveSlots
    <3>11. OutputPosition(held, frontier, t, high_l) = p
      BY <1>1, <1>2, <2>1, <3>1, <3>6, <3>8, <3>10
    <3> QED
      BY <1>5, <3>7, <3>11 DEF AtSlots
  <2> QED
    BY <1>1, <1>2, <1>3, <1>5, <2>1, <2>3 DEF OldPlace
<1> QED
  BY <1>4, <1>5

(* An old entry that keeps a place has no accepted slot behind it that     *)
(* belongs in front, and none in front that belongs behind.                *)
LEMMA OldFitsBetween ==
  ASSUME NEW held \in CandidateArray, NEW total \in 0 .. Capacity, InOrder(held, total),
         NEW frontier \in FrontierArray, NEW high_l,
         NEW p \in 1 .. NewValidCount(total, frontier),
         AtSlots(held, total, frontier, high_l, p) = {},
         NEW q \in 1 .. total, q = OldPlace(held, total, frontier, high_l, p),
         NEW s \in AcceptedSlots(held, total, frontier)
  PROVE  /\ OutputPosition(held, frontier, s, high_l) < p => ~CandidateLess(held[q].id, frontier[s])
         /\ OutputPosition(held, frontier, s, high_l) > p => ~CandidateLess(frontier[s], held[q].id)
<1> DEFINE above == AboveSlots(held, total, frontier, high_l, p)
           a == Cardinality(above)
           limit == NewValidCount(total, frontier)
           n == Cardinality(Admitted(frontier))
<1>1. /\ limit \in Nat /\ total \in Nat /\ p \in Nat /\ q \in Nat
      /\ \A t : SortRank(frontier, t) \in Nat \ {0}
  BY NewValidCountBounds, SlotsFinite, SizesAssumption
<1>2. /\ a \in 0 .. n /\ n \in Nat
      /\ \A t \in Admitted(frontier) : t \in above <=> SortRank(frontier, t) <= a
  BY <1>1, AboveRanks, SlotsFinite
<1>3. q = p - a /\ s \in Admitted(frontier)
  BY DEF OldPlace, AcceptedSlots
<1>4. ASSUME NEW t \in Admitted(frontier)
      PROVE  /\ NotBehind(held, frontier, t) \in 0 .. total
             /\ Ahead(held, frontier, t, high_l) \in 0 .. NotBehind(held, frontier, t)
             /\ OutputPosition(held, frontier, t, high_l)
                  = Ahead(held, frontier, t, high_l) + SortRank(frontier, t)
             /\ CandidateLess(held[q].id, frontier[t]) => q <= Ahead(held, frontier, t, high_l)
             /\ CandidateLess(frontier[t], held[q].id) => q > NotBehind(held, frontier, t)
             /\ t \in AcceptedSlots(held, total, frontier)
                  <=> NotBehind(held, frontier, t) + SortRank(frontier, t) <= limit
  <2>1. frontier[t] \in Nodes
    BY DEF Admitted, FrontierArray, NodeOrNone
  <2>2. /\ NotBehind(held, frontier, t) \in 0 .. total
        /\ Ahead(held, frontier, t, high_l) \in 0 .. NotBehind(held, frontier, t)
    BY <2>1, AheadAreFirst DEF NotBehind, Ahead
  <2>3. /\ CandidateLess(held[q].id, frontier[t]) => q <= Ahead(held, frontier, t, high_l)
        /\ CandidateLess(frontier[t], held[q].id) => q > NotBehind(held, frontier, t)
    BY <2>1, AheadAreFirst DEF NotBehind, Ahead
  <2> QED
    BY <2>2, <2>3 DEF OutputPosition, AcceptedSlots, Ahead, NotBehind
<1> HIDE DEF above, limit, n
<1>5. ASSUME OutputPosition(held, frontier, s, high_l) < p, CandidateLess(held[q].id, frontier[s])
      PROVE  FALSE
  <2>1. s \in above /\ SortRank(frontier, s) <= a
    BY <1>2, <1>3, <1>5 DEF AboveSlots, above
  <2>2. a \in 1 .. n
    BY <1>1, <1>2, <2>1
  <2>3. PICK t \in Admitted(frontier) : SortRank(frontier, t) = a
    BY <2>2, SortRanks DEF n
  <2>4. Ahead(held, frontier, s, high_l) <= Ahead(held, frontier, t, high_l)
    <3>1. CASE SortRank(frontier, s) < SortRank(frontier, t)
      BY <1>3, <3>1, SortRanks, AheadIncreases
    <3>2. CASE SortRank(frontier, s) = SortRank(frontier, t)
      <4>1. s = t
        BY <1>3, <3>2, SortRanks
      <4> QED
        BY <1>3, <1>4, <4>1
    <3> QED
      BY <1>1, <1>2, <2>1, <2>3, <3>1, <3>2
  <2>5. q <= Ahead(held, frontier, s, high_l)
    BY <1>3, <1>4, <1>5
  <2>6. t \in above
    BY <1>1, <1>2, <2>3
  <2>7. OutputPosition(held, frontier, t, high_l) < p
    BY <2>6 DEF AboveSlots, above
  <2>8. Ahead(held, frontier, t, high_l) + a < p
    BY <1>4, <2>3, <2>7
  <2>9. Ahead(held, frontier, t, high_l) \in Nat /\ Ahead(held, frontier, s, high_l) \in Nat
    BY <1>1, <1>3, <1>4
  <2> QED
    BY <1>1, <1>2, <1>3, <2>4, <2>5, <2>8, <2>9
<1>6. ASSUME OutputPosition(held, frontier, s, high_l) > p, CandidateLess(frontier[s], held[q].id)
      PROVE  FALSE
  <2>1. s \notin above
    <3>1. OutputPosition(held, frontier, s, high_l) \in Nat
      BY <1>1, <1>3, <1>4
    <3> QED
      BY <1>1, <1>6, <3>1 DEF AboveSlots, above
  <2>2. SortRank(frontier, s) >= a + 1
    BY <1>1, <1>2, <1>3, <2>1
  <2>3. SortRank(frontier, s) \in 1 .. n
    BY <1>3, SortRanks DEF n
  <2>4. a + 1 \in 1 .. n
    BY <1>2, <2>2, <2>3
  <2>5. PICK t \in Admitted(frontier) : SortRank(frontier, t) = a + 1
    BY <2>4, SortRanks DEF n
  <2>6. NotBehind(held, frontier, t) <= NotBehind(held, frontier, s)
    <3>1. CASE SortRank(frontier, t) < SortRank(frontier, s)
      BY <1>3, <3>1, SortRanks, AheadIncreases
    <3>2. CASE SortRank(frontier, t) = SortRank(frontier, s)
      <4>1. s = t
        BY <1>3, <3>2, SortRanks
      <4> QED
        BY <1>3, <1>4, <4>1
    <3> QED
      BY <1>1, <1>2, <2>2, <2>5, <3>1, <3>2
  <2>7. q > NotBehind(held, frontier, s)
    BY <1>3, <1>4, <1>6
  <2>8. /\ NotBehind(held, frontier, s) + SortRank(frontier, s) <= limit
        /\ NotBehind(held, frontier, s) \in Nat /\ NotBehind(held, frontier, t) \in Nat
        /\ Ahead(held, frontier, t, high_l) \in 0 .. NotBehind(held, frontier, t)
    BY <1>1, <1>3, <1>4
  <2>9. t \in AcceptedSlots(held, total, frontier)
    <3>1. NotBehind(held, frontier, t) + SortRank(frontier, t) <= limit
      BY <1>1, <1>2, <2>2, <2>5, <2>6, <2>8
    <3> QED
      BY <1>4, <3>1
  <2>10. OutputPosition(held, frontier, t, high_l) = Ahead(held, frontier, t, high_l) + (a + 1)
    BY <1>4, <2>5
  <2>11. t \notin above
    BY <1>2, <2>5
  <2>12. ~(OutputPosition(held, frontier, t, high_l) < p)
    BY <2>9, <2>11 DEF AboveSlots, above
  <2>13. OutputPosition(held, frontier, t, high_l) = p
    BY <1>1, <1>2, <1>3, <2>6, <2>7, <2>8, <2>10, <2>12
  <2> QED
    BY <2>9, <2>13 DEF AtSlots
<1> QED
  BY <1>5, <1>6

(* Two old entries that keep places stay in their order.                   *)
LEMMA OldKeepOrder ==
  ASSUME NEW held \in CandidateArray, NEW total \in 0 .. Capacity, InOrder(held, total),
         NEW frontier \in FrontierArray, NEW high_l,
         NEW p \in 1 .. NewValidCount(total, frontier),
         NEW r \in 1 .. NewValidCount(total, frontier), p < r,
         AtSlots(held, total, frontier, high_l, p) = {}
  PROVE  OldPlace(held, total, frontier, high_l, p) < OldPlace(held, total, frontier, high_l, r)
<1> DEFINE Above(x) == AboveSlots(held, total, frontier, high_l, x)
           n == Cardinality(Admitted(frontier))
           a == Cardinality(Above(p))
           b == Cardinality(Above(r))
<1>1. /\ p \in Nat /\ r \in Nat
      /\ \A t : SortRank(frontier, t) \in Nat \ {0}
  BY NewValidCountBounds, SlotsFinite, SizesAssumption
<1>2. /\ a \in 0 .. n /\ b \in 0 .. n /\ n \in Nat
      /\ \A t \in Admitted(frontier) : t \in Above(p) <=> SortRank(frontier, t) <= a
      /\ \A t \in Admitted(frontier) : t \in Above(r) <=> SortRank(frontier, t) <= b
  BY <1>1, AboveRanks, SlotsFinite
<1>3. ASSUME NEW t \in Admitted(frontier)
      PROVE  /\ Ahead(held, frontier, t, high_l) \in Nat
             /\ OutputPosition(held, frontier, t, high_l)
                  = Ahead(held, frontier, t, high_l) + SortRank(frontier, t)
  <2>1. frontier[t] \in Nodes
    BY DEF Admitted, FrontierArray, NodeOrNone
  <2>2. /\ NotBehind(held, frontier, t) \in 0 .. total
        /\ Ahead(held, frontier, t, high_l) \in 0 .. NotBehind(held, frontier, t)
    BY <2>1, AheadAreFirst DEF NotBehind, Ahead
  <2> QED
    BY <2>2 DEF OutputPosition, Ahead
<1> HIDE DEF Above, n
<1>4. CASE b <= a
  BY <1>1, <1>2, <1>4 DEF OldPlace, Above
<1>5. CASE b > a
  <2>1. a + 1 \in 1 .. n /\ b \in 1 .. n
    BY <1>2, <1>5
  <2>2. PICK t \in Admitted(frontier) : SortRank(frontier, t) = a + 1
    BY <2>1, SortRanks DEF n
  <2>3. PICK u \in Admitted(frontier) : SortRank(frontier, u) = b
    BY <2>1, SortRanks DEF n
  <2>4. Ahead(held, frontier, t, high_l) <= Ahead(held, frontier, u, high_l)
    <3>1. CASE SortRank(frontier, t) < SortRank(frontier, u)
      BY <3>1, SortRanks, AheadIncreases
    <3>2. CASE SortRank(frontier, t) = SortRank(frontier, u)
      <4>1. t = u
        BY <3>2, SortRanks
      <4> QED
        BY <1>3, <4>1
    <3> QED
      BY <1>2, <1>5, <2>2, <2>3, <3>1, <3>2
  <2>5. t \notin Above(p) /\ t \in Above(r) /\ u \in Above(r)
    BY <1>2, <1>5, <2>2, <2>3
  <2>6. /\ t \in AcceptedSlots(held, total, frontier)
        /\ OutputPosition(held, frontier, u, high_l) < r
    BY <2>5 DEF Above, AboveSlots
  <2>7. ~(OutputPosition(held, frontier, t, high_l) < p)
    BY <2>5, <2>6 DEF Above, AboveSlots
  <2>8. OutputPosition(held, frontier, t, high_l) # p
    BY <2>6 DEF AtSlots
  <2>9. Ahead(held, frontier, t, high_l) + (a + 1) > p
    BY <1>1, <1>2, <1>3, <2>2, <2>7, <2>8
  <2>10. Ahead(held, frontier, u, high_l) + b < r
    BY <1>3, <2>3, <2>6
  <2>11. Ahead(held, frontier, t, high_l) \in Nat /\ Ahead(held, frontier, u, high_l) \in Nat
    BY <1>3
  <2>12. p - a < r - b
    BY <1>1, <1>2, <2>4, <2>9, <2>10, <2>11
  <2> QED
    BY <2>12 DEF OldPlace, Above
<1> QED
  BY <1>2, <1>4, <1>5

(* A merge leaves the list in order, with NewValidCount valid entries.     *)
LEMMA MergeInOrder ==
  ASSUME NEW held \in CandidateArray, NEW total \in 0 .. Capacity, InOrder(held, total),
         NEW frontier \in FrontierArray, NEW high_l
  PROVE  InOrder(MergeFrontier(held, total, frontier, high_l), NewValidCount(total, frontier))
<1> DEFINE merged == MergeFrontier(held, total, frontier, high_l)
           limit == NewValidCount(total, frontier)
           At(p) == AtSlots(held, total, frontier, high_l, p)
           Old(p) == OldPlace(held, total, frontier, high_l, p)
           Position(s) == OutputPosition(held, frontier, s, high_l)
<1>1. /\ limit \in total .. Capacity /\ Capacity \in Nat /\ total \in Nat /\ limit \in Nat
      /\ 1 .. total \subseteq 1 .. Capacity /\ 1 .. limit \subseteq 1 .. Capacity
  BY NewValidCountBounds, SizesAssumption
<1>2. ASSUME NEW p \in 1 .. limit
      PROVE  \/ \E s \in At(p) : merged[p].id = frontier[s]
             \/ At(p) = {} /\ merged[p] = held[Old(p)] /\ Old(p) \in 1 .. total /\ Old(p) <= p
  BY MergedEntry
<1>3. ASSUME NEW s \in AcceptedSlots(held, total, frontier)
      PROVE  /\ s \in Admitted(frontier) /\ frontier[s] \in Nodes /\ frontier[s] # NoNode
             /\ Position(s) \in Nat
  <2>1. s \in Admitted(frontier) /\ frontier[s] \in Nodes
    BY DEF AcceptedSlots, Admitted, FrontierArray, NodeOrNone
  <2>2. /\ NotBehind(held, frontier, s) \in 0 .. total
        /\ Ahead(held, frontier, s, high_l) \in 0 .. NotBehind(held, frontier, s)
    BY <2>1, AheadAreFirst DEF NotBehind, Ahead
  <2>3. SortRank(frontier, s) \in Nat
    BY SlotsFinite
  <2> QED
    BY <1>1, <2>1, <2>2, <2>3, NodesAssumption DEF OutputPosition, Ahead
<1>4. \A p, s : s \in At(p) <=> s \in AcceptedSlots(held, total, frontier) /\ Position(s) = p
  BY DEF AtSlots
<1>5. ASSUME NEW p \in 1 .. Capacity PROVE IsValid(merged[p]) <=> p <= limit
  <2>1. CASE p <= limit
    <3>1. p \in 1 .. limit
      BY <1>1, <2>1
    <3>2. ASSUME NEW s \in At(p), merged[p].id = frontier[s] PROVE IsValid(merged[p])
      BY <1>3, <1>4, <3>2 DEF IsValid
    <3>3. ASSUME merged[p] = held[Old(p)], Old(p) \in 1 .. total PROVE IsValid(merged[p])
      BY <1>1, <3>3 DEF InOrder
    <3> QED
      BY <1>2, <2>1, <3>1, <3>2, <3>3
  <2>2. CASE p > limit
    <3>1. merged[p] = held[p]
      BY <2>2 DEF MergeFrontier
    <3> QED
      BY <1>1, <2>2, <3>1 DEF InOrder
  <2> QED
    BY <1>1, <2>1, <2>2
<1> HIDE DEF merged, limit, At, Old, Position
<1>6. ASSUME NEW p \in 1 .. limit, NEW r \in 1 .. limit, p < r
      PROVE  ~CandidateLess(merged[r].id, merged[p].id)
  <2>1. CASE \E s \in At(p), t \in At(r) : merged[p].id = frontier[s] /\ merged[r].id = frontier[t]
    <3>1. PICK s \in At(p), t \in At(r) : merged[p].id = frontier[s] /\ merged[r].id = frontier[t]
      BY <2>1
    <3>2. /\ s \in Admitted(frontier) /\ t \in Admitted(frontier)
          /\ Position(s) < Position(t)
      BY <1>1, <1>3, <1>4, <1>6
    <3>3. SUFFICES ASSUME CandidateLess(frontier[t], frontier[s]) PROVE FALSE
      BY <3>1
    <3>4. SortsBefore(frontier, t, s)
      BY <3>3 DEF SortsBefore
    <3>5. /\ Ahead(held, frontier, t, high_l) <= Ahead(held, frontier, s, high_l)
          /\ SortRank(frontier, t) < SortRank(frontier, s)
      BY <3>2, <3>4, AheadIncreases, SortRankIncreases
    <3>6. ASSUME NEW u \in Admitted(frontier)
          PROVE  Ahead(held, frontier, u, high_l) \in Nat /\ SortRank(frontier, u) \in Nat
      <4>1. frontier[u] \in Nodes
        BY DEF Admitted, FrontierArray, NodeOrNone
      <4>2. /\ NotBehind(held, frontier, u) \in 0 .. total
            /\ Ahead(held, frontier, u, high_l) \in 0 .. NotBehind(held, frontier, u)
        BY <4>1, AheadAreFirst DEF NotBehind, Ahead
      <4> QED
        BY <4>2, SlotsFinite
    <3> QED
      BY <3>2, <3>5, <3>6 DEF Position, OutputPosition, Ahead
  <2>2. CASE \E s \in At(p) : /\ merged[p].id = frontier[s] /\ At(r) = {}
                              /\ merged[r] = held[Old(r)] /\ Old(r) \in 1 .. total
    <3>1. PICK s \in At(p) : merged[p].id = frontier[s]
      BY <2>2
    <3>2. s \in AcceptedSlots(held, total, frontier) /\ Position(s) < r
      BY <1>4, <1>6, <3>1
    <3> QED
      BY <2>2, <3>1, <3>2, OldFitsBetween DEF At, Old, Position, limit
  <2>3. CASE \E t \in At(r) : /\ merged[r].id = frontier[t] /\ At(p) = {}
                              /\ merged[p] = held[Old(p)] /\ Old(p) \in 1 .. total
    <3>1. PICK t \in At(r) : merged[r].id = frontier[t]
      BY <2>3
    <3>2. t \in AcceptedSlots(held, total, frontier) /\ Position(t) > p
      BY <1>4, <1>6, <3>1
    <3> QED
      BY <2>3, <3>1, <3>2, OldFitsBetween DEF At, Old, Position, limit
  <2>4. CASE /\ At(p) = {} /\ merged[p] = held[Old(p)] /\ Old(p) \in 1 .. total
             /\ At(r) = {} /\ merged[r] = held[Old(r)] /\ Old(r) \in 1 .. total
    <3>1. Old(p) < Old(r)
      BY <1>6, <2>4, OldKeepOrder DEF At, Old, limit
    <3> QED
      BY <2>4, <3>1 DEF InOrder
  <2> QED
    BY <1>2, <2>1, <2>2, <2>3, <2>4
<1> QED
  BY <1>5, <1>6 DEF InOrder, merged, limit

(* No place of the list gets a worse entry.                                *)
LEMMA MergeNearer ==
  ASSUME NEW held \in CandidateArray, NEW total \in 0 .. Capacity, InOrder(held, total),
         NEW frontier \in FrontierArray, NEW high_l, NEW p \in 1 .. Capacity
  PROVE  ~CandidateLess(held[p].id, MergeFrontier(held, total, frontier, high_l)[p].id)
<1> DEFINE merged == MergeFrontier(held, total, frontier, high_l)
           limit == NewValidCount(total, frontier)
           q == OldPlace(held, total, frontier, high_l, p)
<1>1. limit \in total .. Capacity /\ Capacity \in Nat /\ total \in Nat
  BY NewValidCountBounds, SizesAssumption
<1>2. CASE p > total
  BY <1>1, <1>2 DEF InOrder, IsValid, CandidateLess
<1>3. CASE p <= total
  <2>1. p \in 1 .. limit /\ p \in 1 .. total
    BY <1>1, <1>3
  <2>2. ASSUME NEW s \in AtSlots(held, total, frontier, high_l, p), merged[p].id = frontier[s]
        PROVE  ~CandidateLess(held[p].id, merged[p].id)
    <3>1. /\ s \in Admitted(frontier) /\ frontier[s] \in Nodes
          /\ OutputPosition(held, frontier, s, high_l) = p
      BY DEF AtSlots, AcceptedSlots, Admitted, FrontierArray, NodeOrNone
    <3>2. /\ NotBehind(held, frontier, s) \in 0 .. total
          /\ Ahead(held, frontier, s, high_l) \in 0 .. NotBehind(held, frontier, s)
          /\ CandidateLess(held[p].id, frontier[s]) => p <= Ahead(held, frontier, s, high_l)
      BY <2>1, <3>1, AheadAreFirst DEF NotBehind, Ahead
    <3>3. SortRank(frontier, s) \in Nat \ {0}
      BY SlotsFinite
    <3>4. p = Ahead(held, frontier, s, high_l) + SortRank(frontier, s)
      BY <3>1 DEF OutputPosition, Ahead
    <3> QED
      BY <1>1, <2>2, <3>2, <3>3, <3>4
  <2>3. ASSUME merged[p] = held[q], q \in 1 .. total, q <= p
        PROVE  ~CandidateLess(held[p].id, merged[p].id)
    <3>1. CASE q = p
      <4>1. held[p].id \in NodeOrNone
        BY DEF CandidateArray, Candidate
      <4> QED
        BY <2>3, <3>1, <4>1, CandidateOrder
    <3>2. CASE q < p
      BY <2>1, <2>3, <3>2 DEF InOrder
    <3> QED
      BY <1>1, <2>3, <3>1, <3>2
  <2> QED
    BY <2>1, <2>2, <2>3, MergedEntry
<1> QED
  BY <1>1, <1>2, <1>3
-----------------------------------------------------------------------------
(* Whatever the merge leaves out is no nearer than anything it keeps: each *)
(* node of the list or of the frontier has a place, or the array is full   *)
(* of entries that are not behind it.                                      *)

(* Where an admitted slot goes, and when it is accepted.                   *)
LEMMA SlotPosition ==
  ASSUME NEW held \in CandidateArray, NEW total \in 0 .. Capacity, InOrder(held, total),
         NEW frontier \in FrontierArray, NEW high_l, NEW s \in Admitted(frontier)
  PROVE  /\ frontier[s] \in Nodes
         /\ NotBehind(held, frontier, s) \in 0 .. total
         /\ Ahead(held, frontier, s, high_l) \in 0 .. NotBehind(held, frontier, s)
         /\ SortRank(frontier, s) \in 1 .. Cardinality(Admitted(frontier))
         /\ OutputPosition(held, frontier, s, high_l)
              = Ahead(held, frontier, s, high_l) + SortRank(frontier, s)
         /\ s \in AcceptedSlots(held, total, frontier) <=>
              NotBehind(held, frontier, s) + SortRank(frontier, s)
                <= NewValidCount(total, frontier)
<1>1. frontier[s] \in Nodes
  BY DEF Admitted, FrontierArray, NodeOrNone
<1>2. NotBehind(held, frontier, s) \in 0 .. total
  BY <1>1, AheadAreFirst DEF NotBehind
<1>3. Ahead(held, frontier, s, high_l) \in 0 .. NotBehind(held, frontier, s)
  BY <1>1, AheadAreFirst DEF NotBehind, Ahead
<1>4. SortRank(frontier, s) \in 1 .. Cardinality(Admitted(frontier))
  BY SortRanks
<1> QED
  BY <1>1, <1>2, <1>3, <1>4 DEF AcceptedSlots, OutputPosition, Ahead, NotBehind

LEMMA NewKeepsPlace ==
  ASSUME NEW held \in CandidateArray, NEW total \in 0 .. Capacity, InOrder(held, total),
         NEW frontier \in FrontierArray, NEW high_l,
         NEW s \in AcceptedSlots(held, total, frontier)
  PROVE  \E p \in 1 .. NewValidCount(total, frontier) :
           MergeFrontier(held, total, frontier, high_l)[p].id = frontier[s]
<1> DEFINE limit == NewValidCount(total, frontier)
           p == OutputPosition(held, frontier, s, high_l)
<1>1. limit \in Nat /\ Cardinality(Admitted(frontier)) \in Nat
  BY NewValidCountBounds, SlotsFinite, SizesAssumption
<1>2. s \in Admitted(frontier)
  BY DEF AcceptedSlots
<1>3. p \in 1 .. limit /\ s \in AtSlots(held, total, frontier, high_l, p)
  <2>1. /\ NotBehind(held, frontier, s) \in 0 .. total
        /\ Ahead(held, frontier, s, high_l) \in 0 .. NotBehind(held, frontier, s)
        /\ SortRank(frontier, s) \in 1 .. Cardinality(Admitted(frontier))
        /\ p = Ahead(held, frontier, s, high_l) + SortRank(frontier, s)
        /\ NotBehind(held, frontier, s) + SortRank(frontier, s) <= limit
    BY <1>2, SlotPosition
  <2>2. p \in 1 .. limit
    BY <1>1, <2>1, SizesAssumption
  <2> QED
    BY <2>2 DEF AtSlots
<1>4. PICK t \in AtSlots(held, total, frontier, high_l, p) :
        MergeFrontier(held, total, frontier, high_l)[p].id = frontier[t]
  BY <1>3, MergedEntry
<1>5. t \in Admitted(frontier) /\ OutputPosition(held, frontier, t, high_l) = p
  BY DEF AtSlots, AcceptedSlots
<1>6. ASSUME NEW a \in Admitted(frontier), NEW b \in Admitted(frontier),
             SortsBefore(frontier, a, b)
      PROVE  OutputPosition(held, frontier, a, high_l) < OutputPosition(held, frontier, b, high_l)
  <2>1. SortRank(frontier, a) < SortRank(frontier, b)
    BY <1>6, SortRankIncreases
  <2>2. Ahead(held, frontier, a, high_l) <= Ahead(held, frontier, b, high_l)
    BY <1>6, AheadIncreases
  <2>3. /\ Ahead(held, frontier, a, high_l) \in Nat /\ Ahead(held, frontier, b, high_l) \in Nat
        /\ SortRank(frontier, a) \in Nat /\ SortRank(frontier, b) \in Nat
    BY SlotPosition, SlotsFinite, SizesAssumption
  <2> QED
    BY <2>1, <2>2, <2>3, SlotPosition
<1>7. t = s
  <2>1. OutputPosition(held, frontier, s, high_l) \in Nat
    BY <1>1, <1>3
  <2> QED
    BY <1>2, <1>5, <1>6, <2>1, SlotOrder
<1> QED
  BY <1>3, <1>4, <1>7

LEMMA NewDropped ==
  ASSUME NEW held \in CandidateArray, NEW total \in 0 .. Capacity, InOrder(held, total),
         NEW frontier \in FrontierArray, NEW high_l,
         NEW s \in Admitted(frontier), s \notin AcceptedSlots(held, total, frontier)
  PROVE  /\ NewValidCount(total, frontier) = Capacity
         /\ ~CandidateLess(frontier[s], MergeFrontier(held, total, frontier, high_l)[Capacity].id)
<1> DEFINE limit == NewValidCount(total, frontier)
           n == Cardinality(Admitted(frontier))
           merged == MergeFrontier(held, total, frontier, high_l)
           above == AboveSlots(held, total, frontier, high_l, Capacity)
           a == Cardinality(above)
           q == OldPlace(held, total, frontier, high_l, Capacity)
<1>1. /\ n \in Nat /\ limit \in Nat /\ Capacity \in Nat \ {0} /\ total \in Nat
      /\ limit = SmallerOf(Capacity, total + n)
  BY NewValidCountBounds, SlotsFinite, SizesAssumption DEF NewValidCount
<1>2. /\ NotBehind(held, frontier, s) \in 0 .. total /\ SortRank(frontier, s) \in 1 .. n
      /\ NotBehind(held, frontier, s) + SortRank(frontier, s) > limit
      /\ frontier[s] \in Nodes
  <2>1. NotBehind(held, frontier, s) \in 0 .. total /\ SortRank(frontier, s) \in 1 .. n
        /\ frontier[s] \in Nodes
    BY SlotPosition
  <2>2. ~(NotBehind(held, frontier, s) + SortRank(frontier, s) <= limit)
    BY SlotPosition
  <2> QED
    BY <1>1, <2>1, <2>2
<1>3. limit = Capacity
  BY <1>1, <1>2 DEF SmallerOf
<1>4. Capacity \in 1 .. limit
  BY <1>1, <1>3
<1>5. ASSUME NEW t \in Admitted(frontier), SortRank(frontier, t) <= SortRank(frontier, s)
      PROVE  ~CandidateLess(frontier[s], frontier[t])
  <2>1. SortRank(frontier, t) \in Nat /\ SortRank(frontier, s) \in Nat
    BY SlotsFinite
  <2>2. t = s \/ SortsBefore(frontier, t, s)
    BY <1>5, <2>1, SortRanks
  <2>3. frontier[t] \in NodeOrNone /\ frontier[s] \in NodeOrNone
    BY DEF Admitted, FrontierArray
  <2>4. CandidateLess(frontier[t], frontier[s]) \/ frontier[t] = frontier[s]
    BY <2>2 DEF SortsBefore
  <2> QED
    BY <2>3, <2>4, CandidateOrder
<1>6. ASSUME NEW t \in AtSlots(held, total, frontier, high_l, Capacity),
             merged[Capacity].id = frontier[t]
      PROVE  ~CandidateLess(frontier[s], merged[Capacity].id)
  <2>1. t \in Admitted(frontier) /\ t \in AcceptedSlots(held, total, frontier)
    BY DEF AtSlots, AcceptedSlots
  <2>2. ~SortsBefore(frontier, s, t)
    <3> SUFFICES ASSUME SortsBefore(frontier, s, t) PROVE FALSE
      OBVIOUS
    <3>1. SortRank(frontier, s) < SortRank(frontier, t)
          /\ NotBehind(held, frontier, s) <= NotBehind(held, frontier, t)
      BY <2>1, SortRankIncreases, AheadIncreases
    <3>2. /\ NotBehind(held, frontier, t) + SortRank(frontier, t) <= limit
          /\ NotBehind(held, frontier, t) \in Nat /\ SortRank(frontier, t) \in Nat
      BY <1>1, <2>1, SlotPosition
    <3> QED
      BY <1>1, <1>2, <3>1, <3>2
  <2>3. s = t \/ SortsBefore(frontier, t, s)
    BY <2>1, <2>2, SlotOrder
  <2>4. SortRank(frontier, t) <= SortRank(frontier, s)
    <3>1. SortRank(frontier, t) \in Nat /\ SortRank(frontier, s) \in Nat
      BY SlotsFinite
    <3> QED
      BY <2>1, <2>3, <3>1, SortRankIncreases
  <2> QED
    BY <1>5, <1>6, <2>1, <2>4
<1>7. ASSUME AtSlots(held, total, frontier, high_l, Capacity) = {},
             merged[Capacity] = held[q], q \in 1 .. total
      PROVE  ~CandidateLess(frontier[s], merged[Capacity].id)
  <2>1. a \in 0 .. n /\ \A t \in Admitted(frontier) : t \in above <=> SortRank(frontier, t) <= a
    BY <1>1, AboveRanks
  <2>2. s \notin above
    BY DEF AboveSlots
  <2>3. a + 1 \in 1 .. n /\ a + 1 <= SortRank(frontier, s)
    BY <1>1, <1>2, <2>1, <2>2
  <2>4. PICK t \in Admitted(frontier) : SortRank(frontier, t) = a + 1
    BY <2>3, SortRanks
  <2>5. t \notin AcceptedSlots(held, total, frontier)
    <3> SUFFICES ASSUME t \in AcceptedSlots(held, total, frontier) PROVE FALSE
      OBVIOUS
    <3>1. t \notin above
      BY <2>1, <2>4
    <3>2. ~(OutputPosition(held, frontier, t, high_l) < Capacity)
          /\ OutputPosition(held, frontier, t, high_l) # Capacity
      BY <1>7, <3>1 DEF AboveSlots, AtSlots
    <3>3. /\ Ahead(held, frontier, t, high_l) \in 0 .. NotBehind(held, frontier, t)
          /\ NotBehind(held, frontier, t) \in 0 .. total
          /\ NotBehind(held, frontier, t) + (a + 1) <= limit
          /\ OutputPosition(held, frontier, t, high_l) = Ahead(held, frontier, t, high_l) + (a + 1)
      BY <2>4, SlotPosition
    <3> QED
      BY <1>1, <1>3, <2>1, <3>2, <3>3
  <2>6. NotBehind(held, frontier, t) + (a + 1) > limit /\ NotBehind(held, frontier, t) \in 0 .. total
    <3>1. ~(NotBehind(held, frontier, t) + (a + 1) <= limit) /\ NotBehind(held, frontier, t) \in 0 .. total
      BY <2>4, <2>5, SlotPosition
    <3> QED
      BY <1>1, <2>1, <3>1
  <2>7. q <= NotBehind(held, frontier, t)
    BY <1>1, <1>3, <2>1, <2>6 DEF OldPlace
  <2>8. ~CandidateLess(frontier[t], held[q].id)
    <3>1. frontier[t] \in Nodes
      BY SlotPosition
    <3>2. CandidateLess(frontier[t], held[q].id) => q > NotBehind(held, frontier, t)
      BY <1>7, <3>1, AheadAreFirst DEF NotBehind
    <3> QED
      BY <1>1, <1>7, <2>6, <2>7, <3>2
  <2>9. ~CandidateLess(frontier[s], frontier[t])
    BY <1>5, <2>3, <2>4
  <2>10. frontier[s] \in NodeOrNone /\ frontier[t] \in NodeOrNone /\ held[q].id \in NodeOrNone
    <3>1. q \in 1 .. Capacity
      BY <1>1, <1>7
    <3> QED
      BY <3>1 DEF Admitted, FrontierArray, CandidateArray, Candidate
  <2> QED
    BY <1>7, <2>8, <2>9, <2>10, CandidateOrder
<1> QED
  BY <1>3, <1>4, <1>6, <1>7, MergedEntry

(* An old entry keeps a place, behind the accepted slots that belong in    *)
(* front of it, or that place is past the end of a full array.             *)
LEMMA OldKeepsPlace ==
  ASSUME NEW held \in CandidateArray, NEW total \in 0 .. Capacity, InOrder(held, total),
         NEW frontier \in FrontierArray, NEW high_l, NEW i \in 1 .. total
  PROVE  LET merged == MergeFrontier(held, total, frontier, high_l)
         IN  \/ \E p \in 1 .. NewValidCount(total, frontier) : merged[p] = held[i]
             \/ /\ NewValidCount(total, frontier) = Capacity
                /\ ~CandidateLess(held[i].id, merged[Capacity].id)
<1> DEFINE limit == NewValidCount(total, frontier)
           n == Cardinality(Admitted(frontier))
           merged == MergeFrontier(held, total, frontier, high_l)
           inFront == {s \in AcceptedSlots(held, total, frontier) :
                         Ahead(held, frontier, s, high_l) < i}
           b == Cardinality(inFront)
           p == i + b
<1>1. /\ n \in Nat /\ limit \in Nat /\ Capacity \in Nat \ {0} /\ total \in Nat
      /\ limit = SmallerOf(Capacity, total + n) /\ i \in Nat /\ limit >= total
  BY NewValidCountBounds, SlotsFinite, SizesAssumption DEF NewValidCount
<1>2. ASSUME NEW s \in Admitted(frontier)
      PROVE  /\ NotBehind(held, frontier, s) \in Nat
             /\ Ahead(held, frontier, s, high_l) \in Nat
             /\ Ahead(held, frontier, s, high_l) <= NotBehind(held, frontier, s)
             /\ SortRank(frontier, s) \in 1 .. n
             /\ OutputPosition(held, frontier, s, high_l)
                  = Ahead(held, frontier, s, high_l) + SortRank(frontier, s)
             /\ s \in AcceptedSlots(held, total, frontier) <=>
                  NotBehind(held, frontier, s) + SortRank(frontier, s) <= limit
  <2>1. /\ NotBehind(held, frontier, s) \in 0 .. total
        /\ Ahead(held, frontier, s, high_l) \in 0 .. NotBehind(held, frontier, s)
    BY SlotPosition
  <2> QED
    BY <1>1, <2>1, SlotPosition
<1>3. inFront \subseteq Admitted(frontier)
  BY DEF AcceptedSlots
<1>4. ASSUME NEW s \in inFront, NEW t \in Admitted(frontier),
             SortRank(frontier, t) < SortRank(frontier, s)
      PROVE  t \in inFront
  <2>1. SortsBefore(frontier, t, s)
    BY <1>3, <1>4, SortRanks
  <2>2. /\ Ahead(held, frontier, t, high_l) <= Ahead(held, frontier, s, high_l)
        /\ NotBehind(held, frontier, t) <= NotBehind(held, frontier, s)
    BY <1>3, <2>1, AheadIncreases
  <2>3. /\ NotBehind(held, frontier, s) + SortRank(frontier, s) <= limit
        /\ Ahead(held, frontier, s, high_l) < i
        /\ NotBehind(held, frontier, s) \in Nat /\ Ahead(held, frontier, s, high_l) \in Nat
        /\ SortRank(frontier, s) \in Nat
    BY <1>2, <1>3
  <2>4. /\ NotBehind(held, frontier, t) \in Nat /\ Ahead(held, frontier, t, high_l) \in Nat
        /\ SortRank(frontier, t) \in Nat
    BY <1>2
  <2>5. /\ NotBehind(held, frontier, t) + SortRank(frontier, t) <= limit
        /\ Ahead(held, frontier, t, high_l) < i
    BY <1>1, <1>4, <2>2, <2>3, <2>4
  <2> QED
    BY <1>2, <2>5
<1>5. /\ b \in 0 .. n
      /\ \A s \in Admitted(frontier) : s \in inFront <=> SortRank(frontier, s) <= b
  <2> HIDE DEF inFront
  <2> QED
    BY <1>3, <1>4, FirstSlots
<1>6. ASSUME NEW s \in AcceptedSlots(held, total, frontier)
      PROVE  /\ s \in Admitted(frontier)
             /\ OutputPosition(held, frontier, s, high_l) \in Nat
             /\ s \in inFront => OutputPosition(held, frontier, s, high_l) < p
             /\ s \notin inFront => OutputPosition(held, frontier, s, high_l) > p
  <2>1. s \in Admitted(frontier)
    BY DEF AcceptedSlots
  <2>2. s \in inFront <=> Ahead(held, frontier, s, high_l) < i
    OBVIOUS
  <2>3. s \in inFront <=> SortRank(frontier, s) <= b
    BY <1>5, <2>1
  <2> HIDE DEF inFront
  <2> QED
    BY <1>1, <1>2, <1>5, <2>1, <2>2, <2>3
<1>7. CASE p <= limit
  <2>1. p \in 1 .. limit
    BY <1>1, <1>5, <1>7
  <2>2. AtSlots(held, total, frontier, high_l, p) = {}
    <3>1. ASSUME NEW s \in AcceptedSlots(held, total, frontier),
                 OutputPosition(held, frontier, s, high_l) = p
          PROVE  FALSE
      <4>1. p \in Nat
        BY <2>1, <1>1
      <4> HIDE DEF p, inFront
      <4> QED
        BY <1>6, <3>1, <4>1
    <3> QED
      BY <3>1 DEF AtSlots
  <2>3. AboveSlots(held, total, frontier, high_l, p) = inFront
    <3>1. ASSUME NEW s \in AcceptedSlots(held, total, frontier)
          PROVE  OutputPosition(held, frontier, s, high_l) < p <=> s \in inFront
      <4>1. p \in Nat
        BY <2>1, <1>1
      <4> HIDE DEF p, inFront
      <4> QED
        BY <1>6, <4>1
    <3> QED
      BY <3>1 DEF AboveSlots
  <2>4. OldPlace(held, total, frontier, high_l, p) = i
    <3>1. OldPlace(held, total, frontier, high_l, p) = p - b
      BY <2>3 DEF OldPlace
    <3> HIDE DEF inFront
    <3> QED
      BY <1>1, <1>5, <3>1
  <2>5. merged[p] = held[i]
    BY <2>1, <2>2, <2>4, MergedEntry
  <2> QED
    BY <2>1, <2>5
<1>8. CASE p > limit
  <2> DEFINE a == Cardinality(AboveSlots(held, total, frontier, high_l, Capacity))
             q == OldPlace(held, total, frontier, high_l, Capacity)
  <2>1. limit = Capacity /\ Capacity \in 1 .. limit
    <3> HIDE DEF inFront
    <3> QED
      BY <1>1, <1>5, <1>8 DEF SmallerOf
  <2>2. ASSUME NEW s \in AtSlots(held, total, frontier, high_l, Capacity),
               merged[Capacity].id = frontier[s], CandidateLess(held[i].id, frontier[s])
        PROVE  FALSE
    <3>1. /\ s \in AcceptedSlots(held, total, frontier)
          /\ OutputPosition(held, frontier, s, high_l) = Capacity
      BY DEF AtSlots
    <3>2. s \in Admitted(frontier) /\ frontier[s] \in Nodes
      BY <1>6, <3>1, SlotPosition
    <3>3. i <= Ahead(held, frontier, s, high_l)
      BY <2>2, <3>2, AheadAreFirst DEF Ahead
    <3>4. s \notin inFront
      BY <1>1, <1>2, <3>2, <3>3
    <3>5. Capacity > p
      BY <1>6, <3>1, <3>4
    <3> HIDE DEF inFront
    <3> QED
      BY <1>1, <1>5, <1>8, <2>1, <3>5
  <2>3. ASSUME AtSlots(held, total, frontier, high_l, Capacity) = {},
               merged[Capacity] = held[q], q \in 1 .. total
        PROVE  ~CandidateLess(held[i].id, merged[Capacity].id)
    <3>1. /\ a \in 0 .. n
          /\ \A t \in Admitted(frontier) :
               t \in AboveSlots(held, total, frontier, high_l, Capacity)
                 <=> SortRank(frontier, t) <= a
      BY <1>1, AboveRanks
    <3>2. q = Capacity - a
      BY DEF OldPlace
    <3>3. ASSUME q > i PROVE FALSE
      <4>1. a + 1 <= b /\ a + 1 \in 1 .. n /\ i + a < Capacity
        <5> HIDE DEF inFront, a, q
        <5> QED
          BY <1>1, <1>5, <1>8, <2>1, <3>1, <3>2, <3>3
      <4>2. PICK t \in Admitted(frontier) : SortRank(frontier, t) = a + 1
        BY <4>1, SortRanks
      <4>3. t \in inFront
        BY <1>5, <4>1, <4>2
      <4>4. t \notin AboveSlots(held, total, frontier, high_l, Capacity)
        BY <3>1, <4>2
      <4>5. /\ ~(OutputPosition(held, frontier, t, high_l) < Capacity)
            /\ OutputPosition(held, frontier, t, high_l) # Capacity
        BY <2>3, <4>3, <4>4 DEF AboveSlots, AtSlots
      <4>6. Ahead(held, frontier, t, high_l) < i
        BY <4>3
      <4>7. /\ OutputPosition(held, frontier, t, high_l)
                 = Ahead(held, frontier, t, high_l) + (a + 1)
            /\ Ahead(held, frontier, t, high_l) \in Nat
        BY <1>2, <4>2
      <4> QED
        BY <1>1, <3>1, <4>1, <4>5, <4>6, <4>7
    <3>4. CASE q = i
      <4>1. held[i].id \in NodeOrNone
        <5>1. i \in 1 .. Capacity
          BY <1>1
        <5> QED
          BY <5>1 DEF CandidateArray, Candidate
      <4> QED
        BY <2>3, <3>4, <4>1, CandidateOrder
    <3>5. CASE q < i
      BY <2>3, <3>5 DEF InOrder
    <3> QED
      BY <1>1, <2>3, <3>3, <3>4, <3>5
  <2> QED
    BY <2>1, <2>2, <2>3, MergedEntry
<1>9. p <= limit \/ p > limit
  <2> HIDE DEF inFront
  <2> QED
    BY <1>1, <1>5
<1> QED
  BY <1>7, <1>8, <1>9
-----------------------------------------------------------------------------
(* What this says of the prefix.  A node is settled when it is in the      *)
(* prefix, or the prefix is full of nodes that are not behind it.          *)
InPrefixOf(held, total, m) == \E i \in PrefixRanks(total) : held[i].id = m

SettledIn(held, total, m) ==
  InPrefixOf(held, total, m) \/ (total >= TopL /\ ~CandidateLess(m, held[TopL].id))

LEMMA PrefixRange ==
  ASSUME NEW total \in 0 .. Capacity
  PROVE  /\ total \in Nat /\ TopL \in Nat \ {0} /\ Capacity \in Nat /\ TopL \in 1 .. Capacity
         /\ \A i : i \in PrefixRanks(total) <=> i \in 1 .. TopL /\ i <= total
         /\ \A i \in PrefixRanks(total) : i \in Nat \ {0} /\ i \in 1 .. total /\ i \in 1 .. Capacity
BY SizesAssumption DEF PrefixRanks, SmallerOf

(* Whoever has a place in an ordered list is settled, and so is whoever is *)
(* not nearer than one of its entries at or behind the end of the prefix.  *)
LEMMA PlaceSettles ==
  ASSUME NEW held \in CandidateArray, NEW total \in 0 .. Capacity, InOrder(held, total),
         NEW m \in NodeOrNone, NEW p \in 1 .. total,
         held[p].id = m \/ (p >= TopL /\ ~CandidateLess(m, held[p].id))
  PROVE  SettledIn(held, total, m)
<1>1. /\ total \in Nat /\ TopL \in 1 .. Capacity /\ p \in Nat /\ p \in 1 .. Capacity
      /\ \A i : i \in PrefixRanks(total) <=> i \in 1 .. TopL /\ i <= total
  BY PrefixRange
<1>2. \A i \in 1 .. Capacity : held[i].id \in NodeOrNone
  BY DEF CandidateArray, Candidate
<1>3. CASE p <= TopL /\ held[p].id = m
  <2>1. p \in PrefixRanks(total)
    BY <1>1, <1>3
  <2> QED
    BY <1>3, <2>1 DEF SettledIn, InPrefixOf
<1>4. CASE p >= TopL /\ ~CandidateLess(m, held[p].id)
  <2>1. TopL \in 1 .. total /\ total >= TopL
    BY <1>1, <1>4
  <2>2. ~CandidateLess(held[p].id, held[TopL].id)
    <3>1. CASE p = TopL
      BY <1>1, <1>2, <3>1, CandidateOrder
    <3>2. CASE TopL < p
      BY <2>1, <3>2 DEF InOrder
    <3> QED
      BY <1>1, <1>4, <3>1, <3>2
  <2>3. ~CandidateLess(m, held[TopL].id)
    BY <1>1, <1>2, <1>4, <2>2, CandidateOrder
  <2> QED
    BY <2>1, <2>3 DEF SettledIn
<1>5. CASE ~(p <= TopL) /\ held[p].id = m
  <2>1. ~CandidateLess(m, held[p].id)
    BY <1>1, <1>2, <1>5, CandidateOrder
  <2> QED
    BY <1>1, <1>4, <1>5, <2>1
<1> QED
  BY <1>1, <1>3, <1>4, <1>5

(* A merge keeps settled what was, and settles every admitted node.        *)
LEMMA MergeSettles ==
  ASSUME NEW held \in CandidateArray, NEW total \in 0 .. Capacity, InOrder(held, total),
         NEW frontier \in FrontierArray, NEW high_l, NEW m \in NodeOrNone,
         SettledIn(held, total, m) \/ \E s \in Admitted(frontier) : frontier[s] = m
  PROVE  SettledIn(MergeFrontier(held, total, frontier, high_l),
                   NewValidCount(total, frontier), m)
<1> DEFINE limit == NewValidCount(total, frontier)
           merged == MergeFrontier(held, total, frontier, high_l)
<1>1. /\ merged \in CandidateArray /\ InOrder(merged, limit)
      /\ limit \in total .. Capacity /\ limit \in 0 .. Capacity /\ limit \in Nat
      /\ total \in Nat /\ TopL \in 1 .. Capacity /\ Capacity \in Nat
  BY MergeType, MergeInOrder, NewValidCountBounds, SizesAssumption
<1>2. ASSUME NEW p \in 1 .. limit,
             merged[p].id = m \/ (p >= TopL /\ ~CandidateLess(m, merged[p].id))
      PROVE  SettledIn(merged, limit, m)
  <2> HIDE DEF merged, limit
  <2> QED
    BY <1>1, <1>2, PlaceSettles
<1>3. ASSUME limit = Capacity, ~CandidateLess(m, merged[Capacity].id)
      PROVE  SettledIn(merged, limit, m)
  <2>1. Capacity \in 1 .. limit /\ Capacity >= TopL
    BY <1>1, <1>3
  <2> QED
    BY <1>2, <1>3, <2>1
<1>4. CASE InPrefixOf(held, total, m)
  <2>1. PICK i \in PrefixRanks(total) : held[i].id = m
    BY <1>4 DEF InPrefixOf
  <2>2. i \in 1 .. total
    BY PrefixRange
  <2>3. ASSUME NEW p \in 1 .. limit, merged[p] = held[i] PROVE merged[p].id = m
    BY <2>1, <2>3
  <2> QED
    BY <1>2, <1>3, <2>1, <2>2, <2>3, OldKeepsPlace
<1>5. CASE total >= TopL /\ ~CandidateLess(m, held[TopL].id)
  <2>1. TopL \in 1 .. limit /\ TopL >= TopL
    BY <1>1, <1>5
  <2>2. ~CandidateLess(held[TopL].id, merged[TopL].id)
    BY <1>1, MergeNearer
  <2>3. held[TopL].id \in NodeOrNone /\ merged[TopL].id \in NodeOrNone
    <3> HIDE DEF merged
    <3> QED
      BY <1>1 DEF CandidateArray, Candidate
  <2>4. ~CandidateLess(m, merged[TopL].id)
    BY <1>5, <2>2, <2>3, CandidateOrder
  <2> QED
    BY <1>2, <2>1, <2>4
<1>6. CASE \E s \in Admitted(frontier) : frontier[s] = m
  <2>1. PICK s \in Admitted(frontier) : frontier[s] = m
    BY <1>6
  <2>2. CASE s \in AcceptedSlots(held, total, frontier)
    BY <1>2, <2>1, <2>2, NewKeepsPlace
  <2>3. CASE s \notin AcceptedSlots(held, total, frontier)
    BY <1>3, <2>1, <2>3, NewDropped
  <2> QED
    BY <2>2, <2>3
<1> QED
  BY <1>4, <1>5, <1>6 DEF SettledIn

(* Where an entry of a merged prefix comes from: the frontier, and then it *)
(* is nearer than the entries behind its place were; or the old prefix.    *)
LEMMA PrefixOrigin ==
  ASSUME NEW held \in CandidateArray, NEW total \in 0 .. Capacity, InOrder(held, total),
         NEW frontier \in FrontierArray, NEW high_l,
         NEW p \in PrefixRanks(NewValidCount(total, frontier))
  PROVE  LET merged == MergeFrontier(held, total, frontier, high_l)
             q == OldPlace(held, total, frontier, high_l, p)
         IN  \/ \E s \in AtSlots(held, total, frontier, high_l, p) :
                  /\ s \in Admitted(frontier)
                  /\ merged[p] = [id |-> frontier[s], expanded |-> FALSE]
                  /\ total >= TopL => ~CandidateLess(held[TopL].id, frontier[s])
             \/ /\ AtSlots(held, total, frontier, high_l, p) = {}
                /\ merged[p] = held[q] /\ q \in PrefixRanks(total)
<1> DEFINE limit == NewValidCount(total, frontier)
           merged == MergeFrontier(held, total, frontier, high_l)
           at == AtSlots(held, total, frontier, high_l, p)
           q == OldPlace(held, total, frontier, high_l, p)
<1>1. limit \in 0 .. Capacity /\ limit \in Nat
  BY NewValidCountBounds, SizesAssumption
<1>2. p \in 1 .. limit /\ p \in 1 .. TopL /\ p \in 1 .. Capacity
  <2> HIDE DEF limit
  <2> QED
    BY <1>1, PrefixRange DEF limit
<1>3. CASE at # {}
  <2>1. PICK s \in at : s = CHOOSE t \in at : TRUE
    BY <1>3
  <2>2. /\ s \in Admitted(frontier) /\ s \in AcceptedSlots(held, total, frontier)
        /\ OutputPosition(held, frontier, s, high_l) = p
    BY DEF AtSlots, AcceptedSlots
  <2>3. merged[p] = [id |-> frontier[s], expanded |-> FALSE]
    <3>1. ~(p > limit)
      BY <1>1, <1>2
    <3> QED
      BY <1>2, <1>3, <2>1, <3>1 DEF MergeFrontier, AtSlots
  <2>4. ASSUME total >= TopL, CandidateLess(held[TopL].id, frontier[s]) PROVE FALSE
    <3>1. TopL \in 1 .. total
      BY <2>4, SizesAssumption
    <3>2. frontier[s] \in Nodes
      BY <2>2, SlotPosition
    <3>3. TopL <= Ahead(held, frontier, s, high_l)
      BY <2>4, <3>1, <3>2, AheadAreFirst DEF Ahead
    <3>4. /\ SortRank(frontier, s) \in 1 .. Cardinality(Admitted(frontier))
          /\ Ahead(held, frontier, s, high_l) \in 0 .. NotBehind(held, frontier, s)
          /\ NotBehind(held, frontier, s) \in 0 .. total
          /\ p = Ahead(held, frontier, s, high_l) + SortRank(frontier, s)
      BY <2>2, SlotPosition
    <3> QED
      BY <1>2, <3>1, <3>3, <3>4
  <2> QED
    BY <2>2, <2>3, <2>4
<1>4. CASE at = {}
  <2>1. merged[p] = held[q] /\ q \in 1 .. total /\ q <= p
    BY <1>2, <1>4, MergedEntry
  <2>2. q \in PrefixRanks(total)
    <3> HIDE DEF q
    <3> QED
      BY <1>2, <2>1, PrefixRange
  <2> QED
    BY <1>4, <2>1, <2>2
<1> QED
  BY <1>3, <1>4

(* An ordered prefix without repeated nodes, in which every node of a      *)
(* finite set is settled, holds the TopL nearest nodes of that set.        *)
LEMMA PrefixIsNearest ==
  ASSUME NEW held \in CandidateArray, NEW total \in 0 .. Capacity, InOrder(held, total),
         \A i, j \in PrefixRanks(total) : i # j => held[i].id # held[j].id,
         NEW nodes \in SUBSET Nodes, IsFiniteSet(nodes),
         \A i \in PrefixRanks(total) : held[i].id \in nodes,
         \A m \in nodes : SettledIn(held, total, m)
  PROVE  {held[i].id : i \in PrefixRanks(total)}
           = {n \in nodes : Cardinality({m \in nodes : CandidateLess(m, n)}) < TopL}
<1> DEFINE nearer(n) == {m \in nodes : CandidateLess(m, n)}
           ids(last) == {held[i].id : i \in 1 .. last}
<1>1. /\ total \in Nat /\ TopL \in Nat \ {0}
      /\ \A i : i \in PrefixRanks(total) <=> i \in 1 .. TopL /\ i <= total
      /\ \A i \in PrefixRanks(total) : i \in Nat \ {0} /\ i \in 1 .. total
  BY PrefixRange
<1>2. nodes \subseteq NodeOrNone
  BY DEF NodeOrNone
<1>3. ASSUME NEW n \in nodes PROVE IsFiniteSet(nearer(n)) /\ Cardinality(nearer(n)) \in Nat
  BY FS_Subset, FS_CardinalityType
<1>4. ASSUME NEW p \in PrefixRanks(total) PROVE Cardinality(nearer(held[p].id)) < TopL
  <2>1. p \in 1 .. TopL /\ p <= total /\ p - 1 \in Nat
    BY <1>1
  <2>2. ASSUME NEW m \in nearer(held[p].id) PROVE \E i \in 1 .. p - 1 : held[i].id = m
    <3>1. m \in nodes /\ CandidateLess(m, held[p].id) /\ held[p].id \in NodeOrNone /\ m \in NodeOrNone
      BY <1>2
    <3>2. ASSUME NEW r \in PrefixRanks(total), held[r].id = m PROVE r \in 1 .. p - 1
      <4>1. r \in 1 .. total /\ p \in 1 .. total
        BY <1>1
      <4>2. CASE r = p
        BY <3>1, <3>2, <4>2, CandidateOrder
      <4>3. CASE p < r
        BY <3>1, <3>2, <4>1, <4>3 DEF InOrder
      <4> QED
        BY <1>1, <2>1, <4>1, <4>2, <4>3
    <3>3. ASSUME total >= TopL, ~CandidateLess(m, held[TopL].id) PROVE FALSE
      <4>1. TopL \in PrefixRanks(total) /\ TopL \in 1 .. total /\ p \in 1 .. total
        BY <1>1, <3>3
      <4>2. held[TopL].id \in NodeOrNone
        BY <1>2, <4>1
      <4>3. ~CandidateLess(held[TopL].id, held[p].id)
        <5>1. CASE p = TopL
          BY <4>2, <5>1, CandidateOrder
        <5>2. CASE p < TopL
          BY <4>1, <5>2 DEF InOrder
        <5> QED
          BY <1>1, <2>1, <5>1, <5>2
      <4> QED
        BY <3>1, <3>3, <4>2, <4>3, CandidateOrder
    <3>4. SettledIn(held, total, m)
      BY <3>1
    <3> QED
      BY <3>2, <3>3, <3>4 DEF SettledIn, InPrefixOf
  <2> DEFINE place == [i \in 1 .. p - 1 |-> held[i].id]
  <2>3. IsFiniteSet(1 .. p - 1) /\ Cardinality(1 .. p - 1) = p - 1
    <3> DEFINE last == p - 1
    <3>1. last \in Nat
      BY <2>1
    <3> HIDE DEF last
    <3>2. IsFiniteSet(1 .. last) /\ Cardinality(1 .. last) = last
      BY <3>1, FS_Interval
    <3> QED
      BY <3>2 DEF last
  <2>4. place \in Surjection(1 .. p - 1, ids(p - 1))
    BY DEF Surjection
  <2>5. IsFiniteSet(ids(p - 1)) /\ Cardinality(ids(p - 1)) <= p - 1
    <3> HIDE DEF ids, place
    <3> QED
      BY <2>3, <2>4, FS_Surjection DEF ExistsSurjection
  <2>6. nearer(held[p].id) \subseteq ids(p - 1)
    BY <2>2
  <2>7. Cardinality(nearer(held[p].id)) <= Cardinality(ids(p - 1)) /\ Cardinality(ids(p - 1)) \in Nat
    <3> HIDE DEF ids, nearer
    <3> QED
      BY <2>5, <2>6, FS_Subset, FS_CardinalityType
  <2>8. Cardinality(nearer(held[p].id)) \in Nat
    BY <1>3
  <2> HIDE DEF ids, nearer
  <2> QED
    BY <1>1, <2>1, <2>5, <2>7, <2>8
<1>5. ASSUME NEW n \in nodes, \A i \in PrefixRanks(total) : held[i].id # n
      PROVE  ~(Cardinality(nearer(n)) < TopL)
  <2>1. total >= TopL /\ ~CandidateLess(n, held[TopL].id)
    BY <1>5 DEF SettledIn, InPrefixOf
  <2>2. ASSUME NEW i \in 1 .. TopL
        PROVE  held[i].id \in nodes /\ CandidateLess(held[i].id, n) /\ i \in PrefixRanks(total)
    <3>1. i \in PrefixRanks(total) /\ TopL \in PrefixRanks(total) /\ i \in 1 .. total /\ TopL \in 1 .. total
      BY <1>1, <2>1
    <3>2. held[i].id \in nodes /\ held[TopL].id \in nodes /\ held[i].id # n
      BY <1>5, <3>1
    <3>3. ~CandidateLess(n, held[i].id)
      <4>1. CASE i = TopL
        BY <2>1, <4>1
      <4>2. CASE i < TopL
        <5>1. ~CandidateLess(held[TopL].id, held[i].id)
          BY <3>1, <4>2 DEF InOrder
        <5> QED
          BY <1>2, <2>1, <3>2, <5>1, CandidateOrder
      <4> QED
        BY <1>1, <4>1, <4>2
    <3> QED
      BY <1>2, <3>1, <3>2, <3>3, CandidateOrder
  <2> DEFINE place == [i \in 1 .. TopL |-> held[i].id]
  <2>3. place \in Injection(1 .. TopL, nearer(n))
    BY <2>2 DEF Injection, IsInjective
  <2>4. IsFiniteSet(1 .. TopL) /\ Cardinality(1 .. TopL) = TopL
    BY <1>1, FS_Interval
  <2>5. TopL <= Cardinality(nearer(n))
    <3>1. IsFiniteSet(nearer(n))
      BY <1>3
    <3> HIDE DEF nearer, place
    <3> QED
      BY <2>3, <2>4, <3>1, FS_Injection
  <2>6. Cardinality(nearer(n)) \in Nat
    BY <1>3
  <2> HIDE DEF nearer
  <2> QED
    BY <1>1, <2>5, <2>6
<1> QED
  BY <1>4, <1>5
-----------------------------------------------------------------------------
(* Entries past the valid ones hold no node.                               *)
TailInvalid == \A i \in 1 .. Capacity : i > valid => ~IsValid(list[i])

(* The nodes selected for a round are nodes of the topology.               *)
SelectedNodes == pc = "expand" => \A k \in 1 .. count : selected[k] \in Nodes

(* The inductive invariant of the filter: an entry that moves down within  *)
(* the prefix came from inside the old prefix only because the tail of the *)
(* array holds no node.                                                    *)
FilterInvariant == TypeOK /\ SelectedNodes /\ TailInvalid /\ PrefixInHash
-----------------------------------------------------------------------------
(* Masking a frontier leaves a frontier.                                   *)
LEMMA FrontierOfType ==
  ASSUME NEW offered \in FrontierArray, NEW slots
  PROVE  FrontierOf(offered, slots) \in FrontierArray
BY DEF FrontierOf, FrontierArray, NodeOrNone

(* A batch of entry ids is a frontier.                                     *)
LEMMA EntryFrontierType ==
  ASSUME TypeOK PROVE EntryFrontier \in FrontierArray
<1>1. entries \in Seq(NodeOrNone) /\ batch \in Nat /\ Slots \in Nat
  BY InputsAssumption, SizesAssumption DEF TypeOK
<1>2. batch * Slots \in Nat
  BY <1>1
<1>3. ASSUME NEW s \in 1 .. Slots, batch * Slots + s <= Len(entries)
      PROVE  entries[batch * Slots + s] \in NodeOrNone
  <2>1. batch * Slots + s \in 1 .. Len(entries)
    BY <1>1, <1>2, <1>3
  <2>2. QED
    BY <1>1, <2>1
<1>4. QED
  BY <1>3 DEF EntryFrontier, FrontierArray, NodeOrNone

(* The neighbours offered in a round are a frontier, whichever rows they   *)
(* are read from.                                                          *)
LEMMA OfferedNeighborsType ==
  ASSUME TypeOK, staged' \in [1 .. Width -> Row],
         \A k \in 1 .. count : selected[k] \in Nodes
  PROVE  OfferedNeighbors \in FrontierArray
<1>1. /\ Degree \in Nat \ {0} /\ Width \in Nat /\ count \in 0 .. Width
      /\ graph \in [Nodes -> Row]
  BY ParametersAssumption, InputsAssumption DEF TypeOK
<1>2. ASSUME NEW s \in 1 .. Slots, SelectedIndex(s) <= count
      PROVE  Neighbors(SelectedIndex(s))[NeighborIndex(s)] \in NodeOrNone
  <2>1. NeighborIndex(s) \in 1 .. Degree
    BY <1>1, SizesAssumption DEF NeighborIndex
  <2>2. SelectedIndex(s) \in 1 .. count
    <3>1. s - 1 \in Nat
      BY SizesAssumption
    <3>2. (s - 1) \div Degree \in Nat
      BY <1>1, <3>1
    <3>3. QED
      BY <1>1, <1>2, <3>2 DEF SelectedIndex
  <2>3. Neighbors(SelectedIndex(s)) \in Row
    BY <1>1, <2>2 DEF Neighbors
  <2>4. QED
    BY <2>1, <2>3 DEF Row
<1>3. QED
  BY <1>2 DEF OfferedNeighbors, FrontierArray, NodeOrNone
(* The bits of a frontier are filter bits.                                 *)
LEMMA SlotBitsType ==
  ASSUME NEW frontier \in FrontierArray
  PROVE  SlotBits(frontier, Admitted(frontier)) \subseteq Nat
<1>1. ASSUME NEW s \in Admitted(frontier) PROVE HashBits[frontier[s]] \subseteq Nat
  <2>1. frontier[s] \in Nodes
    BY DEF Admitted, FrontierArray, NodeOrNone
  <2>2. QED
    BY <2>1, HashAssumption
<1>2. QED
  BY <1>1 DEF SlotBits

(* So are the bits of a prefix.                                            *)
LEMMA PrefixHashType ==
  ASSUME NEW l \in CandidateArray, NEW v \in 0 .. Capacity
  PROVE  PrefixHash(l, v) \subseteq Nat
<1>1. ASSUME NEW i \in PrefixRanks(v), IsValid(l[i])
      PROVE  HashBits[l[i].id] \subseteq Nat
  <2>1. i \in 1 .. Capacity
    BY SizesAssumption DEF PrefixRanks, SmallerOf
  <2>2. l[i].id \in Nodes
    BY <1>1, <2>1 DEF CandidateArray, Candidate, IsValid, NodeOrNone
  <2>3. QED
    BY <2>2, HashAssumption
<1>2. QED
  BY <1>1 DEF PrefixHash

(* Absorbing a frontier keeps the types, the invalid tail and the filter's *)
(* hold on the prefix, whether or not the filter is rebuilt.               *)
LEMMA AbsorbKeeps ==
  ASSUME FilterInvariant, NEW frontier \in FrontierArray, AbsorbFrontier(frontier)
  PROVE  /\ list' \in CandidateArray /\ valid' \in 0 .. Capacity
         /\ unexpanded' \subseteq PrefixRanks(valid') /\ hash' \subseteq Nat
         /\ merges' \in 0 .. RebuildInterval - 1
         /\ TailInvalid' /\ PrefixInHash'
<1> DEFINE bits == SlotBits(frontier, Admitted(frontier))
           rebuild == merges + 1 >= RebuildInterval
<1>1. /\ list \in CandidateArray /\ valid \in 0 .. Capacity /\ hash \subseteq Nat
      /\ merges \in 0 .. RebuildInterval - 1
  BY DEF FilterInvariant, TypeOK
<1>2. /\ list' = MergeFrontier(list, valid, frontier, launch.high_l)
      /\ valid' = NewValidCount(valid, frontier)
      /\ unexpanded' = UnexpandedRanks(list', valid')
      /\ hash' = IF rebuild THEN PrefixHash(list', valid') ELSE hash \cup bits
      /\ merges' = IF rebuild THEN 0 ELSE merges + 1
  BY DEF AbsorbFrontier
<1>3. list' \in CandidateArray
  BY <1>1, <1>2, MergeType
<1>4. valid' \in valid .. Capacity /\ valid' \in 0 .. Capacity
  BY <1>1, <1>2, NewValidCountBounds, SizesAssumption
<1>5. unexpanded' \subseteq PrefixRanks(valid')
  BY <1>2 DEF UnexpandedRanks
<1>6. hash' \subseteq Nat
  BY <1>1, <1>2, <1>3, <1>4, SlotBitsType, PrefixHashType
<1>7. merges' \in 0 .. RebuildInterval - 1
  BY <1>1, <1>2 DEF RebuildInterval
<1>8. TailInvalid'
  <2>1. ASSUME NEW p \in 1 .. Capacity, p > valid' PROVE ~IsValid(list'[p])
    <3>1. list'[p] = list[p]
      BY <1>2, <2>1 DEF MergeFrontier
    <3>2. p > valid
      BY <1>1, <1>4, <2>1, SizesAssumption
    <3>3. QED
      BY <3>1, <3>2 DEF FilterInvariant, TailInvalid
  <2>2. QED
    BY <2>1 DEF TailInvalid
<1>9. PrefixInHash'
  <2>1. SUFFICES ASSUME NEW p \in PrefixRanks(valid'), IsValid(list'[p])
                 PROVE  VisitedTest(list'[p].id, hash')
    BY DEF PrefixInHash
  <2>2. p \in 1 .. Capacity /\ p <= TopL
    BY <1>4, SizesAssumption DEF PrefixRanks, SmallerOf
  <2>3. CASE rebuild
    BY <1>2, <2>1, <2>3 DEF PrefixHash, VisitedTest
  <2>4. CASE ~rebuild
    <3>1. hash' = hash \cup bits
      BY <1>2, <2>4
    <3>2. CASE \E s \in Admitted(frontier) :
                 list'[p] = [id |-> frontier[s], expanded |-> FALSE]
      BY <3>1, <3>2 DEF VisitedTest, SlotBits
    <3>3. CASE \E q \in 1 .. p : list'[p] = list[q]
      <4>1. PICK q \in 1 .. p : list'[p] = list[q]
        BY <3>3
      <4>2. q \in 1 .. Capacity /\ q <= TopL
        BY <2>2, SizesAssumption
      <4>3. q <= valid
        BY <1>1, <2>1, <4>1, <4>2 DEF FilterInvariant, TailInvalid
      <4>4. q \in PrefixRanks(valid)
        BY <1>1, <4>2, <4>3, SizesAssumption DEF PrefixRanks, SmallerOf
      <4>5. VisitedTest(list[q].id, hash)
        BY <2>1, <4>1, <4>4 DEF FilterInvariant, PrefixInHash
      <4>6. QED
        BY <3>1, <4>1, <4>5 DEF VisitedTest
    <3>4. QED
      BY <1>1, <1>2, <2>2, <3>2, <3>3, MergeOrigin
  <2>5. QED
    BY <2>3, <2>4
<1>10. QED
  BY <1>3, <1>4, <1>5, <1>6, <1>7, <1>8, <1>9

(* The histories of the filter hold nodes.                                 *)
LEMMA RecordKeepsTypes ==
  ASSUME FilterInvariant, NEW offered \in FrontierArray, NEW slots \in AdmittedSlots(offered),
         AbsorbFrontier(FrontierOf(offered, slots)), RecordOffer(offered, slots)
  PROVE  given' \subseteq NodeOrNone /\ hidden' \subseteq Nodes
<1>1. /\ given \subseteq NodeOrNone /\ hidden \subseteq Nodes
      /\ list' \in CandidateArray /\ valid' \in 0 .. Capacity
  BY FrontierOfType, AbsorbKeeps DEF FilterInvariant, TypeOK
<1>2. ASSUME NEW i \in PrefixRanks(valid') PROVE list'[i].id \in NodeOrNone
  <2>1. i \in 1 .. Capacity
    BY <1>1, SizesAssumption DEF PrefixRanks, SmallerOf
  <2> QED
    BY <1>1, <2>1 DEF CandidateArray, Candidate
<1>3. PrefixIds' \subseteq NodeOrNone
  BY <1>2 DEF PrefixIds
<1>4. slots \subseteq Admitted(offered)
  BY DEF AdmittedSlots
<1>5. \A s \in Admitted(offered) : offered[s] \in Nodes /\ offered[s] \in NodeOrNone
  BY DEF Admitted, FrontierArray, NodeOrNone
<1> QED
  BY <1>1, <1>3, <1>4, <1>5 DEF RecordOffer

(* Every selected place is filled by a node of the prefix.                 *)
LEMMA ChosenFilled ==
  ASSUME FilterInvariant
  PROVE  /\ Chosen \subseteq unexpanded /\ unexpanded \subseteq 1 .. Capacity
         /\ Cardinality(Chosen) \in 0 .. Width
         /\ \A k : ChosenAt(k) \subseteq Chosen
         /\ \A k \in 1 .. Cardinality(Chosen) : ChosenAt(k) # {}
         /\ \A i \in Chosen : list[i].id \in Nodes
<1>1. list \in CandidateArray /\ valid \in 0 .. Capacity
      /\ unexpanded \subseteq PrefixRanks(valid)
  BY DEF FilterInvariant, TypeOK
<1>2. unexpanded \subseteq 1 .. Capacity
  BY <1>1, SizesAssumption DEF PrefixRanks, SmallerOf
<1>3. Selectable \subseteq unexpanded /\ Selectable \subseteq Nat
      /\ IsFiniteSet(Selectable)
  <2>1. IsFiniteSet(1 .. Capacity)
    BY FS_Interval, SizesAssumption
  <2>2. Selectable \subseteq 1 .. Capacity
    BY <1>2 DEF Selectable
  <2>3. QED
    BY <2>1, <2>2, FS_Subset, SizesAssumption DEF Selectable
<1>4. Chosen \subseteq Selectable /\ IsFiniteSet(Chosen)
      /\ Cardinality(Chosen) \in 0 .. Width
  BY <1>3, FirstRanksBound, ParametersAssumption DEF Chosen
<1>5. \A k : ChosenAt(k) \subseteq Chosen
  BY DEF ChosenAt
<1>6. ASSUME NEW k \in 1 .. Cardinality(Chosen) PROVE ChosenAt(k) # {}
  <2>1. Chosen \subseteq Nat
    BY <1>3, <1>4
  <2>2. \E i \in Chosen : PlaceOf(Chosen, i) = k
    BY <1>4, <2>1, PlacesFilled
  <2>3. QED
    BY <2>2 DEF ChosenAt
<1>7. ASSUME NEW i \in Chosen PROVE list[i].id \in Nodes
  <2>1. i \in 1 .. Capacity /\ IsValid(list[i])
    BY <1>2, <1>3, <1>4 DEF Selectable
  <2>2. QED
    BY <1>1, <2>1 DEF CandidateArray, Candidate, IsValid, NodeOrNone
<1>8. QED
  BY <1>2, <1>3, <1>4, <1>5, <1>6, <1>7

(* A stage that the learned stop moves to is a stage, or past the last.    *)
LEMMA NextStagesType ==
  ASSUME TypeOK, NEW next \in NextStages PROVE next.stage \in 1 .. NoStage
<1>1. stage \in 1 .. NoStage /\ NoStage \in Nat \ {0}
  BY ParametersAssumption DEF TypeOK, NoStage, StagePrefixes, LaunchOptions
<1>2. QED
  BY <1>1 DEF NextStages
-----------------------------------------------------------------------------
(* The invariant holds initially.                                          *)
LEMMA FilterInit == Init => FilterInvariant
<1> SUFFICES ASSUME Init PROVE FilterInvariant
  OBVIOUS
<1>1. TypeOK
  <2>1. EmptyList \in CandidateArray
    BY DEF EmptyList, CandidateArray, Candidate, InvalidCandidate, NodeOrNone
  <2>2. stage \in 1 .. NoStage
    BY ParametersAssumption DEF Init, NoStage, StagePrefixes, LaunchOptions
  <2>3. staged \in [1 .. Width -> Row]
    BY InputsAssumption DEF Init
  <2>4. QED
    BY <2>1, <2>2, <2>3, ParametersAssumption, SizesAssumption
    DEF Init, TypeOK, RebuildInterval, NodeOrNone
<1>2. TailInvalid
  BY DEF Init, TailInvalid, EmptyList, InvalidCandidate, IsValid
<1>3. PrefixInHash
  BY SizesAssumption DEF Init, PrefixInHash, PrefixRanks, SmallerOf
<1>4. SelectedNodes
  BY DEF Init, SelectedNodes
<1>5. QED
  BY <1>1, <1>2, <1>3, <1>4 DEF FilterInvariant

(* Every step keeps it.                                                    *)
LEMMA FilterStep == FilterInvariant /\ [Next]_vars => FilterInvariant'
<1> SUFFICES ASSUME FilterInvariant, [Next]_vars PROVE FilterInvariant'
  OBVIOUS
<1> USE DEF FilterInvariant, input, queue
<1>1. CASE SeedBatch
  <2>1. PICK slots \in AdmittedSlots(EntryFrontier) :
          /\ AbsorbFrontier(FrontierOf(EntryFrontier, slots))
          /\ RecordOffer(EntryFrontier, slots)
    BY <1>1 DEF SeedBatch, Absorb
  <2>2. EntryFrontier \in FrontierArray
    BY EntryFrontierType
  <2>3. FrontierOf(EntryFrontier, slots) \in FrontierArray
    BY <2>2, FrontierOfType
  <2>4. given' \subseteq NodeOrNone /\ hidden' \subseteq Nodes
    BY <2>1, <2>2, RecordKeepsTypes
  <2>5. QED
    BY <1>1, <2>1, <2>3, <2>4, AbsorbKeeps DEF SeedBatch, TypeOK, SelectedNodes,
       NoStage, StagePrefixes
<1>2. CASE FinishSeeding
  BY <1>2 DEF FinishSeeding, TypeOK, SelectedNodes, TailInvalid, PrefixInHash,
       NoStage, StagePrefixes
<1>3. CASE StopAtLimit
  BY <1>3 DEF StopAtLimit, TypeOK, SelectedNodes, TailInvalid, PrefixInHash,
       NoStage, StagePrefixes
<1>4. CASE StopLearned
  <2>1. stage' \in 1 .. NoStage
    BY <1>4, NextStagesType DEF StopLearned
  <2>2. QED
    BY <1>4, <2>1
    DEF StopLearned, TypeOK, SelectedNodes, TailInvalid, PrefixInHash,
       NoStage, StagePrefixes
<1>5. CASE StopSettled
  <2>1. stage' \in 1 .. NoStage
    BY <1>5, NextStagesType DEF StopSettled
  <2>2. QED
    BY <1>5, <2>1
    DEF StopSettled, TypeOK, SelectedNodes, TailInvalid, PrefixInHash,
       NoStage, StagePrefixes
<1>6. CASE SelectNodes
  <2>1. stage' \in 1 .. NoStage
    BY <1>6, NextStagesType DEF SelectNodes
  <2>2. count' = Cardinality(Chosen) /\ count' \in 0 .. Width
    BY <1>6, ChosenFilled DEF SelectNodes
  <2>3. \A k : ChosenAt(k) # {} => list[CHOOSE i \in ChosenAt(k) : TRUE].id \in Nodes
    BY ChosenFilled
  <2>4. /\ selected' \in [1 .. Width -> NodeOrNone]
        /\ \A k \in 1 .. count' : selected'[k] \in Nodes
    <3>1. selected' = [k \in 1 .. Width |->
                         IF ChosenAt(k) = {} THEN selected[k]
                         ELSE list[CHOOSE i \in ChosenAt(k) : TRUE].id]
      BY <1>6 DEF SelectNodes
    <3>2. selected' \in [1 .. Width -> NodeOrNone]
      BY <2>3, <3>1 DEF TypeOK, NodeOrNone
    <3>3. ASSUME NEW k \in 1 .. count' PROVE selected'[k] \in Nodes
      <4>1. ChosenAt(k) # {} /\ k \in 1 .. Width
        BY <2>2, ChosenFilled, ParametersAssumption
      <4>2. QED
        BY <2>3, <3>1, <4>1
    <3>4. QED
      BY <3>2, <3>3
  <2>5. /\ list' \in CandidateArray
        /\ \A i \in 1 .. Capacity : list'[i].id = list[i].id
    BY <1>6 DEF SelectNodes, TypeOK, CandidateArray, Candidate
  <2>6. trace' \in [1 .. MaxExpansions -> NodeOrNone]
    <3>1. ASSUME NEW e \in 1 .. MaxExpansions, e - expanded \in 1 .. count'
          PROVE  selected'[e - expanded] \in NodeOrNone
      BY <2>4, <3>1 DEF NodeOrNone
    <3>2. QED
      BY <1>6, <3>1 DEF SelectNodes, TypeOK
  <2>7. /\ unexpanded' \subseteq PrefixRanks(valid') /\ expanded' \in Nat
        /\ pc' \in {"seed", "check", "expand", "done"}
    BY <1>6, <2>2, ParametersAssumption DEF SelectNodes, TypeOK
  <2>8. UNCHANGED <<graph, entries, launch, batch, valid, hash, merges, given, hidden, staged>>
    BY <1>6 DEF SelectNodes
  <2>9. TypeOK'
    BY <2>1, <2>2, <2>4, <2>5, <2>6, <2>7, <2>8 DEF TypeOK,
       NoStage, StagePrefixes
  <2>10. TailInvalid'
    BY <2>5, <2>8 DEF TailInvalid, IsValid
  <2>11. PrefixInHash'
    <3>1. PrefixRanks(valid) \subseteq 1 .. Capacity
      BY SizesAssumption DEF TypeOK, PrefixRanks, SmallerOf
    <3>2. QED
      BY <2>5, <2>8, <3>1 DEF PrefixInHash, IsValid
  <2>12. QED
    BY <2>4, <2>9, <2>10, <2>11 DEF SelectedNodes
<1>7. CASE ExpandSelected
  <2>1. \A k \in 1 .. count : selected[k] \in Nodes
    BY <1>7 DEF ExpandSelected, SelectedNodes
  <2>2. staged' \in [1 .. Width -> Row]
    <3>1. graph \in [Nodes -> Row] /\ count \in 0 .. Width
      BY InputsAssumption DEF TypeOK
    <3>2. QED
      BY <1>7, <2>1, <3>1, ParametersAssumption DEF ExpandSelected, TypeOK
  <2>3. OfferedNeighbors \in FrontierArray
    BY <2>1, <2>2, OfferedNeighborsType
  <2>4. PICK slots \in AdmittedSlots(OfferedNeighbors) :
          /\ AbsorbFrontier(FrontierOf(OfferedNeighbors, slots))
          /\ RecordOffer(OfferedNeighbors, slots)
    BY <1>7 DEF ExpandSelected, Absorb
  <2>5. FrontierOf(OfferedNeighbors, slots) \in FrontierArray
    BY <2>3, FrontierOfType
  <2>6. given' \subseteq NodeOrNone /\ hidden' \subseteq Nodes
    BY <2>3, <2>4, RecordKeepsTypes
  <2>7. QED
    BY <1>7, <2>2, <2>4, <2>5, <2>6, AbsorbKeeps
    DEF ExpandSelected, TypeOK, SelectedNodes,
       NoStage, StagePrefixes
<1>8. CASE UNCHANGED vars
  BY <1>8 DEF vars, TypeOK, SelectedNodes, TailInvalid, PrefixInHash,
       NoStage, StagePrefixes
<1>9. QED
  BY <1>1, <1>2, <1>3, <1>4, <1>5, <1>6, <1>7, <1>8 DEF Next

(* FilterInvariant is invariant, by the three lemmas above.                *)
LEMMA FilterInvariance == Spec => []FilterInvariant
BY FilterInit, FilterStep, PTL DEF Spec

(* The types of a traversal hold for every topology, entry list, width,    *)
(* capacity and filter: no rank, row or stage is read out of its bounds.   *)
THEOREM TypeCorrect == Spec => []TypeOK
<1>1. FilterInvariant => TypeOK
  BY DEF FilterInvariant
<1>2. QED
  BY <1>1, FilterInvariance, PTL

(* A node of the prefix is always in the visited filter, however often the *)
(* filter is cleared and rebuilt and whatever its threads interleave.      *)
THEOREM PrefixStaysInHash == Spec => []PrefixInHash
<1>1. FilterInvariant => PrefixInHash
  BY DEF FilterInvariant
<1>2. QED
  BY <1>1, FilterInvariance, PTL

(* The budget of expansions is exceeded by less than one round.            *)
THEOREM BudgetKept == Spec => []ExpansionBudget
<1>1. Init => ExpansionBudget
  BY ParametersAssumption DEF Init, ExpansionBudget
<1>2. ExpansionBudget /\ FilterInvariant /\ [Next]_vars => ExpansionBudget'
  <2> SUFFICES ASSUME ExpansionBudget, FilterInvariant, [Next]_vars
               PROVE  ExpansionBudget'
    OBVIOUS
  <2>1. CASE SelectNodes
    <3>1. expanded \in Nat /\ MaxExpansions \in Nat /\ Width \in Nat \ {0}
      BY ParametersAssumption DEF FilterInvariant, TypeOK
    <3>2. expanded < MaxExpansions /\ expanded' = expanded + count'
          /\ count' \in 0 .. Width
      BY <2>1, ChosenFilled DEF SelectNodes, MayContinue
    <3>3. MaxExpansions # 0
      BY <3>1, <3>2
    <3>4. ASSUME NEW c \in 0 .. Width
          PROVE  expanded + c <= MaxExpansions + Width - 1
      BY <3>1, <3>2, <3>4
    <3>5. expanded' <= MaxExpansions + Width - 1
      BY <3>2, <3>4
    <3>6. QED
      BY <3>3, <3>5 DEF ExpansionBudget
  <2>2. CASE UNCHANGED expanded
    BY <2>2 DEF ExpansionBudget
  <2>3. QED
    BY <2>1, <2>2 DEF Next, vars, SeedBatch, FinishSeeding, StopAtLimit,
                      StopLearned, StopSettled, ExpandSelected
<1>3. QED
  BY <1>1, <1>2, FilterInvariance, PTL DEF Spec
-----------------------------------------------------------------------------
(* The inductive invariant of the order: merges need a list in order, with *)
(* no node behind the valid ones, and frontiers of the right type.         *)
OrderInvariant == FilterInvariant /\ ListOrdered

(* Absorbing a frontier keeps the order, and improves every rank.          *)
LEMMA AbsorbKeepsOrder ==
  ASSUME OrderInvariant, NEW frontier \in FrontierArray, AbsorbFrontier(frontier)
  PROVE  /\ ListOrdered' /\ valid' >= valid
         /\ \A i \in 1 .. Capacity : ~CandidateLess(list[i].id, list'[i].id)
<1>1. /\ list \in CandidateArray /\ valid \in 0 .. Capacity /\ InOrder(list, valid)
  BY DEF OrderInvariant, FilterInvariant, TypeOK, ListOrdered, InOrder
<1>2. /\ list' = MergeFrontier(list, valid, frontier, launch.high_l)
      /\ valid' = NewValidCount(valid, frontier)
  BY DEF AbsorbFrontier
<1>3. InOrder(list', valid')
  BY <1>1, <1>2, MergeInOrder
<1>4. \A i \in 1 .. Capacity : ~CandidateLess(list[i].id, list'[i].id)
  BY <1>1, <1>2, MergeNearer
<1>5. valid' >= valid
  BY <1>1, <1>2, NewValidCountBounds
<1> QED
  BY <1>3, <1>4, <1>5 DEF ListOrdered, InOrder

(* Every step keeps the order and makes no rank worse.                     *)
LEMMA OrderStep ==
  ASSUME OrderInvariant, [Next]_vars
  PROVE  /\ ListOrdered' /\ valid' >= valid
         /\ \A i \in 1 .. Capacity : ~CandidateLess(list[i].id, list'[i].id)
<1>1. /\ list \in CandidateArray /\ valid \in 0 .. Capacity
      /\ 1 .. valid \subseteq 1 .. Capacity /\ valid \in Nat
  BY SizesAssumption DEF OrderInvariant, FilterInvariant, TypeOK
<1>2. ASSUME valid' = valid, \A i \in 1 .. Capacity : list'[i].id = list[i].id
      PROVE  /\ ListOrdered' /\ valid' >= valid
             /\ \A i \in 1 .. Capacity : ~CandidateLess(list[i].id, list'[i].id)
  <2>1. ListOrdered'
    BY <1>1, <1>2 DEF OrderInvariant, ListOrdered, IsValid
  <2>2. ASSUME NEW i \in 1 .. Capacity PROVE ~CandidateLess(list[i].id, list'[i].id)
    <3>1. list[i].id \in NodeOrNone
      BY <1>1 DEF CandidateArray, Candidate
    <3> QED
      BY <1>2, <3>1, CandidateOrder
  <2> QED
    BY <1>1, <1>2, <2>1, <2>2
<1>3. CASE SeedBatch
  <2>1. PICK slots \in AdmittedSlots(EntryFrontier) :
          AbsorbFrontier(FrontierOf(EntryFrontier, slots))
    BY <1>3 DEF SeedBatch, Absorb
  <2>2. FrontierOf(EntryFrontier, slots) \in FrontierArray
    BY EntryFrontierType, FrontierOfType DEF OrderInvariant, FilterInvariant
  <2> QED
    BY <2>1, <2>2, AbsorbKeepsOrder
<1>4. CASE ExpandSelected
  <2>1. \A k \in 1 .. count : selected[k] \in Nodes
    BY <1>4 DEF ExpandSelected, OrderInvariant, FilterInvariant, SelectedNodes
  <2>2. graph \in [Nodes -> Row] /\ count \in 0 .. Width
    BY InputsAssumption DEF OrderInvariant, FilterInvariant, TypeOK
  <2>3. staged' \in [1 .. Width -> Row]
    BY <1>4, <2>1, <2>2, ParametersAssumption
    DEF ExpandSelected, OrderInvariant, FilterInvariant, TypeOK
  <2>4. OfferedNeighbors \in FrontierArray
    BY <2>1, <2>3, OfferedNeighborsType DEF OrderInvariant, FilterInvariant
  <2>5. PICK slots \in AdmittedSlots(OfferedNeighbors) :
          AbsorbFrontier(FrontierOf(OfferedNeighbors, slots))
    BY <1>4 DEF ExpandSelected, Absorb
  <2>6. FrontierOf(OfferedNeighbors, slots) \in FrontierArray
    BY <2>4, FrontierOfType
  <2> QED
    BY <2>5, <2>6, AbsorbKeepsOrder
<1>5. CASE SelectNodes
  <2>1. valid' = valid /\ \A i \in 1 .. Capacity : list'[i].id = list[i].id
    BY <1>1, <1>5 DEF SelectNodes, CandidateArray, Candidate
  <2> QED
    BY <1>2, <2>1
<1>6. CASE UNCHANGED <<list, valid>>
  BY <1>2, <1>6
<1> QED
  BY <1>3, <1>4, <1>5, <1>6 DEF Next, vars, queue, FinishSeeding, StopAtLimit,
                                StopLearned, StopSettled

(* OrderInvariant is invariant.                                            *)
LEMMA OrderInvariance == Spec => []OrderInvariant
<1>1. Init => ListOrdered
  BY SizesAssumption DEF Init, ListOrdered, EmptyList, InvalidCandidate, IsValid
<1>2. FilterInvariant /\ ListOrdered /\ [Next]_vars => ListOrdered'
  BY OrderStep DEF OrderInvariant
<1>3. OrderInvariant <=> FilterInvariant /\ ListOrdered
  BY DEF OrderInvariant
<1> QED
  BY <1>1, <1>2, <1>3, FilterInvariance, PTL DEF Spec

(* The candidates are sorted, and exactly the first `valid' of them hold   *)
(* nodes, whatever the frontiers, ties and capacity of the merges          *)
(* (MergeFrontierIntoCandidates).                                          *)
THEOREM ListStaysOrdered == Spec => []ListOrdered
<1>1. OrderInvariant => ListOrdered
  BY DEF OrderInvariant
<1> QED
  BY <1>1, OrderInvariance, PTL

(* No step gives up a nearer candidate: the key at a rank never grows and  *)
(* the list never shrinks.                                                 *)
THEOREM RanksOnlyImprove == Spec => RankMonotone
<1>1. OrderInvariant /\ [Next]_vars =>
        [ /\ valid' >= valid
          /\ \A i \in 1 .. Capacity : ~CandidateLess(list[i].id, list'[i].id) ]_vars
  BY OrderStep
<1> QED
  BY <1>1, OrderInvariance, PTL DEF Spec, RankMonotone

(* The valid candidates the host collects are the front of the array.      *)
LEMMA CollectedInOrder ==
  ASSUME OrderInvariant
  PROVE  BuildSortedCandidates(Capacity) = [p \in 1 .. valid |-> list[p]]
<1>1. valid \in 0 .. Capacity /\ valid \in Nat /\ Capacity \in Nat /\ valid <= Capacity
  BY SizesAssumption DEF OrderInvariant, FilterInvariant, TypeOK
<1>2. ValidRanks = 1 .. valid
  BY <1>1 DEF ValidRanks, OrderInvariant, ListOrdered
<1>3. Cardinality(ValidRanks) = valid
  BY <1>1, <1>2, FS_Interval
<1>4. SmallerOf(Capacity, Cardinality(ValidRanks)) = valid
  BY <1>1, <1>3 DEF SmallerOf
<1>5. ASSUME NEW p \in 1 .. valid PROVE PlaceOf(ValidRanks, p) = p
  <2> DEFINE last == p - 1
  <2>1. last \in Nat /\ p = last + 1 /\ last + 1 \in Nat
    BY <1>1
  <2>2. {j \in ValidRanks : j < p} = 1 .. last
    BY <1>1, <1>2, <2>1
  <2> HIDE DEF last
  <2>3. Cardinality(1 .. last) = last
    BY <2>1, FS_Interval
  <2> QED
    BY <2>1, <2>2, <2>3 DEF PlaceOf
<1>6. ASSUME NEW p \in 1 .. valid
      PROVE  (CHOOSE i \in ValidRanks : PlaceOf(ValidRanks, i) = p) = p
  BY <1>2, <1>5
<1>7. BuildSortedCandidates(Capacity)
        = [p \in 1 .. valid |-> list[CHOOSE i \in ValidRanks : PlaceOf(ValidRanks, i) = p]]
  BY <1>4 DEF BuildSortedCandidates
<1> DEFINE rank(p) == CHOOSE i \in ValidRanks : PlaceOf(ValidRanks, i) = p
<1>8. [p \in 1 .. valid |-> list[rank(p)]] = [p \in 1 .. valid |-> list[p]]
  <2>1. \A p \in 1 .. valid : rank(p) = p
    BY <1>6
  <2> HIDE DEF rank
  <2> QED
    BY <2>1
<1> QED
  BY <1>7, <1>8

(* What the host cuts from it for the caller.                              *)
LEMMA TopKIsFront ==
  ASSUME OrderInvariant, NEW k \in 1 .. TopL
  PROVE  LET topk == MaterializeTopologyResults(Capacity, k).topk
         IN  /\ Len(topk) = SmallerOf(k, valid)
             /\ DOMAIN topk = 1 .. SmallerOf(k, valid)
             /\ \A i \in 1 .. SmallerOf(k, valid) : topk[i] = list[i]
<1> DEFINE sorted == [p \in 1 .. valid |-> list[p]]
           n == SmallerOf(k, valid)
<1>1. valid \in Nat /\ k \in Nat /\ valid \in 0 .. Capacity /\ list \in CandidateArray
  BY SizesAssumption DEF OrderInvariant, FilterInvariant, TypeOK
<1>2. n \in 0 .. valid /\ n \in Nat
  BY <1>1 DEF SmallerOf
<1>3. sorted \in Seq(Candidate) /\ Len(sorted) = valid
  <2>1. \A p \in 1 .. valid : list[p] \in Candidate
    BY <1>1, SizesAssumption DEF CandidateArray
  <2> QED
    BY <1>1, <2>1
<1>4. MaterializeTopologyResults(Capacity, k).topk = SubSeq(sorted, 1, n)
  BY <1>3, CollectedInOrder DEF MaterializeTopologyResults, BuildTopK, FirstOf
<1>5. /\ SubSeq(sorted, 1, n) \in Seq(Candidate) /\ Len(SubSeq(sorted, 1, n)) = n
      /\ \A i \in 1 .. n : SubSeq(sorted, 1, n)[i] = sorted[i]
  <2> HIDE DEF sorted, n
  <2> QED
    BY <1>1, <1>2, <1>3
<1>6. \A i \in 1 .. n : sorted[i] = list[i]
  BY <1>1, <1>2
<1>7. DOMAIN SubSeq(sorted, 1, n) = 1 .. n
  <2> HIDE DEF sorted, n
  <2> QED
    BY <1>2, <1>5
<1> HIDE DEF sorted
<1> QED
  BY <1>4, <1>5, <1>6, <1>7

(* The list is sorted, and the host's top-k, cut from it without another   *)
(* sort, holds the nearest of the whole array, for every k up to top_l.    *)
THEOREM TopKIsNearest == Spec => []SortedList
<1>1. ASSUME OrderInvariant PROVE SortedList
  <2> SUFFICES ASSUME NEW k \in 1 .. TopL, NEW i \in 1 .. valid
               PROVE  LET topk == MaterializeTopologyResults(Capacity, k).topk
                      IN  \/ \E j \in DOMAIN topk : topk[j] = list[i]
                          \/ Len(topk) = k /\ ~CandidateLess(list[i].id, topk[k].id)
    BY <1>1 DEF SortedList, OrderInvariant
  <2> DEFINE topk == MaterializeTopologyResults(Capacity, k).topk
  <2>1. /\ Len(topk) = SmallerOf(k, valid) /\ DOMAIN topk = 1 .. SmallerOf(k, valid)
        /\ \A j \in 1 .. SmallerOf(k, valid) : topk[j] = list[j]
    BY <1>1, TopKIsFront
  <2> HIDE DEF topk
  <2>2. k \in Nat /\ valid \in Nat /\ i \in Nat /\ k >= 1
    BY <1>1, SizesAssumption DEF OrderInvariant, FilterInvariant, TypeOK
  <2>3. CASE i <= k
    <3>1. i \in 1 .. SmallerOf(k, valid)
      BY <2>2, <2>3 DEF SmallerOf
    <3> QED
      BY <2>1, <3>1 DEF topk
  <2>4. CASE i > k
    <3>1. SmallerOf(k, valid) = k /\ k \in 1 .. valid /\ k \in 1 .. k
      BY <2>2, <2>4 DEF SmallerOf
    <3>2. ~CandidateLess(list[i].id, list[k].id)
      BY <1>1, <2>2, <2>4, <3>1 DEF OrderInvariant, ListOrdered
    <3> QED
      BY <2>1, <3>1, <3>2 DEF topk
  <2> QED
    BY <2>2, <2>3, <2>4
<1> QED
  BY <1>1, OrderInvariance, PTL
-----------------------------------------------------------------------------
(* Whenever a stop rule looks at unexpanded_bits, they are those of the    *)
(* unexpanded ranks of the prefix (RebuildPrefixState).                    *)
BitsRebuilt == pc \in {"seed", "check"} => unexpanded = UnexpandedRanks(list, valid)

StopInvariant == OrderInvariant /\ BitsRebuilt /\ EarlyStopSettled

(* Rounding the candidate stop up to whole words loses no rank of it.      *)
LEMMA WordsCoverPrefix ==
  ASSUME NEW prefix \in Nat, NEW word \in Nat \ {0}
  PROVE  ((prefix + word - 1) \div word) * word >= prefix
<1> DEFINE sum == prefix + word - 1
           words == sum \div word
           rest == sum % word
<1>1. sum \in Nat
  OBVIOUS
<1>2. words \in Int /\ rest \in 0 .. word - 1 /\ sum = word * words + rest
  BY <1>1
<1> HIDE DEF words, rest
<1>3. word * words = words * word
  BY <1>2
<1>4. words * word \in Int /\ words * word = sum - rest
  BY <1>1, <1>2, <1>3
<1> QED
  BY <1>2, <1>4 DEF words

(* The bits follow the list until nodes are selected.                      *)
LEMMA BitsStep ==
  ASSUME OrderInvariant, BitsRebuilt, [Next]_vars
  PROVE  BitsRebuilt'
<1>1. ASSUME NEW frontier, AbsorbFrontier(frontier) PROVE BitsRebuilt'
  BY <1>1 DEF AbsorbFrontier, BitsRebuilt
<1>2. CASE SeedBatch \/ ExpandSelected
  BY <1>1, <1>2 DEF SeedBatch, ExpandSelected, Absorb
<1>3. CASE SelectNodes
  BY <1>3 DEF SelectNodes, BitsRebuilt
<1>4. CASE \/ FinishSeeding \/ StopAtLimit \/ StopLearned \/ StopSettled \/ UNCHANGED vars
  BY <1>4 DEF FinishSeeding, StopAtLimit, StopLearned, StopSettled, BitsRebuilt, vars, queue
<1> QED
  BY <1>2, <1>3, <1>4 DEF Next

(* The candidate stop leaves nothing in the prefix that had to be expanded. *)
LEMMA StopLeavesNone ==
  ASSUME OrderInvariant, BitsRebuilt, pc = "check", CandidateStop,
         ~(UsePrefixStop /\ StopUseExpanded)
  PROVE  ~Unsettled
<1>1. /\ valid \in 0 .. Capacity /\ valid \in Nat
      /\ StopPrefix \in Nat /\ WordBits \in Nat \ {0} /\ TopL \in Nat \ {0}
  BY SizesAssumption, ParametersAssumption
  DEF OrderInvariant, FilterInvariant, TypeOK, StopPrefix, LaunchOptions
<1>2. ASSUME NEW i \in PrefixRanks(valid)
      PROVE  i \in 1 .. TopL /\ i <= valid /\ IsValid(list[i])
  <2>1. i \in 1 .. TopL /\ i \in 1 .. Capacity /\ i <= valid
    BY <1>1, SizesAssumption DEF PrefixRanks, SmallerOf
  <2> QED
    BY <2>1 DEF OrderInvariant, ListOrdered
<1>3. unexpanded = UnexpandedRanks(list, valid)
  BY DEF BitsRebuilt
<1>4. ASSUME NEW i \in PrefixRanks(valid), ~list[i].expanded
      PROVE  UsePrefixStop /\ valid >= StopPrefix /\ i > StopPrefix
  <2>1. i \in unexpanded
    BY <1>2, <1>3, <1>4 DEF UnexpandedRanks
  <2>2. i \notin ActiveRanks
    BY <2>1 DEF CandidateStop
  <2>3. UsePrefixStop /\ valid >= StopPrefix
    BY <1>2, <2>2 DEF ActiveRanks
  <2> DEFINE last == ((StopPrefix + WordBits - 1) \div WordBits) * WordBits
  <2>4. last >= StopPrefix /\ last \in Int
    BY <1>1, WordsCoverPrefix
  <2>5. i \notin 1 .. last /\ i \in Nat \ {0}
    BY <1>2, <2>2, <2>3 DEF ActiveRanks
  <2> HIDE DEF last
  <2> QED
    BY <1>1, <2>3, <2>4, <2>5
<1> QED
  BY <1>4 DEF Unsettled

(* Unless a candidate stop counts expansions, a round that gets past the   *)
(* stops has something to select.                                          *)
LEMMA RoundSelects ==
  ASSUME OrderInvariant, BitsRebuilt, SelectNodes, ~(UsePrefixStop /\ StopUseExpanded)
  PROVE  Chosen # {}
<1>1. valid \in 0 .. Capacity /\ valid \in Nat /\ TopL \in Nat \ {0}
  BY SizesAssumption DEF OrderInvariant, FilterInvariant, TypeOK
<1>2. PrefixRanks(valid) \subseteq 1 .. Capacity
  BY <1>1, SizesAssumption DEF PrefixRanks, SmallerOf
<1>3. ~CandidateStop /\ unexpanded = UnexpandedRanks(list, valid)
  BY DEF SelectNodes, MayContinue, BitsRebuilt
<1>4. PICK i \in unexpanded : TRUE
  BY <1>3 DEF CandidateStop
<1>5. i \in PrefixRanks(valid) /\ IsValid(list[i]) /\ ~list[i].expanded
  BY <1>3, <1>4 DEF UnexpandedRanks
<1>6. i \in Selectable
  BY <1>4, <1>5 DEF Selectable, PrefixRanks
<1>7. Selectable \subseteq 1 .. Capacity /\ Selectable \subseteq Nat
  BY <1>2, <1>3 DEF Selectable, UnexpandedRanks
<1>8. IsFiniteSet(Selectable)
  <2>1. IsFiniteSet(1 .. Capacity)
    BY FS_Interval, SizesAssumption
  <2> QED
    BY <1>7, <2>1, FS_Subset
<1>9. 1 \in 1 .. Cardinality(Selectable)
  BY <1>6, <1>8, FS_EmptySet, FS_CardinalityType
<1>10. PICK j \in Selectable : PlaceOf(Selectable, j) = 1
  BY <1>7, <1>8, <1>9, PlacesFilled
<1>11. j \in Chosen
  BY <1>10, ParametersAssumption DEF Chosen, FirstRanks
<1> QED
  BY <1>11

(* A learned stop that ends the loop is at a stage that may fire.          *)
LEMMA FiringStage ==
  ASSUME TypeOK, NEW next \in NextStages, next.stop
  PROVE  /\ ~launch.shadow /\ next.stage \in 1 .. NoStage - 1
         /\ StageUsable(next.stage) /\ StageReady(next.stage)
<1>1. stage \in 1 .. NoStage /\ NoStage \in Nat \ {0} /\ launch.shadow \in BOOLEAN
  BY ParametersAssumption DEF TypeOK, NoStage, StagePrefixes, LaunchOptions
<1>2. PICK i \in (stage .. NoStage) \ {NoStage} :
        /\ StageUsable(i) /\ StageReady(i)
        /\ next = [stage |-> IF launch.shadow THEN NoStage ELSE i, stop |-> ~launch.shadow]
  <2>1. \A i : next # [stage |-> i, stop |-> FALSE]
    OBVIOUS
  <2> DEFINE reached == {i \in stage .. NoStage : Reached(i)}
             waiting == {i \in reached : i = NoStage \/ (StageUsable(i) /\ ~StageReady(i))}
             firing  == {i \in reached \ {NoStage} : StageUsable(i) /\ StageReady(i)}
  <2>2. NextStages =
          {[stage |-> i, stop |-> FALSE] : i \in waiting} \cup
          {[stage |-> IF launch.shadow THEN NoStage ELSE i, stop |-> ~launch.shadow] : i \in firing}
    BY DEF NextStages
  <2>3. \E i \in firing :
          next = [stage |-> IF launch.shadow THEN NoStage ELSE i, stop |-> ~launch.shadow]
    <3> HIDE DEF waiting, firing
    <3> QED
      BY <2>1, <2>2, Zenon
  <2> QED
    BY <2>3, Zenon
<1>3. next.stop = ~launch.shadow /\ next.stage = IF launch.shadow THEN NoStage ELSE i
  BY <1>2, Zenon
<1>4. ~launch.shadow /\ next.stage = i
  BY <1>1, <1>3, Zenon
<1>5. i \in 1 .. NoStage - 1
  BY <1>1
<1> QED
  BY <1>2, <1>4, <1>5, Zenon

(* A block that leaves its loop early leaves nothing in the prefix that it *)
(* had to expand.                                                          *)
LEMMA SettledStep ==
  ASSUME StopInvariant, [Next]_vars
  PROVE  EarlyStopSettled'
<1>1. /\ valid \in Nat /\ expanded \in Nat /\ MaxExpansions \in Nat /\ TopL \in Nat \ {0}
      /\ OrderInvariant /\ BitsRebuilt /\ TypeOK
  BY SizesAssumption, ParametersAssumption
  DEF StopInvariant, OrderInvariant, FilterInvariant, TypeOK
<1>4. CASE StopAtLimit
  <2>1. UNCHANGED <<list, valid, launch, expanded, stage>>
    BY <1>4 DEF StopAtLimit, queue, input
  <2>2. CASE expanded >= MaxExpansions
    BY <1>1, <2>1, <2>2 DEF EarlyStopSettled
  <2>3. CASE valid = 0
    BY <1>1, <2>1, <2>3 DEF EarlyStopSettled, PrefixRanks, SmallerOf
  <2> QED
    BY <1>4, <2>2, <2>3 DEF StopAtLimit
<1>5. CASE StopLearned
  <2>1. PICK next \in NextStages : next.stop /\ stage' = next.stage
    BY <1>5 DEF StopLearned
  <2>2. next.stage \in 1 .. NoStage - 1 /\ StageUsable(next.stage) /\ StageReady(next.stage)
    BY <1>1, <2>1, FiringStage
  <2>3. UNCHANGED <<valid, launch, expanded>>
    BY <1>5 DEF StopLearned, queue, input
  <2>4. StoppedByStage'
    BY <2>1, <2>2, <2>3 DEF StoppedByStage, NoStage, StageUsable, StageReady, StagePrefixes
  <2> QED
    BY <2>4 DEF EarlyStopSettled
<1>6. CASE StopSettled
  <2>1. UNCHANGED <<list, valid, launch, expanded>> /\ CandidateStop /\ pc = "check"
    BY <1>6 DEF StopSettled, MayContinue, queue, input
  <2>2. ~(UsePrefixStop /\ StopUseExpanded) => ~Unsettled
    BY <1>1, <2>1, StopLeavesNone
  <2> QED
    BY <2>1, <2>2
    DEF EarlyStopSettled, Unsettled, UsePrefixStop, StopUseExpanded, StopPrefix, PrefixRanks
<1>7. CASE SelectNodes
  <2>1. CASE Chosen # {}
    BY <1>7, <2>1 DEF SelectNodes, EarlyStopSettled
  <2>2. CASE Chosen = {}
    <3>1. launch' = launch /\ UsePrefixStop /\ StopUseExpanded
      BY <1>1, <1>7, <2>2, RoundSelects DEF SelectNodes, input
    <3> QED
      BY <3>1 DEF EarlyStopSettled, UsePrefixStop, StopUseExpanded, StopPrefix
  <2> QED
    BY <2>1, <2>2
<1>8. CASE SeedBatch \/ FinishSeeding \/ ExpandSelected
  BY <1>8 DEF SeedBatch, FinishSeeding, ExpandSelected, EarlyStopSettled
<1>9. CASE UNCHANGED vars
  BY <1>9 DEF vars, queue, input, StopInvariant, EarlyStopSettled, StoppedByStage, NoStage,
              StageUsable, StageReady, StagePrefixes, UsePrefixStop, StopUseExpanded,
              StopPrefix, PrefixRanks
<1> QED
  BY <1>4, <1>5, <1>6, <1>7, <1>8, <1>9 DEF Next

(* A search that ends early, and not by a learned stop, has expanded its   *)
(* prefix, or the part of it that the candidate stop asks for, for every   *)
(* prefix, word size, width and filter.                                    *)
THEOREM EarlyStopsSettle == Spec => []EarlyStopSettled
<1>1. Init => BitsRebuilt /\ EarlyStopSettled
  BY SizesAssumption DEF Init, BitsRebuilt, UnexpandedRanks, PrefixRanks, SmallerOf,
                         EarlyStopSettled
<1>2. OrderInvariant /\ BitsRebuilt /\ [Next]_vars => BitsRebuilt'
  BY BitsStep
<1>3. OrderInvariant /\ BitsRebuilt /\ EarlyStopSettled /\ [Next]_vars => EarlyStopSettled'
  BY SettledStep DEF StopInvariant
<1> QED
  BY <1>1, <1>2, <1>3, OrderInvariance, PTL DEF Spec

(* The list never shrinks and nothing is unexpanded again, so a stage that *)
(* had its turn has had it for good.                                       *)
LEMMA TurnsStay ==
  ASSUME OrderInvariant, [Next]_vars, NEW i, StageHadItsTurn(i), StagePrefixes[i] \in Nat
  PROVE  StageHadItsTurn(i)'
<1>1. /\ valid \in Nat /\ TopL \in Nat /\ expanded \in Nat /\ valid' >= valid
      /\ valid' \in Nat
  <2>1. FilterInvariant'
    BY FilterStep DEF OrderInvariant
  <2> QED
    BY <2>1, OrderStep, SizesAssumption DEF OrderInvariant, FilterInvariant, TypeOK
<1>2. launch' = launch
  BY DEF Next, vars, input, SeedBatch, FinishSeeding, StopAtLimit, StopLearned, StopSettled,
         SelectNodes, ExpandSelected
<1>3. expanded' >= expanded /\ expanded' \in Nat
  <2>1. CASE SelectNodes
    <3>1. expanded' = expanded + Cardinality(Chosen)
      BY <2>1 DEF SelectNodes
    <3>2. Cardinality(Chosen) \in 0 .. Width
      BY ChosenFilled DEF OrderInvariant
    <3> QED
      BY <1>1, <3>1, <3>2, ParametersAssumption
  <2>2. CASE expanded' = expanded
    BY <1>1, <2>2
  <2> QED
    BY <2>1, <2>2 DEF Next, vars, SeedBatch, FinishSeeding, StopAtLimit, StopLearned,
                      StopSettled, ExpandSelected
<1> QED
  BY <1>1, <1>2, <1>3 DEF StageHadItsTurn, StagePrefixes

(* A step passes only stages that have had their turn.                     *)
LEMMA PassedHadTheirTurn ==
  ASSUME TypeOK, ~launch.shadow, NEW next \in NextStages,
         NEW j \in stage .. next.stage - 1, StageUsable(j)
  PROVE  StageHadItsTurn(j)
<1>1. stage \in 1 .. NoStage /\ NoStage \in Nat \ {0}
  BY ParametersAssumption DEF TypeOK, NoStage, StagePrefixes, LaunchOptions
<1>2. next.stage \in stage .. NoStage /\ Reached(next.stage)
  BY <1>1 DEF NextStages
<1>3. StageReady(j)
  BY <1>2 DEF Reached
<1> QED
  BY <1>3 DEF StageReady, StageHadItsTurn

LEMMA EarnedStep ==
  ASSUME OrderInvariant, BitsRebuilt, LearnedStopEarned, [Next]_vars
  PROVE  LearnedStopEarned'
<1>1. /\ valid \in Nat /\ expanded \in Nat /\ MaxExpansions \in Nat /\ TopL \in Nat \ {0}
      /\ TypeOK /\ stage \in 1 .. NoStage /\ NoStage \in Nat \ {0}
      /\ \A i \in 1 .. NoStage - 1 : StagePrefixes[i] \in Nat
  BY SizesAssumption, ParametersAssumption
  DEF OrderInvariant, FilterInvariant, TypeOK, NoStage, StagePrefixes, LaunchOptions
<1>2. launch' = launch
  BY DEF Next, vars, input, SeedBatch, FinishSeeding, StopAtLimit, StopLearned, StopSettled,
         SelectNodes, ExpandSelected
<1>3. NoStage' = NoStage /\ \A i : StageUsable(i)' <=> StageUsable(i)
  BY <1>2 DEF NoStage, StageUsable, StagePrefixes
<1>4. \/ stage' = stage
      \/ \E next \in NextStages : stage' = next.stage
  BY DEF Next, vars, input, SeedBatch, FinishSeeding, StopAtLimit, StopLearned, StopSettled,
         SelectNodes, ExpandSelected
<1>5. ASSUME ~launch'.shadow, NEW i \in 1 .. stage' - 1, StageUsable(i)'
      PROVE  StageHadItsTurn(i)'
  <2>1. ~launch.shadow /\ StageUsable(i)
    BY <1>2, <1>3, <1>5
  <2>2. stage' \in 1 .. NoStage
    BY <1>1, <1>4, NextStagesType
  <2>3. StageHadItsTurn(i)
    <3>1. CASE i \in 1 .. stage - 1
      BY <2>1, <3>1 DEF LearnedStopEarned
    <3>2. CASE i \notin 1 .. stage - 1
      <4>1. PICK next \in NextStages : stage' = next.stage
        BY <1>4, <1>5, <3>2
      <4>2. i \in stage .. next.stage - 1
        BY <1>1, <1>5, <2>2, <3>2, <4>1
      <4> QED
        BY <1>1, <2>1, <4>2, PassedHadTheirTurn
    <3> QED
      BY <3>1, <3>2
  <2>4. StagePrefixes[i] \in Nat
    <3>1. NoStage \in Nat /\ stage' \in Nat /\ stage' <= NoStage
      BY <1>1, <2>2
    <3>2. \A a, b \in Nat : a <= b => \A k \in 1 .. a - 1 : k \in 1 .. b - 1
      OBVIOUS
    <3>3. i \in 1 .. NoStage - 1
      BY <3>1, <3>2, Zenon
    <3> QED
      BY <1>1, <3>3
  <2> QED
    BY <2>3, <2>4, TurnsStay
<1>6. ASSUME pc' = "done", expanded' < MaxExpansions, Unsettled',
             ~(UsePrefixStop /\ StopUseExpanded)'
      PROVE  /\ ~launch'.shadow
             /\ \E i \in 1 .. NoStage' - 1 : StageUsable(i)' /\ StageHadItsTurn(i)'
  <2>1. ~(UsePrefixStop /\ StopUseExpanded)
    BY <1>2, <1>6 DEF UsePrefixStop, StopUseExpanded, StopPrefix
  <2>2. CASE StopAtLimit
    <3>1. valid = 0 /\ UNCHANGED <<list, valid>>
      BY <1>1, <1>6, <2>2 DEF StopAtLimit, queue
    <3> QED
      BY <1>1, <1>6, <3>1 DEF Unsettled, PrefixRanks, SmallerOf
  <2>3. CASE StopLearned
    <3>1. PICK next \in NextStages : next.stop
      BY <2>3 DEF StopLearned
    <3>2. /\ ~launch.shadow /\ next.stage \in 1 .. NoStage - 1
          /\ StageUsable(next.stage) /\ StageReady(next.stage)
      BY <1>1, <3>1, FiringStage
    <3>3. StageHadItsTurn(next.stage)'
      BY <1>1, <3>2, TurnsStay DEF StageReady, StageHadItsTurn
    <3> HIDE DEF StageHadItsTurn, StageUsable
    <3>4. \E i \in 1 .. NoStage - 1 : StageUsable(i)' /\ StageHadItsTurn(i)'
      BY <1>3, <3>2, <3>3
    <3> QED
      BY <1>2, <1>3, <3>2, <3>4
  <2>4. CASE StopSettled
    <3>1. UNCHANGED <<list, valid>> /\ CandidateStop /\ pc = "check"
      BY <2>4 DEF StopSettled, MayContinue, queue
    <3>2. ~Unsettled
      BY <2>1, <3>1, StopLeavesNone
    <3> QED
      BY <1>2, <1>6, <3>1, <3>2 DEF Unsettled, UsePrefixStop, StopPrefix
  <2>5. CASE SelectNodes
    <3>1. Chosen # {}
      BY <2>1, <2>5, RoundSelects
    <3> QED
      BY <1>6, <2>5, <3>1 DEF SelectNodes
  <2>6. CASE SeedBatch \/ FinishSeeding \/ ExpandSelected
    BY <1>6, <2>6 DEF SeedBatch, FinishSeeding, ExpandSelected
  <2>7. CASE UNCHANGED vars
    <3>1. /\ pc = "done" /\ expanded < MaxExpansions /\ Unsettled
          /\ UNCHANGED <<valid, expanded, launch>>
      BY <1>6, <2>7 DEF vars, queue, input, Unsettled, UsePrefixStop, StopPrefix
    <3>2. ~launch.shadow /\ \E i \in 1 .. NoStage - 1 : StageUsable(i) /\ StageHadItsTurn(i)
      BY <2>1, <3>1 DEF LearnedStopEarned
    <3> QED
      BY <3>1, <3>2 DEF StageUsable, StageHadItsTurn, StagePrefixes, NoStage
  <2> QED
    BY <2>2, <2>3, <2>4, <2>5, <2>6, <2>7 DEF Next
<1> QED
  BY <1>5, <1>6 DEF LearnedStopEarned

(* The learned stop cuts no search whose list is not full or that has not  *)
(* expanded the prefix of a stage, and no stage loses its turn, for every  *)
(* list of stages, in any order, every topology and every outcome of the   *)
(* model.                                                                  *)
THEOREM LearnedStopsAreEarned == Spec => []LearnedStopEarned
<1>1. Init => BitsRebuilt /\ LearnedStopEarned
  BY SizesAssumption DEF Init, BitsRebuilt, UnexpandedRanks, PrefixRanks, SmallerOf,
                         LearnedStopEarned
<1>2. OrderInvariant /\ BitsRebuilt /\ [Next]_vars => BitsRebuilt'
  BY BitsStep
<1>3. OrderInvariant /\ BitsRebuilt /\ LearnedStopEarned /\ [Next]_vars => LearnedStopEarned'
  BY EarnedStep
<1> QED
  BY <1>1, <1>2, <1>3, OrderInvariance, PTL DEF Spec
-----------------------------------------------------------------------------
(* What the filter stands for: its bits are those of the nodes it was      *)
(* given, and these are settled.  A rebuilt filter forgets nodes, but what *)
(* it refuses is settled, or has only bits of other nodes: it is hidden.   *)
Settled(m) == SettledIn(list, valid, m)

Accounted(m) == Settled(m) \/ m \in hidden

HashCovered == hash \subseteq BitsOf(given) /\ \A m \in given : Settled(m)

(* A round keeps settled what was, and settles each node it admits.        *)
LEMMA AbsorbKeepsSettled ==
  ASSUME OrderInvariant, NEW frontier \in FrontierArray, AbsorbFrontier(frontier),
         NEW m \in NodeOrNone, Settled(m) \/ \E s \in Admitted(frontier) : frontier[s] = m
  PROVE  SettledIn(list', valid', m)
<1>1. /\ list \in CandidateArray /\ valid \in 0 .. Capacity /\ InOrder(list, valid)
      /\ SettledIn(list, valid, m) \/ \E s \in Admitted(frontier) : frontier[s] = m
  BY DEF OrderInvariant, FilterInvariant, TypeOK, ListOrdered, InOrder, Settled
<1>2. SettledIn(MergeFrontier(list, valid, frontier, launch.high_l),
                NewValidCount(valid, frontier), m)
  BY <1>1, MergeSettles
<1> QED
  BY <1>2 DEF AbsorbFrontier

(* A node that the filter refuses without having been given it has only    *)
(* bits of nodes it was given.                                             *)
LEMMA RefusedIsHidden ==
  ASSUME NEW offered \in FrontierArray, NEW slots \in AdmittedSlots(offered),
         RecordOffer(offered, slots), hash \subseteq BitsOf(given),
         NEW s \in Admitted(offered), s \notin slots, offered[s] \notin given
  PROVE  offered[s] \in hidden' \/ \E t \in slots : offered[t] = offered[s]
<1> DEFINE admitted == {offered[t] : t \in slots}
           known == given \cup admitted
<1>1. BitsOf(given) \subseteq BitsOf(known) /\ SlotBits(offered, slots) \subseteq BitsOf(known)
  BY DEF BitsOf, SlotBits
<1>2. VisitedTest(offered[s], hash \cup SlotBits(offered, slots))
  <2>1. CASE VisitedTest(offered[s], hash)
    BY <2>1 DEF VisitedTest
  <2>2. CASE ~VisitedTest(offered[s], hash)
    BY <2>2 DEF AdmittedSlots
  <2> QED
    BY <2>1, <2>2
<1>3. HashBits[offered[s]] \subseteq BitsOf(known)
  <2> HIDE DEF known
  <2> QED
    BY <1>1, <1>2 DEF VisitedTest
<1>4. CASE offered[s] \in admitted
  BY <1>4
<1>5. CASE offered[s] \notin admitted
  <2>1. offered[s] \in {offered[t] : t \in Admitted(offered)} \ known
    BY <1>5
  <2> QED
    BY <1>3, <2>1 DEF RecordOffer
<1> QED
  BY <1>4, <1>5

(* A merge keeps settled what was, and settles each node that is offered   *)
(* to it, admitted or refused, but the hidden ones.                        *)
LEMMA AbsorbSettles ==
  ASSUME OrderInvariant, HashCovered,
         NEW offered \in FrontierArray, NEW slots \in AdmittedSlots(offered),
         AbsorbFrontier(FrontierOf(offered, slots)), RecordOffer(offered, slots)
  PROVE  /\ HashCovered'
         /\ \A m \in NodeOrNone : Settled(m) => Settled(m)'
         /\ \A m \in NodeOrNone : Accounted(m) => Accounted(m)'
         /\ \A s \in Admitted(offered) :
              SettledIn(list', valid', offered[s]) \/ offered[s] \in hidden'
<1> DEFINE frontier == FrontierOf(offered, slots)
           rebuild == merges + 1 >= RebuildInterval
           admitted == {offered[s] : s \in slots}
           known == given \cup admitted
<1>1. /\ list \in CandidateArray /\ valid \in 0 .. Capacity /\ InOrder(list, valid)
      /\ frontier \in FrontierArray /\ given \subseteq NodeOrNone
  BY FrontierOfType DEF OrderInvariant, FilterInvariant, TypeOK, ListOrdered, InOrder
<1>2. /\ list' = MergeFrontier(list, valid, frontier, launch.high_l)
      /\ valid' = NewValidCount(valid, frontier)
      /\ hash' = IF rebuild THEN PrefixHash(list', valid')
                 ELSE hash \cup SlotBits(frontier, Admitted(frontier))
  BY DEF AbsorbFrontier
<1>3. /\ list' \in CandidateArray /\ valid' \in 0 .. Capacity
  BY <1>1, <1>2, MergeType, NewValidCountBounds, SizesAssumption
<1>4. ASSUME NEW m \in NodeOrNone,
             Settled(m) \/ \E s \in Admitted(frontier) : frontier[s] = m
      PROVE  Settled(m)'
  <2> HIDE DEF frontier
  <2>1. AbsorbFrontier(frontier)
    BY DEF frontier
  <2> QED
    BY <1>1, <1>4, <2>1, AbsorbKeepsSettled DEF Settled
<1>5. slots \subseteq Admitted(offered)
  BY DEF AdmittedSlots
<1>6. Admitted(frontier) = slots
      /\ \A s \in slots : frontier[s] = offered[s] /\ offered[s] \in Nodes
  BY <1>5 DEF FrontierOf, Admitted, FrontierArray, NodeOrNone
<1>7. ASSUME NEW m \in admitted PROVE m \in NodeOrNone /\ Settled(m)'
  <2>1. PICK s \in slots : m = offered[s]
    OBVIOUS
  <2>2. m \in NodeOrNone /\ s \in Admitted(frontier) /\ frontier[s] = m
    BY <1>6, <2>1 DEF NodeOrNone
  <2> QED
    BY <1>4, <2>2
<1>8. /\ given' = IF rebuild THEN PrefixIds' ELSE known
      /\ \A m \in hidden \ admitted : m \in hidden'
  BY DEF RecordOffer
<1>9. HashCovered'
  <2>1. CASE rebuild
    <3>1. given' = {list'[i].id : i \in PrefixRanks(valid')}
      BY <1>8, <2>1 DEF PrefixIds
    <3>2. hash' \subseteq BitsOf(given')
      <4>1. ASSUME NEW b \in hash' PROVE \E n \in given' : b \in HashBits[n]
        <5>1. PICK i \in PrefixRanks(valid') : b \in HashBits[list'[i].id]
          BY <1>2, <2>1 DEF PrefixHash
        <5> QED
          BY <3>1, <5>1
      <4> QED
        BY <4>1 DEF BitsOf
    <3>3. \A m \in given' : Settled(m)'
      BY <3>1 DEF Settled, SettledIn, InPrefixOf
    <3> QED
      BY <3>2, <3>3 DEF HashCovered, BitsOf
  <2>2. CASE ~rebuild
    <3>1. given' = known /\ hash' = hash \cup SlotBits(frontier, slots)
      BY <1>2, <1>6, <1>8, <2>2
    <3>2. SlotBits(frontier, slots) \subseteq BitsOf(admitted)
      BY <1>6 DEF SlotBits, BitsOf
    <3>3. hash' \subseteq BitsOf(given')
      BY <3>1, <3>2 DEF HashCovered, BitsOf
    <3>4. \A m \in given' : Settled(m)'
      BY <1>1, <1>4, <1>7, <3>1 DEF HashCovered
    <3> QED
      BY <3>3, <3>4 DEF HashCovered, BitsOf
  <2> QED
    BY <2>1, <2>2
<1>10. ASSUME NEW m \in NodeOrNone, Accounted(m) PROVE Accounted(m)'
  BY <1>4, <1>7, <1>8, <1>10 DEF Accounted
<1>11. ASSUME NEW s \in Admitted(offered)
       PROVE  SettledIn(list', valid', offered[s]) \/ offered[s] \in hidden'
  <2>1. CASE offered[s] \in known
    BY <1>1, <1>4, <1>7, <2>1 DEF HashCovered, Settled
  <2>2. CASE offered[s] \notin known
    <3>1. s \notin slots /\ offered[s] \notin given /\ \A t \in slots : offered[t] # offered[s]
      BY <2>2
    <3> QED
      BY <3>1, RefusedIsHidden DEF HashCovered
  <2> QED
    BY <2>1, <2>2
<1> QED
  BY <1>4, <1>9, <1>10, <1>11

(* The slot that neighbour j of the k-th selected node is offered in.      *)
LEMMA SlotOfNeighbor ==
  ASSUME NEW k \in 1 .. Width, NEW j \in 1 .. Degree
  PROVE  LET s == (k - 1) * Degree + j
         IN  s \in 1 .. Slots /\ SelectedIndex(s) = k /\ NeighborIndex(s) = j
<1> DEFINE s == (k - 1) * Degree + j
           q == k - 1
           r == j - 1
<1>1. /\ Degree \in Nat \ {0} /\ Width \in Nat \ {0} /\ Slots = Width * Degree
      /\ q \in 0 .. Width - 1 /\ r \in 0 .. Degree - 1
  BY ParametersAssumption
<1>2. (q + 1) * Degree <= Width * Degree
  BY <1>1
<1>3. (q + 1) * Degree = q * Degree + Degree
  BY <1>1
<1>4. q * Degree \in Nat
  BY <1>1
<1>5. (q * Degree + r) \div Degree = q /\ (q * Degree + r) % Degree = r
  BY <1>1
<1>6. s - 1 = q * Degree + r
  BY <1>1, <1>4
<1>7. SelectedIndex(s) = q + 1 /\ NeighborIndex(s) = r + 1
  BY <1>5, <1>6 DEF SelectedIndex, NeighborIndex
<1>8. s \in 1 .. Slots
  BY <1>1, <1>2, <1>3, <1>4
<1> QED
  BY <1>1, <1>7, <1>8

(* The rows offered in a round are those of the nodes selected in it, as   *)
(* long as there is a warp for each.                                       *)
LEMMA RowsAreOffered ==
  ASSUME TypeOK, ExpandSelected, Width <= Warps,
         \A k \in 1 .. count : selected[k] \in Nodes,
         NEW k \in 1 .. count, NEW m \in OutEdges(selected[k])
  PROVE  \E s \in Admitted(OfferedNeighbors) : OfferedNeighbors[s] = m
<1>1. /\ graph \in [Nodes -> Row] /\ count \in 0 .. Width /\ k \in 1 .. Width /\ k <= count
      /\ Width \in Nat /\ Warps \in Nat /\ k <= Warps
  BY InputsAssumption, ParametersAssumption DEF TypeOK
<1>2. Neighbors(k) = graph[selected[k]]
  BY <1>1 DEF ExpandSelected, Neighbors
<1>3. PICK j \in 1 .. Degree : m = graph[selected[k]][j] /\ m # NoNode
  BY DEF OutEdges
<1>4. PICK s \in 1 .. Slots : SelectedIndex(s) = k /\ NeighborIndex(s) = j
  BY <1>1, SlotOfNeighbor
<1>5. OfferedNeighbors[s] = m
  BY <1>1, <1>2, <1>3, <1>4 DEF OfferedNeighbors
<1> QED
  BY <1>3, <1>4, <1>5 DEF Admitted

(* The nodes of a round are at the end of the trace until their rows have  *)
(* been offered; the neighbours of those before them are accounted for.    *)
RoundInTrace ==
  pc = "expand" =>
    /\ count <= expanded
    /\ \A k \in 1 .. count :
         expanded - count + k \in 1 .. MaxExpansions => trace[expanded - count + k] = selected[k]

Offered == IF pc = "expand" THEN expanded - count ELSE expanded

TraceSettled ==
  \A e \in 1 .. MaxExpansions :
    e <= Offered => trace[e] \in Nodes /\ \A m \in OutEdges(trace[e]) : Accounted(m)

(* The inductive invariant of the local minimum.                           *)
MinimumInvariant == OrderInvariant /\ HashCovered /\ RoundInTrace /\ TraceSettled

LEMMA MinimumInit == Init => HashCovered /\ RoundInTrace /\ TraceSettled
BY ParametersAssumption DEF Init, HashCovered, RoundInTrace, TraceSettled, Offered

LEMMA MinimumStep ==
  ASSUME Width <= Warps, MinimumInvariant, [Next]_vars
  PROVE  HashCovered' /\ RoundInTrace' /\ TraceSettled'
<1>1. /\ TypeOK /\ expanded \in Nat /\ MaxExpansions \in Nat /\ count \in 0 .. Width
      /\ Width \in Nat /\ count \in Nat
      /\ graph \in [Nodes -> Row] /\ list \in CandidateArray /\ valid \in 0 .. Capacity
  BY ParametersAssumption, InputsAssumption
  DEF MinimumInvariant, OrderInvariant, FilterInvariant, TypeOK
<1>2. ASSUME NEW n \in Nodes PROVE OutEdges(n) \subseteq NodeOrNone
  <2>1. graph[n] \in Row
    BY <1>1
  <2>2. \A j \in 1 .. Degree : graph[n][j] \in NodeOrNone
    BY <2>1 DEF Row
  <2> QED
    BY <2>2 DEF OutEdges
<1>3. ASSUME pc # "expand", pc' # "expand", UNCHANGED <<graph, list, valid, hash, given, hidden, expanded, trace>>
      PROVE  HashCovered' /\ RoundInTrace' /\ TraceSettled'
  BY <1>3 DEF MinimumInvariant, HashCovered, RoundInTrace, TraceSettled, Offered, Settled,
                  Accounted, OutEdges
<1>4. CASE FinishSeeding \/ StopAtLimit \/ StopLearned \/ StopSettled
  <2>1. /\ pc # "expand" /\ pc' # "expand"
        /\ UNCHANGED <<graph, list, valid, hash, given, hidden, expanded, trace>>
    BY <1>4 DEF FinishSeeding, StopAtLimit, StopLearned, StopSettled, MayContinue, queue, input
  <2> QED
    BY <1>3, <2>1
<1>5. CASE SeedBatch
  <2>1. EntryFrontier \in FrontierArray
    BY <1>1, EntryFrontierType
  <2>2. PICK slots \in AdmittedSlots(EntryFrontier) :
          /\ AbsorbFrontier(FrontierOf(EntryFrontier, slots))
          /\ RecordOffer(EntryFrontier, slots)
    BY <1>5 DEF SeedBatch, Absorb
  <2>3. HashCovered' /\ \A m \in NodeOrNone : Accounted(m) => Accounted(m)'
    BY <2>1, <2>2, AbsorbSettles DEF MinimumInvariant
  <2>4. /\ pc = "seed" /\ pc' = "seed"
        /\ UNCHANGED <<graph, expanded, trace>>
    BY <1>5 DEF SeedBatch, input
  <2>5. RoundInTrace'
    BY <2>4 DEF RoundInTrace
  <2>6. TraceSettled'
    <3>1. ASSUME NEW e \in 1 .. MaxExpansions, e <= Offered'
          PROVE  trace[e] \in Nodes /\ \A m \in OutEdges(trace[e]) : Accounted(m)'
      <4>1. e <= Offered
        BY <2>4, <3>1 DEF Offered
      <4>2. trace[e] \in Nodes /\ \A m \in OutEdges(trace[e]) : Accounted(m)
        BY <4>1 DEF MinimumInvariant, TraceSettled
      <4> QED
        BY <1>2, <2>3, <4>2
    <3> QED
      BY <2>4, <3>1 DEF TraceSettled, OutEdges
  <2> QED
    BY <2>3, <2>5, <2>6
<1>6. CASE SelectNodes
  <2>1. /\ pc = "check" /\ pc' = (IF Chosen = {} THEN "done" ELSE "expand")
        /\ count' = Cardinality(Chosen) /\ expanded' = expanded + count'
        /\ trace' = [e \in 1 .. MaxExpansions |->
                       IF e - expanded \in 1 .. count' THEN selected'[e - expanded] ELSE trace[e]]
        /\ UNCHANGED <<graph, valid, hash, given, hidden>>
    BY <1>6 DEF SelectNodes, MayContinue, input
  <2>2. \A i \in 1 .. Capacity : list'[i].id = list[i].id
    BY <1>1, <1>6 DEF SelectNodes, CandidateArray, Candidate
  <2>3. count' \in 0 .. Width /\ (Chosen = {} => count' = 0)
    BY <2>1, ChosenFilled, FS_EmptySet DEF MinimumInvariant, OrderInvariant
  <2>4. \A m : (Settled(m)' <=> Settled(m)) /\ (Accounted(m)' <=> Accounted(m))
    <3>1. TopL \in 1 .. Capacity /\ \A i \in PrefixRanks(valid) : i \in 1 .. Capacity
      BY <1>1, PrefixRange
    <3> QED
      BY <2>1, <2>2, <3>1 DEF Settled, Accounted, SettledIn, InPrefixOf
  <2>5. HashCovered'
    BY <2>1, <2>4 DEF MinimumInvariant, HashCovered, BitsOf
  <2>6. RoundInTrace'
    <3>1. expanded' - count' = expanded /\ count' <= expanded'
      BY <1>1, <2>1, <2>3
    <3>2. ASSUME NEW k \in 1 .. count', expanded + k \in 1 .. MaxExpansions
          PROVE  trace'[expanded + k] = selected'[k]
      <4>1. (expanded + k) - expanded = k
        BY <1>1, <2>3
      <4> QED
        BY <2>1, <3>2, <4>1
    <3> QED
      BY <3>1, <3>2 DEF RoundInTrace
  <2>7. Offered' = expanded
    BY <1>1, <2>1, <2>3 DEF Offered
  <2>8. TraceSettled'
    <3>1. ASSUME NEW e \in 1 .. MaxExpansions, e <= expanded
          PROVE  /\ trace'[e] = trace[e]
                 /\ trace[e] \in Nodes /\ \A m \in OutEdges(trace[e]) : Accounted(m)'
      <4>1. e <= Offered
        BY <2>1, <3>1 DEF Offered
      <4>2. e - expanded \notin 1 .. count'
        BY <1>1, <2>3, <3>1
      <4>3. trace'[e] = trace[e]
        BY <2>1, <4>2
      <4>4. trace[e] \in Nodes /\ \A m \in OutEdges(trace[e]) : Accounted(m)
        BY <4>1 DEF MinimumInvariant, TraceSettled
      <4> QED
        BY <2>4, <4>3, <4>4
    <3> QED
      BY <2>1, <2>7, <3>1 DEF TraceSettled, OutEdges
  <2> QED
    BY <2>5, <2>6, <2>8
<1>7. CASE ExpandSelected
  <2>1. /\ pc = "expand" /\ pc' = "check" /\ UNCHANGED <<graph, expanded, trace, count, selected>>
    BY <1>7 DEF ExpandSelected, input
  <2>2. \A k \in 1 .. count : selected[k] \in Nodes
    BY <2>1 DEF MinimumInvariant, OrderInvariant, FilterInvariant, SelectedNodes
  <2>3. OfferedNeighbors \in FrontierArray
    <3>1. staged' \in [1 .. Width -> Row]
      BY <1>1, <1>7, <2>2, ParametersAssumption DEF ExpandSelected, TypeOK
    <3> QED
      BY <1>1, <2>2, <3>1, OfferedNeighborsType
  <2>4. PICK slots \in AdmittedSlots(OfferedNeighbors) :
          /\ AbsorbFrontier(FrontierOf(OfferedNeighbors, slots))
          /\ RecordOffer(OfferedNeighbors, slots)
    BY <1>7 DEF ExpandSelected, Absorb
  <2>5. /\ HashCovered' /\ \A m \in NodeOrNone : Accounted(m) => Accounted(m)'
        /\ \A s \in Admitted(OfferedNeighbors) : 
             SettledIn(list', valid', OfferedNeighbors[s]) \/ OfferedNeighbors[s] \in hidden'
    BY <2>3, <2>4, AbsorbSettles DEF MinimumInvariant
  <2>6. ASSUME NEW k \in 1 .. count, NEW m \in OutEdges(selected[k]) PROVE Accounted(m)'
    <3>1. PICK s \in Admitted(OfferedNeighbors) : OfferedNeighbors[s] = m
      BY <1>1, <1>7, <2>2, RowsAreOffered
    <3>2. SettledIn(list', valid', m) \/ m \in hidden'
      BY <2>5, <3>1
    <3> QED
      BY <3>2 DEF Settled, Accounted
  <2>7. RoundInTrace'
    BY <2>1 DEF RoundInTrace
  <2>8. TraceSettled'
    <3>2. ASSUME NEW e \in 1 .. MaxExpansions, e <= expanded
          PROVE  trace[e] \in Nodes /\ \A m \in OutEdges(trace[e]) : Accounted(m)'
      <4>1. CASE e <= expanded - count
        <5>1. trace[e] \in Nodes /\ \A m \in OutEdges(trace[e]) : Accounted(m)
          BY <2>1, <4>1 DEF MinimumInvariant, TraceSettled, Offered
        <5> QED
          BY <1>2, <2>5, <5>1
      <4>2. CASE ~(e <= expanded - count)
        <5> DEFINE k == e - (expanded - count)
        <5>1. k \in 1 .. count /\ expanded - count + k = e
          BY <1>1, <3>2, <4>2
        <5>2. trace[e] = selected[k]
          BY <2>1, <5>1 DEF MinimumInvariant, RoundInTrace
        <5> HIDE DEF k
        <5> QED
          BY <2>2, <2>6, <5>1, <5>2
      <4> QED
        BY <4>1, <4>2
    <3> QED
      BY <2>1, <3>2 DEF TraceSettled, Offered, OutEdges
  <2> QED
    BY <2>5, <2>7, <2>8
<1>8. CASE UNCHANGED vars
  BY <1>8 DEF vars, queue, input, MinimumInvariant, HashCovered, RoundInTrace, TraceSettled,
              Offered, Settled, Accounted, OutEdges
<1> QED
  BY <1>4, <1>5, <1>6, <1>7, <1>8 DEF Next

(* A search ends at a local minimum: each neighbour of each node that it   *)
(* expanded is in the prefix, or not nearer than the last of a full        *)
(* prefix, or hidden behind the bits of other nodes, whatever the filter   *)
(* has forgotten at its rebuilds, the merges have pushed out and the       *)
(* threads of the block have interleaved, and for every assignment of bits *)
(* to nodes.  It needs a warp for each selected node: a row beyond is not  *)
(* read.                                                                   *)
THEOREM EndsAtLocalMinimum ==
  ASSUME Width <= Warps
  PROVE  Spec => []LocalMinimum
<1>1. OrderInvariant /\ HashCovered /\ RoundInTrace /\ TraceSettled /\ [Next]_vars
        => HashCovered' /\ RoundInTrace' /\ TraceSettled'
  BY MinimumStep DEF MinimumInvariant
<1>2. OrderInvariant /\ TraceSettled => LocalMinimum
  <2> SUFFICES ASSUME OrderInvariant, TraceSettled, pc = "done",
                      NEW n \in Expansions, NEW m \in OutEdges(n)
               PROVE  \/ InPrefix(m)
                      \/ valid >= TopL /\ ~CandidateLess(m, list[TopL].id)
                      \/ m \in hidden
    BY DEF LocalMinimum
  <2>1. expanded \in Nat /\ MaxExpansions \in Nat
    BY ParametersAssumption DEF OrderInvariant, FilterInvariant, TypeOK
  <2>2. PICK e \in 1 .. SmallerOf(expanded, MaxExpansions) : n = trace[e]
    BY DEF Expansions
  <2>3. e \in 1 .. MaxExpansions /\ e <= Offered
    BY <2>1 DEF SmallerOf, Offered
  <2>4. Accounted(m)
    BY <2>2, <2>3 DEF TraceSettled
  <2> QED
    BY <2>4 DEF Accounted, Settled, SettledIn, InPrefixOf, InPrefix
<1> QED
  BY <1>1, <1>2, MinimumInit, OrderInvariance, PTL DEF Spec
-----------------------------------------------------------------------------
(* With search width 1, rows and entry lists that name no node twice keep  *)
(* the prefix free of repeated nodes: what is offered in a round differs,  *)
(* and the filter refuses what the prefix holds.                           *)
DistinctRows ==
  \A g \in Graphs : \A n \in Nodes : \A i, j \in 1 .. Degree :
    i # j /\ g[n][i] # NoNode => g[n][i] # g[n][j]

DistinctEntries ==
  \A e \in EntryLists : \A i, j \in DOMAIN e : i # j /\ e[i] # NoNode => e[i] # e[j]

SingleFile == Width = 1 /\ DistinctRows /\ DistinctEntries

OffersDiffer(offered) ==
  \A s, t \in Admitted(offered) : s # t => offered[s] # offered[t]

LEMMA EntryOffersDiffer ==
  ASSUME SingleFile, TypeOK PROVE OffersDiffer(EntryFrontier)
<1>1. /\ entries \in Seq(NodeOrNone) /\ entries \in EntryLists
      /\ batch \in Nat /\ Slots \in Nat /\ batch * Slots \in Nat
  BY InputsAssumption, SizesAssumption DEF TypeOK
<1>2. ASSUME NEW s \in Admitted(EntryFrontier)
      PROVE  /\ s \in Nat /\ batch * Slots + s \in DOMAIN entries
             /\ EntryFrontier[s] = entries[batch * Slots + s] /\ EntryFrontier[s] # NoNode
  BY <1>1 DEF Admitted, EntryFrontier
<1>3. ASSUME NEW s \in Admitted(EntryFrontier), NEW t \in Admitted(EntryFrontier), s # t
      PROVE  EntryFrontier[s] # EntryFrontier[t]
  <2>1. batch * Slots + s # batch * Slots + t
    BY <1>1, <1>2, <1>3
  <2> QED
    BY <1>1, <1>2, <2>1 DEF SingleFile, DistinctEntries
<1> QED
  BY <1>3 DEF OffersDiffer

LEMMA NeighborOffersDiffer ==
  ASSUME SingleFile, TypeOK, ExpandSelected, \A k \in 1 .. count : selected[k] \in Nodes
  PROVE  OffersDiffer(OfferedNeighbors)
<1>1. /\ Degree \in Nat \ {0} /\ Width = 1 /\ Slots = Degree /\ count \in 0 .. 1
      /\ Warps \in Nat \ {0} /\ graph \in Graphs
  BY ParametersAssumption DEF SingleFile, TypeOK
<1>2. ASSUME NEW s \in Admitted(OfferedNeighbors)
      PROVE  /\ s \in 1 .. Degree /\ count = 1 /\ OfferedNeighbors[s] = graph[selected[1]][s]
             /\ OfferedNeighbors[s] # NoNode
  <2>1. s \in 1 .. Degree
    BY <1>1 DEF Admitted
  <2>2. (s - 1) \div Degree = 0 /\ (s - 1) % Degree = s - 1
    BY <1>1, <2>1
  <2>3. SelectedIndex(s) = 1 /\ NeighborIndex(s) = s
    BY <2>1, <2>2 DEF SelectedIndex, NeighborIndex
  <2>4. OfferedNeighbors[s] # NoNode /\ s \in 1 .. Slots
    BY DEF Admitted
  <2>5. 1 <= count /\ OfferedNeighbors[s] = Neighbors(1)[s]
    BY <2>3, <2>4 DEF OfferedNeighbors
  <2>6. count = 1
    BY <1>1, <2>5
  <2>7. Neighbors(1) = graph[selected[1]]
    BY <1>1, <2>6 DEF ExpandSelected, Neighbors
  <2> QED
    BY <2>1, <2>4, <2>5, <2>6, <2>7
<1>3. ASSUME NEW s \in Admitted(OfferedNeighbors), NEW t \in Admitted(OfferedNeighbors), s # t
      PROVE  OfferedNeighbors[s] # OfferedNeighbors[t]
  <2>1. selected[1] \in Nodes
    BY <1>2
  <2> QED
    BY <1>1, <1>2, <1>3, <2>1 DEF SingleFile, DistinctRows
<1> QED
  BY <1>3 DEF OffersDiffer

(* No admitted node is in the prefix.                                      *)
LEMMA AdmittedAreNew ==
  ASSUME OrderInvariant, NEW offered \in FrontierArray, NEW slots \in AdmittedSlots(offered),
         NEW s \in Admitted(FrontierOf(offered, slots))
  PROVE  /\ s \in Admitted(offered) /\ FrontierOf(offered, slots)[s] = offered[s]
         /\ ~InPrefix(offered[s])
<1>1. s \in Admitted(offered) /\ s \in slots /\ FrontierOf(offered, slots)[s] = offered[s]
  BY DEF FrontierOf, Admitted
<1>2. ~VisitedTest(offered[s], hash)
  BY <1>1 DEF AdmittedSlots
<1>3. ASSUME NEW i \in PrefixRanks(valid), list[i].id = offered[s] PROVE FALSE
  <2>1. IsValid(list[i])
    BY <1>1, <1>3 DEF Admitted, IsValid
  <2> QED
    BY <1>2, <1>3, <2>1 DEF OrderInvariant, FilterInvariant, PrefixInHash
<1> QED
  BY <1>1, <1>3 DEF InPrefix

(* Where the entries of the prefix after a round come from.                *)
LEMMA AbsorbOrigin ==
  ASSUME OrderInvariant, NEW offered \in FrontierArray, NEW slots \in AdmittedSlots(offered),
         AbsorbFrontier(FrontierOf(offered, slots)), NEW p \in PrefixRanks(valid')
  PROVE  \/ \E s \in Admitted(offered) :
              /\ s \in slots /\ list'[p] = [id |-> offered[s], expanded |-> FALSE]
              /\ ~InPrefix(offered[s])
              /\ valid >= TopL => ~CandidateLess(list[TopL].id, offered[s])
         \/ \E q \in PrefixRanks(valid) : list'[p] = list[q]
<1> DEFINE frontier == FrontierOf(offered, slots)
<1>1. /\ list \in CandidateArray /\ valid \in 0 .. Capacity /\ InOrder(list, valid)
      /\ frontier \in FrontierArray
  BY FrontierOfType DEF OrderInvariant, FilterInvariant, TypeOK, ListOrdered, InOrder
<1>2. /\ list' = MergeFrontier(list, valid, frontier, launch.high_l)
      /\ valid' = NewValidCount(valid, frontier)
  BY DEF AbsorbFrontier
<1>3. ASSUME NEW s \in Admitted(frontier)
      PROVE  /\ s \in Admitted(offered) /\ s \in slots
             /\ frontier[s] = offered[s] /\ ~InPrefix(offered[s])
  <2>1. s \in slots
    BY DEF FrontierOf, Admitted
  <2> QED
    BY <2>1, AdmittedAreNew
<1> HIDE DEF frontier
<1>4. CASE \E s \in AtSlots(list, valid, frontier, launch.high_l, p) :
             /\ s \in Admitted(frontier)
             /\ list'[p] = [id |-> frontier[s], expanded |-> FALSE]
             /\ valid >= TopL => ~CandidateLess(list[TopL].id, frontier[s])
  BY <1>3, <1>4
<1> QED
  BY <1>1, <1>2, <1>4, PrefixOrigin

LEMMA AbsorbKeepsDistinct ==
  ASSUME OrderInvariant, PrefixDistinct,
         NEW offered \in FrontierArray, OffersDiffer(offered), NEW slots \in AdmittedSlots(offered),
         AbsorbFrontier(FrontierOf(offered, slots))
  PROVE  PrefixDistinct'
<1> DEFINE frontier == FrontierOf(offered, slots)
           At(p) == AtSlots(list, valid, frontier, launch.high_l, p)
           Old(p) == OldPlace(list, valid, frontier, launch.high_l, p)
<1>1. /\ list \in CandidateArray /\ valid \in 0 .. Capacity /\ InOrder(list, valid)
      /\ frontier \in FrontierArray
  BY FrontierOfType DEF OrderInvariant, FilterInvariant, TypeOK, ListOrdered, InOrder
<1>2. /\ list' = MergeFrontier(list, valid, frontier, launch.high_l)
      /\ valid' = NewValidCount(valid, frontier)
  BY DEF AbsorbFrontier
<1>3. ASSUME NEW s \in Admitted(frontier)
      PROVE  s \in Admitted(offered) /\ frontier[s] = offered[s] /\ ~InPrefix(offered[s])
  BY AdmittedAreNew
<1>4. ASSUME NEW p \in PrefixRanks(valid')
      PROVE  \/ \E s \in At(p) : s \in Admitted(frontier) /\ list'[p].id = frontier[s]
             \/ At(p) = {} /\ list'[p] = list[Old(p)] /\ Old(p) \in PrefixRanks(valid)
  <2>1. p \in PrefixRanks(NewValidCount(valid, frontier))
    BY <1>2
  <2>2. CASE \E s \in At(p) :
               s \in Admitted(frontier) /\ list'[p] = [id |-> frontier[s], expanded |-> FALSE]
    <3>1. PICK s \in At(p) :
               s \in Admitted(frontier) /\ list'[p] = [id |-> frontier[s], expanded |-> FALSE]
      BY <2>2
    <3>2. list'[p].id = frontier[s]
      BY <3>1
    <3> QED
      BY <3>1, <3>2
  <2> HIDE DEF frontier
  <2>3. \/ \E s \in At(p) :
              s \in Admitted(frontier) /\ list'[p] = [id |-> frontier[s], expanded |-> FALSE]
        \/ At(p) = {} /\ list'[p] = list[Old(p)] /\ Old(p) \in PrefixRanks(valid)
    BY <1>1, <1>2, <2>1, PrefixOrigin
  <2> QED
    BY <2>2, <2>3
<1>5. \A p \in PrefixRanks(valid') : p \in Nat /\ p \in 1 .. NewValidCount(valid, frontier)
  <2>1. valid' \in 0 .. Capacity
    BY <1>1, <1>2, NewValidCountBounds, SizesAssumption
  <2> HIDE DEF frontier
  <2> QED
    BY <1>2, <2>1, SizesAssumption DEF PrefixRanks, SmallerOf
<1>6. ASSUME NEW p \in PrefixRanks(valid'), NEW r \in PrefixRanks(valid'), p < r
      PROVE  list'[p].id # list'[r].id
  <2>1. CASE \E s \in At(p), t \in At(r) :
               /\ s \in Admitted(frontier) /\ list'[p].id = frontier[s]
               /\ t \in Admitted(frontier) /\ list'[r].id = frontier[t]
    <3>1. PICK s \in At(p), t \in At(r) :
               /\ s \in Admitted(frontier) /\ list'[p].id = frontier[s]
               /\ t \in Admitted(frontier) /\ list'[r].id = frontier[t]
      BY <2>1
    <3>2. s # t
      BY <1>5, <1>6 DEF AtSlots
    <3> QED
      BY <1>3, <3>1, <3>2 DEF OffersDiffer
  <2>2. CASE \E s \in At(p) :
               /\ s \in Admitted(frontier) /\ list'[p].id = frontier[s]
               /\ list'[r] = list[Old(r)] /\ Old(r) \in PrefixRanks(valid)
    BY <1>3, <2>2 DEF InPrefix
  <2>3. CASE \E t \in At(r) :
               /\ t \in Admitted(frontier) /\ list'[r].id = frontier[t]
               /\ list'[p] = list[Old(p)] /\ Old(p) \in PrefixRanks(valid)
    BY <1>3, <2>3 DEF InPrefix
  <2>4. CASE /\ At(p) = {} /\ list'[p] = list[Old(p)] /\ Old(p) \in PrefixRanks(valid)
             /\ list'[r] = list[Old(r)] /\ Old(r) \in PrefixRanks(valid)
    <3>1. Old(p) < Old(r)
      <4> HIDE DEF frontier
      <4> QED
        BY <1>1, <1>5, <1>6, <2>4, OldKeepOrder
    <3>2. Old(p) \in Nat /\ Old(r) \in Nat
      <4> HIDE DEF Old
      <4> QED
        BY <1>1, <2>4, PrefixRange
    <3>3. Old(p) # Old(r)
      <4> HIDE DEF Old
      <4> QED
        BY <3>1, <3>2
    <3> QED
      BY <2>4, <3>3 DEF PrefixDistinct
  <2> HIDE DEF At, Old, frontier
  <2> QED
    BY <1>4, <2>1, <2>2, <2>3, <2>4
<1>7. ASSUME NEW p \in PrefixRanks(valid'), NEW r \in PrefixRanks(valid'), p # r
      PROVE  list'[p].id # list'[r].id
  <2>1. p < r \/ r < p
    BY <1>5, <1>7
  <2> QED
    BY <1>6, <2>1
<1> QED
  BY <1>7 DEF PrefixDistinct

(* With width 1 a round selects the best rank there is to expand.          *)
LEMMA SelectOne ==
  ASSUME FilterInvariant, Width = 1, SelectNodes
  PROVE  \/ Selectable = {} /\ Chosen = {} /\ count' = 0 /\ pc' = "done" /\ list' = list
         \/ \E i \in Selectable :
              /\ \A j \in Selectable : i <= j
              /\ count' = 1 /\ pc' = "expand" /\ selected'[1] = list[i].id
              /\ \A j \in 1 .. Capacity :
                   list'[j] = IF j = i THEN [list[j] EXCEPT !.expanded = TRUE] ELSE list[j]
<1>1. /\ list \in CandidateArray /\ valid \in 0 .. Capacity /\ unexpanded \subseteq PrefixRanks(valid)
  BY DEF FilterInvariant, TypeOK
<1>2. Selectable \subseteq 1 .. Capacity /\ Selectable \subseteq Nat /\ IsFiniteSet(Selectable)
  <2>1. IsFiniteSet(1 .. Capacity)
    BY FS_Interval, SizesAssumption
  <2>2. Selectable \subseteq 1 .. Capacity
    BY <1>1, PrefixRange DEF Selectable
  <2> QED
    <3>1. IsFiniteSet(Selectable)
      BY <2>1, <2>2, FS_Subset
    <3>2. 1 .. Capacity \subseteq Nat
      OBVIOUS
    <3> QED
      BY <2>2, <3>1, <3>2
<1>3. Chosen = {i \in Selectable : PlaceOf(Selectable, i) <= 1}
  BY DEF Chosen, FirstRanks
<1>4. CASE Selectable = {}
  <2>1. Chosen = {}
    BY <1>3, <1>4
  <2>2. Cardinality(Chosen) = 0
    BY <2>1, FS_EmptySet
  <2>3. list' = [i \in 1 .. Capacity |-> list[i]]
    BY <2>1 DEF SelectNodes
  <2> QED
    BY <1>1, <1>4, <2>1, <2>2, <2>3 DEF SelectNodes, CandidateArray
<1>5. CASE Selectable # {}
  <2>1. Cardinality(Selectable) \in Nat \ {0}
    BY <1>2, <1>5, FS_EmptySet, FS_CardinalityType
  <2>2. PICK i \in Selectable : PlaceOf(Selectable, i) = 1
    <3>1. 1 \in 1 .. Cardinality(Selectable)
      BY <2>1
    <3> QED
      BY <1>2, <3>1, PlacesFilled
  <2>3. ASSUME NEW j \in Selectable PROVE PlaceOf(Selectable, j) \in Nat \ {0}
    <3>1. PlaceOf(Selectable, j) \in 1 .. Cardinality(Selectable)
      BY <1>2, PlaceBounds
    <3> QED
      BY <2>1, <3>1
  <2>4. ASSUME NEW j \in Selectable PROVE i <= j
    <3>1. i \in Nat /\ j \in Nat
      BY <1>2
    <3>2. ASSUME j < i PROVE FALSE
      <4>1. PlaceOf(Selectable, j) < PlaceOf(Selectable, i)
        BY <1>2, <3>2, PlacesIncrease
      <4> QED
        BY <2>2, <2>3, <4>1
    <3> QED
      BY <3>1, <3>2
  <2>5. Chosen = {i}
    <3>1. ASSUME NEW j \in Selectable, PlaceOf(Selectable, j) <= 1 PROVE j = i
      <4>1. PlaceOf(Selectable, j) = PlaceOf(Selectable, i)
        BY <2>2, <2>3, <3>1
      <4> QED
        BY <1>2, <4>1, PlacesDiffer
    <3> QED
      BY <1>3, <2>2, <3>1
  <2>6. Cardinality(Chosen) = 1
    BY <2>5, FS_Singleton
  <2>7. ChosenAt(1) = {i}
    <3>1. {j \in Chosen : j < i} = {}
      BY <1>2, <2>5
    <3>2. PlaceOf(Chosen, i) = 1
      BY <3>1, FS_EmptySet DEF PlaceOf
    <3> QED
      BY <2>5, <3>2 DEF ChosenAt
  <2>8. selected'[1] = list[i].id
    <3>1. (CHOOSE j \in ChosenAt(1) : TRUE) = i /\ ChosenAt(1) # {}
      BY <2>7
    <3>2. selected' = [k \in 1 .. Width |->
                         IF ChosenAt(k) = {} THEN selected[k]
                         ELSE list[CHOOSE j \in ChosenAt(k) : TRUE].id]
      BY DEF SelectNodes
    <3>3. selected'[1] = IF ChosenAt(1) = {} THEN selected[1]
                         ELSE list[CHOOSE j \in ChosenAt(1) : TRUE].id
      BY <3>2
    <3> QED
      BY <3>1, <3>3
  <2>9. count' = 1 /\ pc' = "expand"
    BY <2>5, <2>6 DEF SelectNodes
  <2>10. \A j \in 1 .. Capacity :
           list'[j] = IF j = i THEN [list[j] EXCEPT !.expanded = TRUE] ELSE list[j]
    BY <2>5 DEF SelectNodes
  <2> QED
    BY <2>4, <2>8, <2>9, <2>10
<1> QED
  BY <1>4, <1>5

(* A node that has been expanded is in the prefix with its flag set, or is *)
(* out of the prefix for good: no farther node can be in front of it.      *)
Retired(n) ==
  \/ \E i \in PrefixRanks(valid) : list[i].id = n /\ list[i].expanded
  \/ Settled(n) /\ ~InPrefix(n)

TraceRetired ==
  \A e \in 1 .. MaxExpansions : e <= expanded => trace[e] \in Nodes /\ Retired(trace[e])

OnceInvariant == OrderInvariant /\ PrefixDistinct /\ TraceRetired /\ ExpandedOnce

LEMMA AbsorbKeepsRetired ==
  ASSUME OrderInvariant, PrefixDistinct,
         NEW offered \in FrontierArray, NEW slots \in AdmittedSlots(offered),
         AbsorbFrontier(FrontierOf(offered, slots)), NEW n \in Nodes, Retired(n)
  PROVE  Retired(n)'
<1>1. /\ list \in CandidateArray /\ valid \in 0 .. Capacity /\ n \in NodeOrNone
      /\ FrontierOf(offered, slots) \in FrontierArray
  BY FrontierOfType DEF OrderInvariant, FilterInvariant, TypeOK, NodeOrNone
<1>2. Settled(n)
  BY DEF Retired, Settled, SettledIn, InPrefixOf
<1>3. Settled(n)'
  BY <1>1, <1>2, AbsorbKeepsSettled DEF Settled
<1>4. CASE ~InPrefix(n)'
  BY <1>3, <1>4 DEF Retired
<1>5. CASE InPrefix(n)'
  <2>1. PICK p \in PrefixRanks(valid') : list'[p].id = n
    BY <1>5 DEF InPrefix
  <2>2. ASSUME NEW s \in Admitted(offered),
               list'[p] = [id |-> offered[s], expanded |-> FALSE], ~InPrefix(offered[s]),
               valid >= TopL => ~CandidateLess(list[TopL].id, offered[s])
        PROVE  FALSE
    <3>1. offered[s] = n
      BY <2>1, <2>2
    <3>2. ~InPrefix(n)
      BY <2>2, <3>1
    <3>3. valid >= TopL /\ ~CandidateLess(n, list[TopL].id)
      BY <1>2, <3>2 DEF Settled, SettledIn, InPrefixOf, InPrefix
    <3>4. ~CandidateLess(list[TopL].id, n)
      BY <2>2, <3>1, <3>3
    <3>5. TopL \in PrefixRanks(valid) /\ list[TopL].id \in NodeOrNone
      BY <1>1, <3>3, PrefixRange DEF CandidateArray, Candidate
    <3>6. list[TopL].id = n
      BY <1>1, <3>3, <3>4, <3>5, CandidateOrder
    <3> QED
      BY <3>2, <3>5, <3>6 DEF InPrefix
  <2>3. ASSUME NEW q \in PrefixRanks(valid), list'[p] = list[q] PROVE Retired(n)'
    <3>1. list[q].id = n
      BY <2>1, <2>3
    <3>2. PICK i \in PrefixRanks(valid) : list[i].id = n /\ list[i].expanded
      BY <3>1 DEF Retired, InPrefix
    <3>3. i = q
      BY <3>1, <3>2 DEF PrefixDistinct
    <3>4. list'[p].expanded
      BY <2>3, <3>2, <3>3
    <3> QED
      BY <2>1, <3>4 DEF Retired
  <2> QED
    BY <2>2, <2>3, AbsorbOrigin
<1> QED
  BY <1>4, <1>5

LEMMA OnceInit == Init => PrefixDistinct /\ TraceRetired /\ ExpandedOnce
BY SizesAssumption, ParametersAssumption
DEF Init, PrefixDistinct, PrefixRanks, SmallerOf, TraceRetired, ExpandedOnce

LEMMA OnceStep ==
  ASSUME SingleFile, OnceInvariant, [Next]_vars
  PROVE  PrefixDistinct' /\ TraceRetired' /\ ExpandedOnce'
<1>1. /\ TypeOK /\ expanded \in Nat /\ MaxExpansions \in Nat /\ Width = 1
      /\ list \in CandidateArray /\ valid \in 0 .. Capacity
  BY ParametersAssumption
  DEF SingleFile, OnceInvariant, OrderInvariant, FilterInvariant, TypeOK
<1>2. ASSUME UNCHANGED <<list, valid, expanded, trace>>
      PROVE  PrefixDistinct' /\ TraceRetired' /\ ExpandedOnce'
  BY <1>2 DEF OnceInvariant, PrefixDistinct, TraceRetired, ExpandedOnce, Retired, Settled, InPrefix
<1>3. ASSUME NEW offered \in FrontierArray, OffersDiffer(offered),
             NEW slots \in AdmittedSlots(offered),
             AbsorbFrontier(FrontierOf(offered, slots)), UNCHANGED <<expanded, trace>>
      PROVE  PrefixDistinct' /\ TraceRetired' /\ ExpandedOnce'
  <2>1. PrefixDistinct'
    BY <1>3, AbsorbKeepsDistinct DEF OnceInvariant
  <2>2. ASSUME NEW n \in Nodes, Retired(n) PROVE Retired(n)'
    BY <1>3, <2>2, AbsorbKeepsRetired DEF OnceInvariant
  <2>3. TraceRetired'
    <3>1. ASSUME NEW e \in 1 .. MaxExpansions, e <= expanded
          PROVE  \E n \in Nodes : trace'[e] = n /\ Retired(n)'
      BY <1>3, <2>2, <3>1 DEF OnceInvariant, TraceRetired
    <3> QED
      BY <1>3, <3>1 DEF TraceRetired, Retired, Settled, InPrefix
  <2>4. ExpandedOnce'
    BY <1>3 DEF OnceInvariant, ExpandedOnce
  <2> QED
    BY <2>1, <2>3, <2>4
<1>4. CASE SeedBatch
  <2>1. EntryFrontier \in FrontierArray /\ OffersDiffer(EntryFrontier)
    BY <1>1, EntryFrontierType, EntryOffersDiffer
  <2>2. PICK slots \in AdmittedSlots(EntryFrontier) :
          AbsorbFrontier(FrontierOf(EntryFrontier, slots))
    BY <1>4 DEF SeedBatch, Absorb
  <2>3. UNCHANGED <<expanded, trace>>
    BY <1>4 DEF SeedBatch
  <2> QED
    BY <1>3, <2>1, <2>2, <2>3
<1>5. CASE ExpandSelected
  <2>1. \A k \in 1 .. count : selected[k] \in Nodes
    BY <1>5 DEF ExpandSelected, OnceInvariant, OrderInvariant, FilterInvariant, SelectedNodes
  <2>2. staged' \in [1 .. Width -> Row]
    <3>1. graph \in [Nodes -> Row] /\ count \in 0 .. Width
      BY <1>1, InputsAssumption DEF TypeOK
    <3> QED
      BY <1>1, <1>5, <2>1, <3>1, ParametersAssumption DEF ExpandSelected, TypeOK
  <2>3. OfferedNeighbors \in FrontierArray /\ OffersDiffer(OfferedNeighbors)
    BY <1>1, <1>5, <2>1, <2>2, OfferedNeighborsType, NeighborOffersDiffer
  <2>4. PICK slots \in AdmittedSlots(OfferedNeighbors) :
          AbsorbFrontier(FrontierOf(OfferedNeighbors, slots))
    BY <1>5 DEF ExpandSelected, Absorb
  <2>5. UNCHANGED <<expanded, trace>>
    BY <1>5 DEF ExpandSelected
  <2> QED
    BY <1>3, <2>3, <2>4, <2>5
<1>6. CASE SelectNodes
  <2>1. /\ valid' = valid /\ expanded < MaxExpansions /\ expanded' = expanded + count'
        /\ trace' = [e \in 1 .. MaxExpansions |->
                       IF e - expanded \in 1 .. count' THEN selected'[e - expanded] ELSE trace[e]]
    BY <1>6 DEF SelectNodes, MayContinue
  <2>2. CASE count' = 0 /\ list' = list
    <3>1. expanded' = expanded
      BY <1>1, <2>1, <2>2
    <3>2. trace' = [e \in 1 .. MaxExpansions |-> trace[e]]
      BY <2>1, <2>2
    <3>3. trace' = trace
      BY <1>1, <3>2 DEF TypeOK
    <3> QED
      BY <1>2, <2>1, <2>2, <3>1, <3>3
  <2>3. CASE \E i \in Selectable :
               /\ count' = 1 /\ selected'[1] = list[i].id
               /\ \A j \in 1 .. Capacity :
                    list'[j] = IF j = i THEN [list[j] EXCEPT !.expanded = TRUE] ELSE list[j]
    <3>1. PICK i \in Selectable :
               /\ count' = 1 /\ selected'[1] = list[i].id
               /\ \A j \in 1 .. Capacity :
                    list'[j] = IF j = i THEN [list[j] EXCEPT !.expanded = TRUE] ELSE list[j]
      BY <2>3
    <3>2. /\ i \in PrefixRanks(valid) /\ IsValid(list[i]) /\ ~list[i].expanded
          /\ i \in 1 .. Capacity
      BY <1>1, PrefixRange DEF Selectable, TypeOK
    <3>3. list[i].id \in Nodes
      BY <1>1, <3>2 DEF CandidateArray, Candidate, IsValid, NodeOrNone
    <3>4. ASSUME NEW j \in PrefixRanks(valid)
          PROVE  /\ list'[j].id = list[j].id /\ (list[j].expanded => list'[j].expanded)
                 /\ list'[i].expanded
      <4>1. j \in 1 .. Capacity
        BY <1>1, PrefixRange
      <4>2. list[i] \in Candidate /\ list[j] \in Candidate
        BY <1>1, <3>2, <4>1 DEF CandidateArray
      <4> QED
        BY <3>1, <3>2, <4>1, <4>2 DEF Candidate
    <3>5. TopL \in 1 .. Capacity /\ list'[TopL].id = list[TopL].id
      <4>1. TopL \in 1 .. Capacity
        BY <1>1, PrefixRange
      <4>2. list[TopL] \in Candidate
        BY <1>1, <4>1 DEF CandidateArray
      <4> QED
        BY <3>1, <4>1, <4>2 DEF Candidate
    <3>6. PrefixDistinct'
      BY <2>1, <3>4 DEF OnceInvariant, PrefixDistinct
    <3>7. ASSUME NEW n \in Nodes, Retired(n) PROVE Retired(n)'
      <4>1. InPrefix(n)' <=> InPrefix(n)
        BY <2>1, <3>4 DEF InPrefix
      <4>2. Settled(n)' <=> Settled(n)
        BY <2>1, <3>4, <3>5 DEF Settled, SettledIn, InPrefixOf
      <4> QED
        BY <2>1, <3>4, <3>7, <4>1, <4>2 DEF Retired
    <3>8. ASSUME NEW e \in 1 .. MaxExpansions, e <= expanded'
          PROVE  \/ e <= expanded /\ trace'[e] = trace[e]
                 \/ e = expanded + 1 /\ trace'[e] = list[i].id
      <4>1. CASE e <= expanded
        <5>1. e - expanded \notin 1 .. count'
          BY <1>1, <3>1, <4>1
        <5> QED
          BY <2>1, <4>1, <5>1
      <4>2. CASE ~(e <= expanded)
        <5>1. e = expanded + 1 /\ e - expanded = 1 /\ 1 \in 1 .. count'
          BY <1>1, <2>1, <3>1, <3>8, <4>2
        <5> QED
          BY <2>1, <3>1, <5>1
      <4> QED
        BY <4>1, <4>2
    <3>9. Retired(list[i].id) => FALSE
      <4>1. InPrefix(list[i].id)
        BY <3>2 DEF InPrefix
      <4>2. ASSUME NEW j \in PrefixRanks(valid), list[j].id = list[i].id, list[j].expanded
            PROVE  FALSE
        <5>1. i = j
          BY <3>2, <4>2 DEF OnceInvariant, PrefixDistinct
        <5> QED
          BY <3>2, <4>2, <5>1
      <4> QED
        BY <4>1, <4>2 DEF Retired
    <3>10. TraceRetired'
      <4>1. ASSUME NEW e \in 1 .. MaxExpansions, e <= expanded'
            PROVE  \E n \in Nodes : trace'[e] = n /\ Retired(n)'
        <5>1. CASE e <= expanded /\ trace'[e] = trace[e]
          BY <3>7, <5>1 DEF OnceInvariant, TraceRetired
        <5>2. CASE trace'[e] = list[i].id
          <6>1. \E j \in PrefixRanks(valid') : list'[j].id = list[i].id /\ list'[j].expanded
            BY <2>1, <3>2, <3>4
          <6>2. ASSUME NEW n \in Nodes, n = list[i].id PROVE Retired(n)'
            BY <6>1, <6>2 DEF Retired
          <6> QED
            BY <3>3, <5>2, <6>2
        <5> QED
          BY <3>8, <4>1, <5>1, <5>2
      <4> QED
        BY <4>1 DEF TraceRetired, Retired, Settled, InPrefix
    <3>11. ExpandedOnce'
      <4>1. ASSUME NEW e \in 1 .. MaxExpansions, NEW f \in 1 .. MaxExpansions,
                   e <= expanded', f <= expanded', e < f
            PROVE  trace'[e] # trace'[f]
        <5>1. e <= expanded /\ trace'[e] = trace[e]
          BY <1>1, <2>1, <3>1, <3>8, <4>1
        <5>2. CASE f <= expanded /\ trace'[f] = trace[f]
          <6>1. /\ e \in 1 .. SmallerOf(expanded, MaxExpansions)
                /\ f \in 1 .. SmallerOf(expanded, MaxExpansions) /\ e # f
            BY <1>1, <4>1, <5>1, <5>2 DEF SmallerOf
          <6> QED
            BY <5>1, <5>2, <6>1 DEF OnceInvariant, ExpandedOnce
        <5>3. CASE trace'[f] = list[i].id
          BY <3>9, <5>1, <5>3 DEF OnceInvariant, TraceRetired
        <5> QED
          BY <3>8, <4>1, <5>2, <5>3
      <4>2. ASSUME NEW e \in 1 .. SmallerOf(expanded', MaxExpansions),
                   NEW f \in 1 .. SmallerOf(expanded', MaxExpansions), e # f
            PROVE  trace'[e] # trace'[f]
        <5>1. expanded' \in Nat
          BY <1>1, <2>1, <3>1
        <5>2. /\ e \in 1 .. MaxExpansions /\ e <= expanded'
              /\ f \in 1 .. MaxExpansions /\ f <= expanded' /\ (e < f \/ f < e)
          BY <1>1, <4>2, <5>1 DEF SmallerOf
        <5> QED
          BY <4>1, <5>2
      <4> QED
        BY <4>2 DEF ExpandedOnce
    <3> QED
      BY <3>6, <3>10, <3>11
  <2> QED
    BY <1>1, <1>6, <2>2, <2>3, SelectOne DEF OnceInvariant, OrderInvariant
<1>7. CASE \/ FinishSeeding \/ StopAtLimit \/ StopLearned \/ StopSettled \/ UNCHANGED vars
  BY <1>2, <1>7 DEF FinishSeeding, StopAtLimit, StopLearned, StopSettled, vars, queue
<1> QED
  BY <1>4, <1>5, <1>6, <1>7 DEF Next

(* With search width 1, and rows and entry lists that name no node twice,  *)
(* no node is expanded twice, for every topology, filter (shared bits      *)
(* included) and kernel, although a rebuilt filter lets a dropped node in  *)
(* again: it stays behind the prefix, and one that is kept has its flag.   *)
THEOREM EachNodeExpandedOnce ==
  ASSUME SingleFile
  PROVE  Spec => []ExpandedOnce
<1>1. OrderInvariant /\ PrefixDistinct /\ TraceRetired /\ ExpandedOnce /\ [Next]_vars
        => PrefixDistinct' /\ TraceRetired' /\ ExpandedOnce'
  BY OnceStep DEF OnceInvariant
<1> QED
  BY <1>1, OnceInit, OrderInvariance, PTL DEF Spec
-----------------------------------------------------------------------------
(* The traversal implements the best-first search, step by step.           *)

(* The node of a round is the best of the prefix that was not expanded.    *)
SelectedNearest ==
  pc = "expand" =>
    /\ count = 1 /\ expanded \in 1 .. MaxExpansions
    /\ \E i \in PrefixRanks(valid) :
         /\ list[i].id = selected[1] /\ list[i].expanded
         /\ \A j \in PrefixRanks(valid) : ~list[j].expanded => i < j

SeedingExpandsNone == pc = "seed" => ExpandedIds = {}

(* The filter was given the nodes of the prefix, and hides none of them.   *)
FilterKnows == PrefixIds \subseteq given /\ hidden \cap PrefixIds = {}

(* The inductive invariant of the refinement.                              *)
SearchInvariant ==
  /\ OrderInvariant /\ HashCovered /\ PrefixDistinct /\ BitsRebuilt
  /\ FilterKnows /\ SelectedNearest /\ SeedingExpandsNone

OfferedIds(offered) == {offered[s] : s \in Admitted(offered)}

(* The nodes offered to a merge are finitely many nodes.                   *)
LEMMA OfferedFinite ==
  ASSUME NEW offered \in FrontierArray
  PROVE  OfferedIds(offered) \in SUBSET Nodes /\ IsFiniteSet(OfferedIds(offered))
<1> DEFINE node == [s \in Admitted(offered) |-> offered[s]]
<1>1. OfferedIds(offered) \in SUBSET Nodes
  BY DEF OfferedIds, Admitted, FrontierArray, NodeOrNone
<1>2. node \in Surjection(Admitted(offered), OfferedIds(offered))
  BY DEF Surjection, OfferedIds
<1>3. IsFiniteSet(OfferedIds(offered))
  <2> HIDE DEF node
  <2> QED
    BY <1>2, SlotsFinite, FS_Surjection
<1> QED
  BY <1>1, <1>3

LEMMA PrefixIdsFinite ==
  ASSUME OrderInvariant
  PROVE  PrefixIds \in SUBSET Nodes /\ IsFiniteSet(PrefixIds)
<1>1. list \in CandidateArray /\ valid \in 0 .. Capacity /\ valid \in Nat /\ TopL \in Nat
  BY SizesAssumption DEF OrderInvariant, FilterInvariant, TypeOK
<1>2. ASSUME NEW i \in PrefixRanks(valid) PROVE list[i].id \in Nodes
  <2>1. i \in 1 .. Capacity /\ i <= valid
    BY <1>1, PrefixRange
  <2>2. IsValid(list[i])
    BY <2>1 DEF OrderInvariant, ListOrdered
  <2> QED
    BY <1>1, <2>1, <2>2 DEF CandidateArray, Candidate, IsValid, NodeOrNone
<1> DEFINE node == [i \in PrefixRanks(valid) |-> list[i].id]
<1>3. node \in Surjection(PrefixRanks(valid), PrefixIds)
  BY DEF Surjection, PrefixIds
<1>4. IsFiniteSet(PrefixRanks(valid))
  <2>1. SmallerOf(valid, TopL) \in Nat
    BY <1>1 DEF SmallerOf
  <2> QED
    BY <2>1, FS_Interval DEF PrefixRanks
<1>5. IsFiniteSet(PrefixIds)
  <2> HIDE DEF node
  <2> QED
    BY <1>3, <1>4, FS_Surjection
<1> QED
  BY <1>2, <1>5 DEF PrefixIds

(* The nearest nodes, as the instance of the abstract search states them.  *)
LEMMA NearestNodes ==
  ASSUME NEW nodes
  PROVE  BestFirst!Nearest(nodes)
           = {n \in nodes : Cardinality({m \in nodes : CandidateLess(m, n)}) < TopL}
<1>1. \A S : BestFirst!Cardinality(S) = Cardinality(S)
  BY DEF BestFirst!Cardinality, Cardinality
<1> QED
  BY <1>1 DEF BestFirst!Nearest

(* A merge hides no node that it takes in, and none that it was not        *)
(* offered.                                                                *)
LEMMA AbsorbKnows ==
  ASSUME OrderInvariant, FilterKnows,
         NEW offered \in FrontierArray, NEW slots \in AdmittedSlots(offered),
         AbsorbFrontier(FrontierOf(offered, slots)), RecordOffer(offered, slots)
  PROVE  /\ FilterKnows'
         /\ hidden' \subseteq hidden \cup OfferedIds(offered)
         /\ hidden \ OfferedIds(offered) \subseteq hidden'
         /\ PrefixIds' \subseteq PrefixIds \cup OfferedIds(offered)
<1> DEFINE admitted == {offered[s] : s \in slots}
           known == given \cup admitted
<1>1. slots \subseteq Admitted(offered) /\ admitted \subseteq OfferedIds(offered)
  BY DEF AdmittedSlots, OfferedIds
<1>2. /\ given' = IF merges + 1 >= RebuildInterval THEN PrefixIds' ELSE known
      /\ \A m \in hidden' : m \in hidden \ admitted \/ m \in OfferedIds(offered) \ known
      /\ hidden \ admitted \subseteq hidden'
  BY DEF RecordOffer, OfferedIds
<1>3. PrefixIds' \subseteq PrefixIds \cup admitted
  <2>1. ASSUME NEW p \in PrefixRanks(valid') PROVE list'[p].id \in PrefixIds \cup admitted
    <3>1. ASSUME NEW s \in slots, list'[p] = [id |-> offered[s], expanded |-> FALSE]
          PROVE  list'[p].id \in admitted
      BY <3>1
    <3>2. ASSUME NEW q \in PrefixRanks(valid), list'[p] = list[q]
          PROVE  list'[p].id \in PrefixIds
      BY <3>2 DEF PrefixIds
    <3>3. \/ \E s \in slots : list'[p] = [id |-> offered[s], expanded |-> FALSE]
          \/ \E q \in PrefixRanks(valid) : list'[p] = list[q]
      BY AbsorbOrigin
    <3> HIDE DEF admitted
    <3> QED
      BY <3>1, <3>2, <3>3
  <2> QED
    BY <2>1 DEF PrefixIds
<1>4. PrefixIds' \subseteq known
  BY <1>3 DEF FilterKnows
<1>5. hidden' \cap PrefixIds' = {}
  <2> HIDE DEF admitted
  <2> QED
    BY <1>2, <1>3, <1>4 DEF FilterKnows
<1>6. FilterKnows'
  BY <1>2, <1>4, <1>5 DEF FilterKnows
<1> QED
  BY <1>1, <1>2, <1>3, <1>6

(* A merge takes the prefix to the nearest of its nodes and of the nodes   *)
(* offered to it, refused or not, but for those that are hidden, and sets  *)
(* the flag of no node.                                                    *)
LEMMA AbsorbIsNearest ==
  ASSUME OrderInvariant, HashCovered, FilterKnows, PrefixDistinct,
         NEW offered \in FrontierArray, OffersDiffer(offered), NEW slots \in AdmittedSlots(offered),
         AbsorbFrontier(FrontierOf(offered, slots)), RecordOffer(offered, slots), OrderInvariant'
  PROVE  /\ BestFirst!Meet(OfferedIds(offered)) /\ FilterKnows'
         /\ ExpandedIds' = ExpandedIds \cap PrefixIds'
<1> DEFINE nodes == PrefixIds \cup (OfferedIds(offered) \ hidden')
<1>1. HashCovered' /\ PrefixDistinct'
  BY AbsorbSettles, AbsorbKeepsDistinct
<1>2. nodes \in SUBSET Nodes /\ IsFiniteSet(nodes)
  <2>1. nodes \subseteq PrefixIds \cup OfferedIds(offered)
    OBVIOUS
  <2>2. /\ PrefixIds \cup OfferedIds(offered) \in SUBSET Nodes
        /\ IsFiniteSet(PrefixIds \cup OfferedIds(offered))
    BY OfferedFinite, PrefixIdsFinite, FS_Union
  <2> HIDE DEF nodes
  <2> QED
    BY <2>1, <2>2, FS_Subset
<1>3. ASSUME NEW m \in nodes PROVE SettledIn(list', valid', m)
  <2>1. m \in NodeOrNone
    BY <1>2 DEF NodeOrNone
  <2>2. CASE m \in PrefixIds
    <3>1. Settled(m)
      BY <2>2 DEF PrefixIds, Settled, SettledIn, InPrefixOf
    <3> QED
      BY <2>1, <3>1, AbsorbSettles DEF Settled
  <2>3. CASE m \in OfferedIds(offered) \ hidden'
    BY <2>3, AbsorbSettles DEF OfferedIds
  <2> QED
    BY <2>2, <2>3
<1>4. /\ FilterKnows'
      /\ hidden' \subseteq hidden \cup OfferedIds(offered)
      /\ hidden \ OfferedIds(offered) \subseteq hidden'
      /\ PrefixIds' \subseteq PrefixIds \cup OfferedIds(offered)
  BY AbsorbKnows
<1>5. ASSUME NEW p \in PrefixRanks(valid') PROVE list'[p].id \in nodes
  <2>1. list'[p].id \in PrefixIds'
    BY DEF PrefixIds
  <2> QED
    BY <1>4, <2>1 DEF FilterKnows
<1>6. list' \in CandidateArray /\ valid' \in 0 .. Capacity /\ InOrder(list', valid')
  BY DEF OrderInvariant, FilterInvariant, TypeOK, ListOrdered, InOrder
<1>7. \A i, j \in PrefixRanks(valid') : i # j => list'[i].id # list'[j].id
  BY <1>1 DEF PrefixDistinct
<1>8. {list'[i].id : i \in PrefixRanks(valid')}
        = {n \in nodes : Cardinality({m \in nodes : CandidateLess(m, n)}) < TopL}
  <2> HIDE DEF nodes
  <2> QED
    BY <1>2, <1>3, <1>5, <1>6, <1>7, PrefixIsNearest
<1>9. PrefixIds' = BestFirst!Nearest(nodes)
  <2>1. PrefixIds' = {list'[i].id : i \in PrefixRanks(valid')}
    BY DEF PrefixIds
  <2> HIDE DEF nodes
  <2> QED
    BY <1>8, <2>1, NearestNodes
<1>10. BestFirst!Meet(OfferedIds(offered))
  <2>1. PrefixIds' \cap hidden' = {}
    BY <1>4 DEF FilterKnows
  <2>2. hidden' \in SUBSET (hidden \cup OfferedIds(offered))
    BY <1>4
  <2> QED
    BY <1>4, <1>9, <2>1, <2>2 DEF BestFirst!Meet
<1>11. ASSUME NEW p \in PrefixRanks(valid')
       PROVE  list'[p].expanded <=> list'[p].id \in ExpandedIds
  <2>1. ASSUME NEW s \in Admitted(offered), ~InPrefix(offered[s]),
               list'[p] = [id |-> offered[s], expanded |-> FALSE]
        PROVE  ~list'[p].expanded /\ list'[p].id \notin ExpandedIds
    <3>1. list'[p].id = offered[s] /\ ~list'[p].expanded
      BY <2>1
    <3> QED
      BY <2>1, <3>1 DEF InPrefix, ExpandedIds
  <2>2. ASSUME NEW q \in PrefixRanks(valid), list'[p] = list[q]
        PROVE  list[q].expanded <=> list[q].id \in ExpandedIds
    BY DEF ExpandedIds, PrefixDistinct
  <2> QED
    BY <2>1, <2>2, AbsorbOrigin
<1>12. ExpandedIds' = ExpandedIds \cap PrefixIds'
  BY <1>11 DEF ExpandedIds, PrefixIds
<1> QED
  BY <1>4, <1>10, <1>12

(* Between two rounds the bits are those of the prefix, and all of them    *)
(* can be selected.                                                        *)
LEMMA RanksLeft ==
  ASSUME OrderInvariant, BitsRebuilt, pc = "check"
  PROVE  /\ unexpanded = {i \in PrefixRanks(valid) : ~list[i].expanded}
         /\ Selectable = unexpanded
<1>1. valid \in 0 .. Capacity
  BY DEF OrderInvariant, FilterInvariant, TypeOK
<1>2. \A i \in PrefixRanks(valid) : IsValid(list[i]) /\ i <= SmallerOf(valid, TopL)
  BY <1>1, PrefixRange DEF OrderInvariant, ListOrdered, PrefixRanks
<1>3. unexpanded = {i \in PrefixRanks(valid) : ~list[i].expanded}
  BY <1>2 DEF BitsRebuilt, UnexpandedRanks
<1>4. Selectable = unexpanded
  BY <1>2, <1>3 DEF Selectable
<1> QED
  BY <1>3, <1>4

(* Without an early stop the candidate stop is that of the whole prefix.   *)
LEMMA FullStop ==
  ASSUME OrderInvariant, BitsRebuilt, pc = "check", ~StopsEarly, CandidateStop
  PROVE  \A i \in PrefixRanks(valid) : list[i].expanded
<1>1. valid \in 0 .. Capacity /\ ~UsePrefixStop
  BY DEF OrderInvariant, FilterInvariant, TypeOK, StopsEarly
<1>2. PrefixRanks(valid) \subseteq 1 .. TopL
  BY <1>1, PrefixRange
<1>3. unexpanded \cap 1 .. TopL = {}
  BY <1>1 DEF CandidateStop, ActiveRanks
<1> QED
  BY <1>2, <1>3, RanksLeft

LEMMA NearestInit == Init => FilterKnows /\ SelectedNearest /\ SeedingExpandsNone
<1>1. ASSUME Init PROVE PrefixRanks(valid) = {}
  <2>1. valid = 0 /\ TopL \in Nat \ {0}
    BY <1>1, SizesAssumption DEF Init
  <2> QED
    BY <2>1 DEF PrefixRanks, SmallerOf
<1> QED
  BY <1>1 DEF Init, FilterKnows, SelectedNearest, SeedingExpandsNone, ExpandedIds, PrefixIds

(* What a merge makes of the prefix, in the seeding and in a round.        *)
LEMMA SeedAbsorbs ==
  ASSUME SingleFile, OrderInvariant, HashCovered, FilterKnows, PrefixDistinct,
         OrderInvariant', SeedBatch
  PROVE  /\ BestFirst!Meet(OfferedIds(EntryFrontier)) /\ FilterKnows'
         /\ ExpandedIds' = ExpandedIds \cap PrefixIds'
<1>1. EntryFrontier \in FrontierArray /\ OffersDiffer(EntryFrontier)
  BY EntryFrontierType, EntryOffersDiffer DEF OrderInvariant, FilterInvariant
<1>2. PICK slots \in AdmittedSlots(EntryFrontier) :
        /\ AbsorbFrontier(FrontierOf(EntryFrontier, slots))
        /\ RecordOffer(EntryFrontier, slots)
  BY DEF SeedBatch, Absorb
<1> QED
  BY <1>1, <1>2, AbsorbIsNearest

LEMMA RoundAbsorbs ==
  ASSUME SingleFile, OrderInvariant, HashCovered, FilterKnows, PrefixDistinct,
         OrderInvariant', ExpandSelected
  PROVE  /\ BestFirst!Meet(OfferedIds(OfferedNeighbors)) /\ FilterKnows'
         /\ ExpandedIds' = ExpandedIds \cap PrefixIds'
<1>1. \A k \in 1 .. count : selected[k] \in Nodes
  BY DEF ExpandSelected, OrderInvariant, FilterInvariant, SelectedNodes
<1>2. staged' \in [1 .. Width -> Row] /\ TypeOK
  BY DEF OrderInvariant, FilterInvariant, TypeOK
<1>3. OfferedNeighbors \in FrontierArray /\ OffersDiffer(OfferedNeighbors)
  BY <1>1, <1>2, OfferedNeighborsType, NeighborOffersDiffer
<1>4. PICK slots \in AdmittedSlots(OfferedNeighbors) :
        /\ AbsorbFrontier(FrontierOf(OfferedNeighbors, slots))
        /\ RecordOffer(OfferedNeighbors, slots)
  BY DEF ExpandSelected, Absorb
<1> QED
  BY <1>3, <1>4, AbsorbIsNearest

(* What a selection does to the prefix: it marks its best unexpanded rank. *)
LEMMA SelectMarks ==
  ASSUME SingleFile, OrderInvariant, BitsRebuilt, SelectNodes, pc' = "expand"
  PROVE  \E i \in PrefixRanks(valid) :
           /\ ~list[i].expanded
           /\ \A j \in PrefixRanks(valid) : ~list[j].expanded => i <= j
           /\ count' = 1 /\ pc' = "expand" /\ selected'[1] = list[i].id
           /\ \A j \in PrefixRanks(valid) :
                /\ list'[j].id = list[j].id
                /\ list'[j].expanded <=> (j = i \/ list[j].expanded)
<1>1. pc = "check"
  BY DEF SelectNodes, MayContinue
<1>2. Selectable = {i \in PrefixRanks(valid) : ~list[i].expanded}
  BY <1>1, RanksLeft
<1>3. PICK i \in Selectable :
        /\ \A j \in Selectable : i <= j
        /\ count' = 1 /\ pc' = "expand" /\ selected'[1] = list[i].id
        /\ \A j \in 1 .. Capacity :
             list'[j] = IF j = i THEN [list[j] EXCEPT !.expanded = TRUE] ELSE list[j]
  BY <1>2, SelectOne DEF SingleFile, OrderInvariant
<1>4. list \in CandidateArray /\ valid \in 0 .. Capacity
  BY DEF OrderInvariant, FilterInvariant, TypeOK
<1>5. ASSUME NEW j \in PrefixRanks(valid)
      PROVE  /\ list'[j].id = list[j].id
             /\ list'[j].expanded <=> (j = i \/ list[j].expanded)
  <2>1. j \in 1 .. Capacity
    BY <1>4, PrefixRange
  <2>2. list[j] \in Candidate
    BY <1>4, <2>1 DEF CandidateArray
  <2> QED
    BY <1>3, <2>1, <2>2 DEF Candidate
<1> QED
  BY <1>2, <1>3, <1>5

(* A selection leaves every node at its rank.                              *)
LEMMA SelectKeepsIds ==
  ASSUME OrderInvariant, SelectNodes, NEW i \in PrefixRanks(valid)
  PROVE  list'[i].id = list[i].id
<1>1. list \in CandidateArray /\ valid \in 0 .. Capacity
  BY DEF OrderInvariant, FilterInvariant, TypeOK
<1>2. i \in 1 .. Capacity
  BY <1>1, PrefixRange
<1>3. list[i] \in Candidate
  BY <1>1, <1>2 DEF CandidateArray
<1> QED
  BY <1>2, <1>3 DEF SelectNodes, Candidate

LEMMA NearestStep ==
  ASSUME SingleFile, SearchInvariant, OrderInvariant', [Next]_vars
  PROVE  FilterKnows' /\ SelectedNearest' /\ SeedingExpandsNone'
<1> USE DEF SearchInvariant
<1>1. CASE SeedBatch
  <2>1. /\ ExpandedIds' = ExpandedIds \cap PrefixIds' /\ FilterKnows'
        /\ pc = "seed" /\ pc' = "seed"
    BY <1>1, SeedAbsorbs DEF SeedBatch
  <2> QED
    BY <2>1 DEF SelectedNearest, SeedingExpandsNone
<1>2. CASE SelectNodes
  <2>1. /\ pc = "check" /\ pc' \in {"done", "expand"} /\ valid' = valid
        /\ given' = given /\ hidden' = hidden
        /\ expanded' = expanded + count' /\ expanded < MaxExpansions
    BY <1>2 DEF SelectNodes, MayContinue
  <2>2. FilterKnows'
    <3>1. \A i \in PrefixRanks(valid) : list'[i].id = list[i].id
      BY <1>2, SelectKeepsIds
    <3> QED
      BY <2>1, <3>1 DEF FilterKnows, PrefixIds
  <2>3. CASE pc' = "done"
    BY <2>2, <2>3 DEF SelectedNearest, SeedingExpandsNone
  <2>4. CASE pc' = "expand"
    <3>1. PICK i \in PrefixRanks(valid) :
            /\ ~list[i].expanded
            /\ \A j \in PrefixRanks(valid) : ~list[j].expanded => i <= j
            /\ count' = 1 /\ pc' = "expand" /\ selected'[1] = list[i].id
            /\ \A j \in PrefixRanks(valid) :
                 /\ list'[j].id = list[j].id
                 /\ list'[j].expanded <=> (j = i \/ list[j].expanded)
      BY <1>2, <2>4, SelectMarks
    <3>2. expanded \in Nat /\ MaxExpansions \in Nat
      BY ParametersAssumption DEF OrderInvariant, FilterInvariant, TypeOK
    <3>3. expanded' \in 1 .. MaxExpansions
      BY <2>1, <3>1, <3>2
    <3>4. i \in Nat /\ \A j \in PrefixRanks(valid) : j \in Nat
      BY PrefixRange DEF OrderInvariant, FilterInvariant, TypeOK
    <3>5. \A j \in PrefixRanks(valid') : ~list'[j].expanded => i < j
      BY <2>1, <3>1, <3>4
    <3> QED
      BY <2>1, <2>2, <3>1, <3>3, <3>5 DEF SelectedNearest, SeedingExpandsNone
  <2> QED
    BY <2>1, <2>3, <2>4
<1>3. CASE ExpandSelected
  <2>1. FilterKnows' /\ pc' = "check"
    BY <1>3, RoundAbsorbs DEF ExpandSelected
  <2> QED
    BY <2>1 DEF SelectedNearest, SeedingExpandsNone
<1>4. CASE FinishSeeding \/ StopAtLimit \/ StopLearned \/ StopSettled
  BY <1>4 DEF FinishSeeding, StopAtLimit, StopLearned, StopSettled, queue,
              FilterKnows, PrefixIds, SelectedNearest, SeedingExpandsNone
<1>5. CASE UNCHANGED vars
  BY <1>5 DEF vars, queue, FilterKnows, PrefixIds, SelectedNearest, SeedingExpandsNone, ExpandedIds
<1> QED
  BY <1>1, <1>2, <1>3, <1>4, <1>5 DEF Next

(* The entries of a list from some place on.                                 *)
LEMMA EntriesLeft ==
  ASSUME NEW sequence \in Seq(NodeOrNone), NEW k \in Nat
  PROVE  EntrySet(SubSeq(sequence, k + 1, Len(sequence)))
           = {sequence[i] : i \in k + 1 .. Len(sequence)} \ {NoNode}
<1> DEFINE rest == SubSeq(sequence, k + 1, Len(sequence))
<1>1. /\ Len(sequence) \in Nat
      /\ DOMAIN rest = 1 .. Len(rest)
      /\ Len(rest) = IF k + 1 <= Len(sequence) THEN Len(sequence) - k ELSE 0
      /\ \A i \in 1 .. Len(rest) : rest[i] = sequence[i + k]
  OBVIOUS
<1> HIDE DEF rest
<1>2. ASSUME NEW i \in DOMAIN rest
      PROVE  i + k \in k + 1 .. Len(sequence) /\ rest[i] = sequence[i + k]
  BY <1>1
<1>3. ASSUME NEW i \in k + 1 .. Len(sequence)
      PROVE  i - k \in DOMAIN rest /\ rest[i - k] = sequence[i]
  <2>1. i - k \in 1 .. Len(rest) /\ (i - k) + k = i
    BY <1>1
  <2> QED
    BY <1>1, <2>1
<1>4. EntrySet(rest) = {sequence[i] : i \in k + 1 .. Len(sequence)} \ {NoNode}
  BY <1>2, <1>3 DEF EntrySet
<1> QED
  BY <1>4 DEF rest

(* The entries of a batch and those behind it are the entries left before. *)
LEMMA BatchTakesEntries ==
  ASSUME TypeOK, SeedBatch
  PROVE  /\ OfferedIds(EntryFrontier) \subseteq PendingEntries
         /\ PendingEntries' \subseteq PendingEntries
         /\ PendingEntries \subseteq OfferedIds(EntryFrontier) \cup PendingEntries'
<1> DEFINE k == batch * Slots
           n == Len(entries)
<1>1. /\ entries \in Seq(NodeOrNone) /\ k \in Nat /\ n \in Nat
      /\ Slots \in Nat /\ k + Slots \in Nat
  BY InputsAssumption, SizesAssumption DEF TypeOK
<1>2. PendingEntries = {entries[i] : i \in k + 1 .. n} \ {NoNode}
  <2>1. PendingEntries = EntrySet(SubSeq(entries, k + 1, Len(entries)))
    BY DEF PendingEntries, SeedBatch
  <2> QED
    BY <1>1, <2>1, EntriesLeft
<1>3. PendingEntries' = {entries[i] : i \in k + Slots + 1 .. n} \ {NoNode}
  <2>1. (batch + 1) * Slots = k + Slots
    BY SizesAssumption DEF TypeOK
  <2>2. PendingEntries' = EntrySet(SubSeq(entries, (batch + 1) * Slots + 1, Len(entries)))
    BY DEF PendingEntries, SeedBatch, input
  <2>3. PendingEntries' = EntrySet(SubSeq(entries, (k + Slots) + 1, Len(entries)))
    BY <2>1, <2>2
  <2> QED
    BY <1>1, <2>3, EntriesLeft
<1>4. OfferedIds(EntryFrontier)
        = {entries[k + s] : s \in {t \in 1 .. Slots : k + t <= n}} \ {NoNode}
  BY DEF OfferedIds, Admitted, EntryFrontier
<1> HIDE DEF k, n
<1>5. ASSUME NEW s \in 1 .. Slots, k + s <= n PROVE k + s \in k + 1 .. n
  BY <1>1, <1>5
<1>6. ASSUME NEW i \in k + 1 .. n, i \notin k + Slots + 1 .. n
      PROVE  i - k \in 1 .. Slots /\ k + (i - k) <= n /\ i = k + (i - k)
  BY <1>1, <1>6
<1>7. \A i \in k + Slots + 1 .. n : i \in k + 1 .. n
  BY <1>1
<1>8. OfferedIds(EntryFrontier) \subseteq PendingEntries
  BY <1>2, <1>4, <1>5
<1>9. PendingEntries' \subseteq PendingEntries
  BY <1>2, <1>3, <1>7
<1>10. ASSUME NEW i \in k + 1 .. n, entries[i] # NoNode
       PROVE  entries[i] \in OfferedIds(EntryFrontier) \cup PendingEntries'
  <2>1. CASE i \in k + Slots + 1 .. n
    BY <1>3, <1>10, <2>1
  <2>2. CASE i \notin k + Slots + 1 .. n
    BY <1>4, <1>6, <1>10, <2>2
  <2> QED
    BY <2>1, <2>2
<1> QED
  BY <1>2, <1>8, <1>9, <1>10

(* The last batch takes the last entries.                                  *)
LEMMA BatchesTakeAll ==
  ASSUME TypeOK, pc = "seed", batch >= EntryBatches
  PROVE  PendingEntries = {}
<1>1. /\ entries \in Seq(NodeOrNone) /\ batch \in Nat /\ Len(entries) \in Nat
      /\ Slots \in Nat /\ batch * Slots \in Nat
  BY InputsAssumption, SizesAssumption DEF TypeOK
<1>2. Slots \in Nat \ {0}
  BY ParametersAssumption
<1>3. EntryBatches * Slots >= Len(entries)
  BY <1>1, <1>2, WordsCoverPrefix DEF EntryBatches
<1>4. EntryBatches \in Nat
  BY <1>1, <1>2 DEF EntryBatches
<1>5. batch * Slots >= Len(entries)
  <2>1. ASSUME NEW b \in Nat, b >= EntryBatches PROVE b * Slots >= EntryBatches * Slots
    BY <1>2, <1>4, <2>1
  <2> QED
    BY <1>1, <1>2, <1>3, <1>4, <2>1
<1>6. batch * Slots + 1 .. Len(entries) = {}
  BY <1>1, <1>5
<1>7. PendingEntries = {entries[i] : i \in batch * Slots + 1 .. Len(entries)} \ {NoNode}
  BY <1>1, EntriesLeft DEF PendingEntries
<1> QED
  BY <1>6, <1>7

LEMMA SearchStarts ==
  ASSUME Init PROVE BestFirst!Init
<1>1. pc = "seed" /\ batch = 0 /\ valid = 0 /\ expanded = 0 /\ graph \in Graphs
      /\ entries \in EntryLists /\ hidden = {}
  BY DEF Init
<1>2. PrefixIds = {} /\ RoundsDone = {} /\ RoundsSpent = 0 /\ SearchOutcome = "searching"
  <2>1. PrefixRanks(valid) = {}
    BY <1>1, SizesAssumption DEF PrefixRanks, SmallerOf
  <2> QED
    BY <1>1, <2>1 DEF PrefixIds, ExpandedIds, RoundsDone, RoundsSpent, SearchOutcome
<1>3. PendingEntries = EntrySet(entries)
  <2>1. entries \in Seq(NodeOrNone) /\ 0 * Slots = 0
    BY <1>1, InputsAssumption, SizesAssumption
  <2>2. PendingEntries = EntrySet(SubSeq(entries, 0 + 1, Len(entries)))
    BY <1>1, <2>1 DEF PendingEntries
  <2>3. PendingEntries = {entries[i] : i \in 0 + 1 .. Len(entries)} \ {NoNode}
    BY <2>1, <2>2, EntriesLeft
  <2>4. DOMAIN entries = 0 + 1 .. Len(entries)
    BY <2>1
  <2> QED
    BY <2>3, <2>4 DEF EntrySet
<1>4. StopsEarly \in BOOLEAN
  BY DEF StopsEarly
<1> QED
  BY <1>1, <1>2, <1>3, <1>4 DEF BestFirst!Init

LEMMA SeedSeeds ==
  ASSUME SingleFile, SearchInvariant, OrderInvariant', SeedBatch
  PROVE  BestFirst!Seed
<1> USE DEF SearchInvariant
<1>1. BestFirst!Meet(OfferedIds(EntryFrontier)) /\ ExpandedIds' = ExpandedIds \cap PrefixIds'
  BY SeedAbsorbs
<1>2. pc = "seed" /\ pc' = "seed" /\ expanded' = expanded /\ graph' = graph /\ launch' = launch
  BY DEF SeedBatch, input
<1>3. /\ OfferedIds(EntryFrontier) \in SUBSET PendingEntries
      /\ PendingEntries' \in SUBSET PendingEntries
      /\ PendingEntries \subseteq OfferedIds(EntryFrontier) \cup PendingEntries'
  BY BatchTakesEntries DEF OrderInvariant, FilterInvariant
<1>4. RoundsDone' = RoundsDone /\ RoundsSpent' = RoundsSpent /\ SearchOutcome' = SearchOutcome
  BY <1>1, <1>2 DEF SeedingExpandsNone, RoundsDone, RoundsSpent, SearchOutcome
<1>5. StopsEarly' = StopsEarly
  BY <1>2 DEF StopsEarly, UsePrefixStop, StopPrefix, StagePrefixes
<1> QED
  BY <1>1, <1>2, <1>3, <1>4, <1>5 DEF BestFirst!Seed

(* The rows offered in a round are the successors of its node.             *)
LEMMA OffersAreSuccessors ==
  ASSUME SingleFile, OrderInvariant, SelectedNearest, ExpandSelected
  PROVE  OfferedIds(OfferedNeighbors) = OutEdges(selected[1])
<1>1. /\ count = 1 /\ Width = 1 /\ Warps \in Nat \ {0} /\ Degree \in Nat \ {0} /\ Slots = Degree
      /\ Width <= Warps
  BY ParametersAssumption DEF ExpandSelected, SelectedNearest, SingleFile
<1>2. TypeOK /\ \A k \in 1 .. count : selected[k] \in Nodes
  BY DEF ExpandSelected, OrderInvariant, FilterInvariant, SelectedNodes
<1>3. ASSUME NEW m \in OutEdges(selected[1]) PROVE m \in OfferedIds(OfferedNeighbors)
  BY <1>1, <1>2, RowsAreOffered DEF OfferedIds
<1>4. ASSUME NEW s \in Admitted(OfferedNeighbors)
      PROVE  OfferedNeighbors[s] \in OutEdges(selected[1])
  <2>1. s \in 1 .. Slots /\ OfferedNeighbors[s] # NoNode
    BY DEF Admitted
  <2>2. SelectedIndex(s) = 1 /\ NeighborIndex(s) \in 1 .. Degree
    BY <1>1, <2>1 DEF SelectedIndex, NeighborIndex
  <2>3. Neighbors(1) = graph[selected[1]]
    BY <1>1 DEF ExpandSelected, Neighbors
  <2>4. OfferedNeighbors[s] = graph[selected[1]][NeighborIndex(s)]
    BY <1>1, <2>1, <2>2, <2>3 DEF OfferedNeighbors
  <2> QED
    BY <2>1, <2>2, <2>4 DEF OutEdges
<1> QED
  BY <1>3, <1>4 DEF OfferedIds

LEMMA RoundExpands ==
  ASSUME SingleFile, SearchInvariant, OrderInvariant', ExpandSelected
  PROVE  BestFirst!Expand
<1> USE DEF SearchInvariant
<1>1. BestFirst!Meet(OutEdges(selected[1])) /\ ExpandedIds' = ExpandedIds \cap PrefixIds'
  BY RoundAbsorbs, OffersAreSuccessors
<1>2. /\ pc = "expand" /\ pc' = "check" /\ expanded' = expanded /\ graph' = graph
      /\ count = 1 /\ expanded \in 1 .. MaxExpansions
  BY DEF ExpandSelected, input, SelectedNearest
<1>3. PICK i \in PrefixRanks(valid) :
        /\ list[i].id = selected[1] /\ list[i].expanded
        /\ \A j \in PrefixRanks(valid) : ~list[j].expanded => i < j
  BY <1>2 DEF SelectedNearest
<1>4. selected[1] \in PrefixIds /\ selected[1] \in ExpandedIds
  BY <1>3 DEF PrefixIds, ExpandedIds
<1>5. RoundsDone = ExpandedIds \ {selected[1]} /\ RoundsDone' = ExpandedIds'
  BY <1>2 DEF RoundsDone
<1>6. ASSUME NEW m \in PrefixIds \ RoundsDone PROVE ~CandidateLess(m, selected[1])
  <2>1. PICK j \in PrefixRanks(valid) : list[j].id = m
    BY DEF PrefixIds
  <2>2. i \in 1 .. valid /\ j \in 1 .. valid /\ selected[1] \in Nodes
    BY <1>2, PrefixRange
    DEF OrderInvariant, FilterInvariant, TypeOK, SelectedNodes
  <2>3. CASE m = selected[1]
    <3>1. selected[1] \in Nat /\ Dist[selected[1]] \in Nat
      BY <2>2, NodesAssumption
    <3> QED
      BY <2>3, <3>1 DEF CandidateLess
  <2>4. CASE m # selected[1]
    <3>1. ~list[j].expanded
      BY <1>5, <2>1, <2>4 DEF ExpandedIds
    <3> QED
      BY <1>3, <2>1, <2>2, <3>1 DEF OrderInvariant, ListOrdered
  <2> QED
    BY <2>3, <2>4
<1>7. RoundsSpent < MaxExpansions /\ RoundsSpent' = RoundsSpent + 1
  BY <1>2, ParametersAssumption DEF RoundsSpent
<1>8. /\ PendingEntries = {} /\ PendingEntries' = {}
      /\ SearchOutcome = "searching" /\ SearchOutcome' = "searching"
  BY <1>2 DEF PendingEntries, SearchOutcome
<1>9. RoundsDone' = (RoundsDone \cup {selected[1]}) \cap PrefixIds'
  BY <1>1, <1>4, <1>5
<1>10. selected[1] \in PrefixIds \ RoundsDone
  BY <1>4, <1>5
<1>11. BestFirst!Meet({graph[selected[1]][j] : j \in 1 .. Degree} \ {NoNode})
  BY <1>1 DEF OutEdges
<1>12. StopsEarly' = StopsEarly
  BY DEF ExpandSelected, input, StopsEarly, UsePrefixStop, StopPrefix, StagePrefixes
<1> QED
  BY <1>2, <1>6, <1>7, <1>8, <1>9, <1>10, <1>11, <1>12 DEF BestFirst!Expand

LEMMA SelectStutters ==
  ASSUME SingleFile, SearchInvariant, SelectNodes, pc' = "expand"
  PROVE  UNCHANGED BestFirst!vars
<1> USE DEF SearchInvariant
<1>1. PICK i \in PrefixRanks(valid) :
        /\ ~list[i].expanded
        /\ \A j \in PrefixRanks(valid) : ~list[j].expanded => i <= j
        /\ count' = 1 /\ pc' = "expand" /\ selected'[1] = list[i].id
        /\ \A j \in PrefixRanks(valid) :
             /\ list'[j].id = list[j].id
             /\ list'[j].expanded <=> (j = i \/ list[j].expanded)
  BY SelectMarks
<1>2. /\ pc = "check" /\ valid' = valid /\ expanded' = expanded + count'
      /\ graph' = graph /\ launch' = launch /\ hidden' = hidden /\ expanded \in Nat
  BY DEF SelectNodes, MayContinue, input, OrderInvariant, FilterInvariant, TypeOK
<1>3. PrefixIds' = PrefixIds
  BY <1>1, <1>2 DEF PrefixIds
<1>4. ExpandedIds' = ExpandedIds \cup {list[i].id}
  BY <1>1, <1>2 DEF ExpandedIds
<1>5. list[i].id \notin ExpandedIds
  BY <1>1 DEF ExpandedIds, PrefixDistinct
<1>6. RoundsDone' = RoundsDone
  BY <1>1, <1>2, <1>4, <1>5 DEF RoundsDone
<1>7. RoundsSpent' = RoundsSpent
  BY <1>1, <1>2 DEF RoundsSpent
<1>8. PendingEntries' = PendingEntries /\ SearchOutcome' = SearchOutcome
  BY <1>1, <1>2 DEF PendingEntries, SearchOutcome
<1>9. StopsEarly' = StopsEarly
  BY <1>2 DEF StopsEarly, UsePrefixStop, StopPrefix, StagePrefixes
<1> QED
  BY <1>2, <1>3, <1>6, <1>7, <1>8, <1>9 DEF BestFirst!vars

(* A step that ends the loop leaves the search converged, or cut short by  *)
(* its budget or by an early stop.                                         *)
LEMMA EndsOutcome ==
  ASSUME SearchInvariant, pc = "check", pc' = "done",
         UNCHANGED <<graph, launch, list, valid, hidden, expanded>>,
         \/ expanded >= MaxExpansions \/ StopsEarly
         \/ \A i \in PrefixRanks(valid) : list[i].expanded
  PROVE  BestFirst!Converge \/ BestFirst!CutShort
<1>1. PrefixIds' = PrefixIds /\ ExpandedIds' = ExpandedIds /\ StopsEarly' = StopsEarly
  BY DEF PrefixIds, ExpandedIds, StopsEarly, UsePrefixStop, StopPrefix, StagePrefixes
<1>2. /\ PendingEntries = {} /\ PendingEntries' = {} /\ SearchOutcome = "searching"
      /\ RoundsDone = ExpandedIds /\ RoundsDone' = ExpandedIds
      /\ RoundsSpent = expanded /\ RoundsSpent' = expanded
      /\ SearchOutcome' = IF PrefixIds \subseteq ExpandedIds THEN "converged" ELSE "cut"
  BY <1>1 DEF PendingEntries, SearchOutcome, RoundsDone, RoundsSpent
<1>3. CASE PrefixIds \subseteq ExpandedIds
  BY <1>1, <1>2, <1>3 DEF BestFirst!Converge
<1>4. CASE ~(PrefixIds \subseteq ExpandedIds)
  <2>1. expanded >= MaxExpansions \/ StopsEarly
    BY <1>4 DEF PrefixIds, ExpandedIds
  <2> QED
    BY <1>1, <1>2, <1>4, <2>1 DEF BestFirst!CutShort
<1> QED
  BY <1>3, <1>4

LEMMA StopsOutcome ==
  ASSUME SingleFile, SearchInvariant,
         \/ StopAtLimit \/ StopLearned \/ StopSettled
         \/ SelectNodes /\ pc' = "done"
  PROVE  BestFirst!Converge \/ BestFirst!CutShort
<1> USE DEF SearchInvariant
<1>1. TypeOK /\ valid \in 0 .. Capacity
  BY DEF OrderInvariant, FilterInvariant, TypeOK
<1>2. CASE StopAtLimit
  <2>1. /\ pc = "check" /\ pc' = "done"
        /\ UNCHANGED <<graph, launch, list, valid, hidden, expanded>>
        /\ expanded >= MaxExpansions \/ valid = 0
    BY <1>2 DEF StopAtLimit, input, queue
  <2>2. valid = 0 => PrefixRanks(valid) = {}
    BY <1>1, PrefixRange
  <2> QED
    BY <2>1, <2>2, EndsOutcome
<1>3. CASE StopLearned
  <2>1. /\ pc = "check" /\ pc' = "done"
        /\ UNCHANGED <<graph, launch, list, valid, hidden, expanded>>
    BY <1>3 DEF StopLearned, MayContinue, input, queue
  <2>2. PICK next \in NextStages : next.stop
    BY <1>3 DEF StopLearned
  <2>3. ~launch.shadow /\ next.stage \in 1 .. NoStage - 1
    BY <1>1, <2>2, FiringStage
  <2>4. StagePrefixes # <<>>
    <3>1. Len(<<>>) = 0
      OBVIOUS
    <3> QED
      BY <2>3, <3>1 DEF NoStage
  <2>5. StopsEarly
    BY <2>3, <2>4 DEF StopsEarly
  <2> QED
    BY <2>1, <2>5, EndsOutcome
<1>4. CASE StopSettled
  <2>1. /\ pc = "check" /\ pc' = "done" /\ CandidateStop
        /\ UNCHANGED <<graph, launch, list, valid, hidden, expanded>>
    BY <1>4 DEF StopSettled, MayContinue, input, queue
  <2>2. StopsEarly \/ \A i \in PrefixRanks(valid) : list[i].expanded
    BY <2>1, FullStop
  <2> QED
    BY <2>1, <2>2, EndsOutcome
<1>5. CASE SelectNodes /\ pc' = "done"
  <2>1. Selectable = {} /\ count' = 0 /\ list' = list
    BY <1>5, SelectOne DEF SingleFile, OrderInvariant
  <2>2. /\ pc = "check" /\ expanded' = expanded + count' /\ expanded \in Nat
        /\ UNCHANGED <<graph, launch, valid, hidden>>
    BY <1>1, <1>5 DEF SelectNodes, MayContinue, input, TypeOK
  <2>3. \A i \in PrefixRanks(valid) : list[i].expanded
    BY <2>1, <2>2, RanksLeft
  <2>4. UNCHANGED <<graph, launch, list, valid, hidden, expanded>>
    BY <2>1, <2>2
  <2> QED
    BY <1>5, <2>2, <2>3, <2>4, EndsOutcome
<1> QED
  BY <1>2, <1>3, <1>4, <1>5

(* Each step of the traversal is a step of the best-first search, or none. *)
LEMMA SearchSteps ==
  ASSUME SingleFile, SearchInvariant, OrderInvariant', [Next]_vars
  PROVE  BestFirst!Next \/ UNCHANGED BestFirst!vars
<1>1. CASE SeedBatch
  BY <1>1, SeedSeeds DEF BestFirst!Next
<1>2. CASE FinishSeeding
  <2>1. PendingEntries = {}
    BY <1>2, BatchesTakeAll DEF FinishSeeding, SearchInvariant, OrderInvariant, FilterInvariant
  <2> QED
    BY <1>2, <2>1 DEF FinishSeeding, BestFirst!vars, input, queue, PendingEntries, PrefixIds,
                      ExpandedIds, RoundsDone, RoundsSpent, SearchOutcome,
                      StopsEarly, UsePrefixStop, StopPrefix, StagePrefixes
<1>3. CASE StopAtLimit \/ StopLearned \/ StopSettled
  BY <1>3, StopsOutcome DEF BestFirst!Next
<1>4. CASE SelectNodes
  <2>1. pc' \in {"done", "expand"}
    BY <1>4 DEF SelectNodes
  <2> QED
    BY <1>4, <2>1, SelectStutters, StopsOutcome DEF BestFirst!Next
<1>5. CASE ExpandSelected
  BY <1>5, RoundExpands DEF BestFirst!Next
<1>6. CASE UNCHANGED vars
  BY <1>6 DEF vars, input, queue, BestFirst!vars, PendingEntries, PrefixIds,
              ExpandedIds, RoundsDone, RoundsSpent, SearchOutcome,
              StopsEarly, UsePrefixStop, StopPrefix, StagePrefixes
<1> QED
  BY <1>1, <1>2, <1>3, <1>4, <1>5, <1>6 DEF Next

(* With search width 1, and rows and entry lists that name no node twice,  *)
(* the traversal is a best-first search, for every assignment of bits to   *)
(* nodes and every launch: from its initial states, each step is a step of *)
(* it or shows nothing.  The rebuilt filter, the packed flags, the batches *)
(* of entries and the array that is longer than the prefix are not seen;   *)
(* a node is lost only to bits of others, and an early stop cuts short.    *)
THEOREM TraversalIsBestFirst ==
  ASSUME SingleFile
  PROVE  Spec => BestFirst!Init /\ [][BestFirst!Next]_(BestFirst!vars)
<1>1. Init => /\ BestFirst!Init /\ BitsRebuilt /\ FilterKnows
              /\ SelectedNearest /\ SeedingExpandsNone
  <2>1. ASSUME Init PROVE BitsRebuilt
    BY <2>1, SizesAssumption
    DEF Init, BitsRebuilt, UnexpandedRanks, PrefixRanks, SmallerOf
  <2> QED
    BY <2>1, SearchStarts, NearestInit
<1>2. Width <= Warps
  BY ParametersAssumption DEF SingleFile
<1>3. MinimumInvariant /\ [Next]_vars => HashCovered' /\ RoundInTrace' /\ TraceSettled'
  BY <1>2, MinimumStep
<1>4. OnceInvariant /\ [Next]_vars => PrefixDistinct' /\ TraceRetired' /\ ExpandedOnce'
  BY OnceStep
<1>5. SearchInvariant /\ OrderInvariant' /\ [Next]_vars
        => /\ BitsRebuilt' /\ FilterKnows' /\ SelectedNearest' /\ SeedingExpandsNone'
           /\ [BestFirst!Next]_(BestFirst!vars)
  BY BitsStep, NearestStep, SearchSteps DEF SearchInvariant
<1> QED
  BY <1>1, <1>3, <1>4, <1>5, MinimumInit, OnceInit, OrderInvariance, PTL
  DEF Spec, SearchInvariant, MinimumInvariant, OnceInvariant
=============================================================================
