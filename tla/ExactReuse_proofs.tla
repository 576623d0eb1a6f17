--------------------------- MODULE ExactReuse_proofs ---------------------------
(***************************************************************************)
(* Proofs about ExactReuse: however the warps of a block interleave, a     *)
(* node has at most one slot, what was stored is found again and is right, *)
(* and a table of the default capacity never overflows, for every hash     *)
(* function, capacity, width and number of warps.                          *)
(*                                                                         *)
(* The argument: ids are never overwritten, so the slots a warp has passed *)
(* stay taken by other nodes (PassedSlots), and so do those before the     *)
(* slot of a node (Reachable).  A warp that gives up has passed every      *)
(* slot; but the taken slots and the warps still probing are no more than  *)
(* the expansions so far (ExpansionsCover).                                *)
(***************************************************************************)
EXTENDS ExactReuse, FiniteSetTheorems, WellFoundedInduction, TLAPS

TakenByOthers(n, k) == \A j \in 0 .. k - 1 : ids[Slot(n, j)] \notin {NoNode, n}

Reachable ==
  \A s \in Slots : ids[s] # NoNode =>
    \E k \in Probes : s = Slot(ids[s], k) /\ TakenByOthers(ids[s], k)

PassedSlots ==
  \A w \in Insertions : probe[w] <= capacity /\ TakenByOthers(node[w], probe[w])

ClaimedSlots ==
  \A w \in Warps : pc[w] = "store" => probe[w] < capacity /\ ids[Place(w)] = node[w]

StoredInTable == \A n \in stored : \E s \in Slots : ids[s] = n

DistanceOfId ==
  \A s \in Slots : ids[s] # NoNode =>
    distances[s] = ids[s] \/ \E w \in Warps : pc[w] = "store" /\ Place(w) = s

TableInvariant ==
  /\ TypeOK /\ Reachable /\ PassedSlots /\ ClaimedSlots
  /\ StoredInTable /\ DistanceOfId
-----------------------------------------------------------------------------
(* Every nonempty set of natural numbers has a least element: 0..x shrinks *)
(* strictly with x, and strict inclusion of finite sets is well founded.   *)
LEMMA LeastElement ==
  ASSUME NEW T, T \subseteq Nat, T # {}
  PROVE  \E x \in T : \A y \in T : x <= y
<1> DEFINE R == StrictSubsetOrdering(Nat)
           S == FiniteSubsetsOf(Nat)
           U == {0..x : x \in T}
<1>1. IsWellFoundedOn(R, S)
  BY FS_StrictSubsetOrderingWellFounded, Zenon
<1>2. U \subseteq S
  <2>1. ASSUME NEW x \in T PROVE 0..x \subseteq Nat /\ IsFiniteSet(0..x)
    BY FS_Interval, SMT
  <2>2. QED
    BY <2>1 DEF FiniteSubsetsOf
<1>3. U # {}
  OBVIOUS
<1>4. ASSUME NEW x \in T, NEW y \in T, y < x PROVE <<0..y, 0..x>> \in R
  <2>1. /\ 0..y \in SUBSET Nat /\ 0..x \in SUBSET Nat
        /\ 0..y \subseteq 0..x /\ x \notin 0..y /\ x \in 0..x
    BY <1>4, SMT
  <2>2. QED
    BY <2>1 DEF StrictSubsetOrdering
<1> HIDE DEF R, S
<1>5. PICK u \in U : \A v \in U : ~ (<<v, u>> \in R)
  <2> HIDE DEF U
  <2>1. QED
    BY <1>1, <1>2, <1>3, WFMin, Zenon
<1>6. PICK x \in T : u = 0..x
  OBVIOUS
<1>7. ASSUME NEW y \in T PROVE x <= y
  <2>1. ~ (<<0..y, 0..x>> \in R)
    BY <1>5, <1>6
  <2>2. ~ (y < x)
    BY <1>4, <2>1
  <2>3. QED
    BY <2>2
<1>8. QED
  BY <1>7

(* The default capacity is at least twice the budget.                      *)
LEMMA PowerIsLarge ==
  ASSUME NEW n \in 0 .. 2 * MaxExpansions + 2
  PROVE  NextPowerOfTwo(n) \in Nat /\ NextPowerOfTwo(n) >= n
<1> DEFINE powers == {2 ^ i : i \in 0 .. n}
           large  == {c \in powers : c >= n}
<1>1. \A i \in 0 .. n : 2 ^ i \in Nat /\ i < 2 ^ i
  BY ReuseAssumption, PowersAssumption
<1>2. large \subseteq Nat /\ large # {}
  <2>1. n \in 0 .. n
    BY ReuseAssumption
  <2>2. 2 ^ n \in large
    BY <1>1, <2>1
  <2>3. powers \subseteq Nat
    BY <1>1
  <2> QED
    BY <2>2, <2>3
<1>3. PICK c \in large : \A d \in large : c <= d
  <2> HIDE DEF large
  <2> QED
    BY <1>2, LeastElement
<1>4. c \in powers /\ c >= n /\ \A i \in 0 .. n : 2 ^ i >= n => c <= 2 ^ i
  BY <1>3
<1>5. NextPowerOfTwo(n) \in powers /\ NextPowerOfTwo(n) >= n
  <2> HIDE DEF large
  <2> QED
    BY <1>4, Zenon DEF NextPowerOfTwo
<1> QED
  BY <1>1, <1>5

LEMMA DefaultIsLarge == Default \in Nat \ {0} /\ Default >= 2 * MaxExpansions
<1>1. CASE MaxExpansions = 0
  <2>1. 2 \in 0 .. 2 * MaxExpansions + 2
    BY ReuseAssumption
  <2> QED
    BY <1>1, <2>1, PowerIsLarge DEF Default
<1>2. CASE MaxExpansions # 0
  <2>1. 2 * MaxExpansions \in 0 .. 2 * MaxExpansions + 2 /\ 2 * MaxExpansions > 0
    BY <1>2, ReuseAssumption
  <2> QED
    BY <1>2, <2>1, PowerIsLarge DEF Default
<1> QED
  BY <1>1, <1>2
-----------------------------------------------------------------------------
(* A probe looks at a slot of the table.                                   *)
LEMMA SlotInTable ==
  ASSUME TypeOK, NEW n \in Nodes, NEW k \in Nat PROVE Slot(n, k) \in Slots
<1>1. Hash[n] + k \in Nat /\ capacity \in Nat /\ capacity > 0
  BY ReuseAssumption DEF TypeOK
<1>2. ASSUME NEW a \in Nat, NEW b \in Nat, b > 0 PROVE a % b \in 0 .. b - 1
  BY <1>2
<1>3. QED
  BY <1>1, <1>2 DEF Slot, Slots

(* Each place a warp looks at is a slot of the table.                      *)
LEMMA PlaceInTable ==
  ASSUME TypeOK, NEW w \in Insertions PROVE Place(w) \in Slots /\ node[w] \in Nodes
BY SlotInTable DEF TypeOK, Insertions, Place

(* The node of a slot has no other slot.                                   *)
LEMMA ReachableAlone ==
  ASSUME TypeOK, Reachable PROVE OneSlotPerNode
<1> SUFFICES ASSUME NEW s \in Slots, NEW r \in Slots, ids[s] # NoNode, ids[s] = ids[r]
             PROVE  s = r
  BY DEF OneSlotPerNode
<1>1. PICK k \in Probes : s = Slot(ids[s], k) /\ TakenByOthers(ids[s], k)
  BY DEF Reachable
<1>2. PICK l \in Probes : r = Slot(ids[s], l) /\ TakenByOthers(ids[s], l)
  BY DEF Reachable
<1>3. ~(k < l) /\ ~(l < k)
  BY <1>1, <1>2 DEF TakenByOthers, Probes, TypeOK
<1>4. QED
  BY <1>1, <1>2, <1>3 DEF Probes, TypeOK

(* The initial table is empty.                                             *)
LEMMA InitialTable == Init => TableInvariant
<1> SUFFICES ASSUME Init PROVE TableInvariant
  OBVIOUS
<1>1. capacity \in Nat \ {0}
  BY ReuseAssumption, DefaultIsLarge DEF Init, CapacityOf
<1>2. TypeOK
  BY <1>1 DEF Init, TypeOK, Insertions
<1>3. QED
  BY <1>2 DEF Init, TableInvariant, Reachable, PassedSlots, ClaimedSlots,
              StoredInTable, DistanceOfId, Insertions, Slots

(* A claim fills a free slot or leaves the ids as they are: what is taken  *)
(* by other nodes stays so.                                                *)
LEMMA ClaimKeepsIds ==
  ASSUME TableInvariant, NEW w \in Warps, Claim(w)
  PROVE  /\ Place(w) \in Slots /\ node[w] \in Nodes
         /\ ids'[Place(w)] = node[w]
         /\ \A s \in Slots : s # Place(w) => ids'[s] = ids[s]
         /\ \A s \in Slots : ids[s] # NoNode => ids'[s] = ids[s]
<1>1. Place(w) \in Slots /\ node[w] \in Nodes
  BY PlaceInTable DEF TableInvariant, Claim, Insertions
<1>2. ids' = [ids EXCEPT ![Place(w)] = node[w]] /\ ids[Place(w)] \in {NoNode, node[w]}
  BY DEF Claim, Accepted
<1>3. QED
  BY <1>1, <1>2 DEF TableInvariant, TypeOK

(* So a node's way to a slot stays taken.                                  *)
LEMMA WayStaysTaken ==
  ASSUME TypeOK, UNCHANGED capacity,
         \A s \in Slots : ids[s] # NoNode => ids'[s] = ids[s],
         NEW n \in Nodes, NEW k \in Nat, TakenByOthers(n, k)
  PROVE  TakenByOthers(n, k)'
<1> SUFFICES ASSUME NEW j \in 0 .. k - 1 PROVE ids'[Slot(n, j)] \notin {NoNode, n}
  BY DEF TakenByOthers, Slot
<1>1. Slot(n, j) \in Slots
  BY SlotInTable
<1>2. QED
  BY <1>1 DEF TakenByOthers

(* Every step keeps the invariant.                                         *)
LEMMA TableStep == TableInvariant /\ [Next]_vars => TableInvariant'
<1> SUFFICES ASSUME TableInvariant, [Next]_vars PROVE TableInvariant'
  OBVIOUS
<1> USE DEF TableInvariant
<1>1. CASE StartRound
  <2>1. TypeOK'
    <3>1. PICK count \in 1 .. Width, reading \in SUBSET Warps :
            /\ expanded' = expanded + count
            /\ \E read \in [reading -> Nodes] :
                 node' = [v \in Warps |-> IF v \in reading THEN read[v] ELSE NoNode]
            /\ pc' = [v \in Warps |-> IF v \in reading THEN "probe" ELSE "idle"]
      BY <1>1 DEF StartRound
    <3>2. expanded' \in Nat
      BY <3>1, ReuseAssumption DEF TypeOK
    <3>3. /\ node' \in [Warps -> Nodes \cup {NoNode}]
          /\ pc' \in [Warps -> {"idle", "probe", "store"}]
          /\ \A v \in Warps : pc'[v] # "idle" => node'[v] \in Nodes
      BY <3>1
    <3>4. QED
      BY <1>1, <3>2, <3>3 DEF StartRound, TypeOK, Insertions, Slots, table
  <2>2. probe' = [v \in Warps |-> 0] /\ UNCHANGED <<table, stored>>
    BY <1>1 DEF StartRound
  <2>3. \A v \in Warps : pc[v] = "idle" /\ pc'[v] # "store"
    BY <1>1 DEF StartRound, AllIdle
  <2>4. PassedSlots'
    BY <2>1, <2>2 DEF PassedSlots, TakenByOthers, Insertions, table, TypeOK
  <2>5. DistanceOfId'
    BY <2>2, <2>3 DEF DistanceOfId, Slots, table
  <2>6. QED
    BY <2>1, <2>2, <2>3, <2>4, <2>5
    DEF Reachable, ClaimedSlots, StoredInTable, TakenByOthers, Slot, Slots, Probes, table
<1>2. ASSUME NEW w \in Warps, Claim(w) PROVE TableInvariant'
  <2>0. probe[w] \in Probes
    BY <1>2 DEF Claim, TypeOK, Probes
  <2>1. /\ Place(w) \in Slots /\ node[w] \in Nodes
        /\ ids'[Place(w)] = node[w]
        /\ \A s \in Slots : s # Place(w) => ids'[s] = ids[s]
        /\ \A s \in Slots : ids[s] # NoNode => ids'[s] = ids[s]
    <3>1. TableInvariant
      OBVIOUS
    <3>2. QED
      BY ONLY <1>2, <3>1, ClaimKeepsIds
  <2>2. /\ UNCHANGED <<capacity, distances, node, probe, stored>>
        /\ pc' = [pc EXCEPT ![w] = "store"] /\ pc[w] = "probe"
    BY <1>2 DEF Claim
  <2>3. /\ UNCHANGED <<Slots, Probes>>
        /\ \A n, k : Slot(n, k)' = Slot(n, k)
        /\ \A v : Place(v)' = Place(v)
        /\ Insertions' = Insertions
    BY <2>2 DEF Slots, Probes, Slot, Place, Insertions, TypeOK
  <2>4. TypeOK'
    BY <1>2, <2>1, <2>2, <2>3 DEF Claim, TypeOK
  <2>5. PassedSlots'
    <3>1. ASSUME NEW v \in Insertions PROVE TakenByOthers(node[v], probe[v])'
      BY <2>1, <2>2, WayStaysTaken DEF PassedSlots, TypeOK, Insertions
    <3>2. QED
      BY <2>2, <2>3, <3>1 DEF PassedSlots
  <2>6. Reachable'
    <3> SUFFICES ASSUME NEW s \in Slots, ids'[s] # NoNode
                 PROVE  \E k \in Probes : s = Slot(ids'[s], k) /\ TakenByOthers(ids[s], k)'
      BY <2>3 DEF Reachable
    <3>1. CASE s = Place(w)
      <4>1. TakenByOthers(node[w], probe[w])'
        BY <2>2, <2>3, <2>5 DEF PassedSlots, Insertions
      <4>2. QED
        BY <2>0, <2>1, <2>2, <3>1, <4>1 DEF Place, TakenByOthers
    <3>2. CASE s # Place(w)
      <4>1. ids'[s] = ids[s] /\ ids[s] \in Nodes
        BY <2>1, <3>2 DEF TypeOK
      <4>2. PICK k \in Probes : s = Slot(ids[s], k) /\ TakenByOthers(ids[s], k)
        BY <4>1 DEF Reachable
      <4>3. TakenByOthers(ids[s], k)'
        <5>1. DEFINE n == ids[s]
        <5>2. n \in Nodes /\ k \in Nat /\ TakenByOthers(n, k)
          BY <4>1, <4>2 DEF Probes, TypeOK
        <5>3. \A j \in 0 .. k - 1 : ids'[Slot(n, j)] \notin {NoNode, n}
          BY <2>1, <5>2, SlotInTable DEF TakenByOthers
        <5>4. QED
          BY <2>3, <4>1, <5>3 DEF TakenByOthers
      <4>4. QED
        BY <4>1, <4>2, <4>3
    <3>3. QED
      BY <3>1, <3>2
  <2>7. ClaimedSlots'
    BY <2>0, <2>1, <2>2, <2>3, PlaceInTable, ReuseAssumption
    DEF ClaimedSlots, Insertions, TypeOK, Probes
  <2>8. StoredInTable'
    BY <2>1, <2>2, <2>3, ReuseAssumption DEF StoredInTable, TypeOK
  <2>9. DistanceOfId'
    BY <2>1, <2>2, <2>3 DEF DistanceOfId, TypeOK
  <2>10. QED
    BY <2>4, <2>5, <2>6, <2>7, <2>8, <2>9
<1>3. ASSUME NEW w \in Warps, Collide(w) PROVE TableInvariant'
  <2>1. /\ UNCHANGED <<capacity, ids, distances, pc, node, stored>>
        /\ probe' = [probe EXCEPT ![w] = @ + 1] /\ pc[w] = "probe"
        /\ probe[w] < capacity /\ ids[Place(w)] \notin {NoNode, node[w]}
    BY <1>3 DEF Collide, table, Accepted
  <2>2. UNCHANGED <<Slots, Probes, Insertions>> /\ \A n, k : Slot(n, k)' = Slot(n, k)
    BY <2>1 DEF Slots, Probes, Slot, Insertions
  <2>3. TypeOK'
    BY <1>3, <2>1, <2>2 DEF Collide, TypeOK
  <2>4. PassedSlots'
    <3> SUFFICES ASSUME NEW v \in Insertions
                 PROVE  probe'[v] <= capacity /\ TakenByOthers(node[v], probe'[v])
      BY <2>1, <2>2 DEF PassedSlots, TakenByOthers
    <3>1. CASE v = w
      <4>1. probe'[w] = probe[w] + 1 /\ probe[w] \in Nat /\ capacity \in Nat
        BY <2>1 DEF TypeOK
      <4>2. TakenByOthers(node[w], probe[w])
        BY <3>1 DEF PassedSlots
      <4>3. \A j \in 0 .. probe[w] : j \in 0 .. probe[w] - 1 \/ j = probe[w]
        BY <4>1
      <4>4. \A j \in 0 .. probe[w] : ids[Slot(node[w], j)] \notin {NoNode, node[w]}
        BY <2>1, <4>2, <4>3 DEF TakenByOthers, Place
      <4>5. QED
        BY <2>1, <3>1, <4>1, <4>4 DEF TakenByOthers
    <3>2. CASE v # w
      BY <2>1, <3>2 DEF PassedSlots, TypeOK, Insertions
    <3>3. QED
      BY <3>1, <3>2
  <2>5. \A v \in Warps : pc[v] = "store" => Place(v)' = Place(v) /\ probe'[v] = probe[v]
    BY <2>1, <2>2 DEF Place, TypeOK
  <2>6. Reachable' /\ StoredInTable'
    BY <2>1, <2>2 DEF Reachable, StoredInTable, TakenByOthers
  <2>7. ClaimedSlots' /\ DistanceOfId'
    BY <2>1, <2>2, <2>5 DEF ClaimedSlots, DistanceOfId
  <2>8. QED
    BY <2>3, <2>4, <2>6, <2>7
<1>4. ASSUME NEW w \in Warps, StoreDistance(w) PROVE TableInvariant'
  <2>1. /\ UNCHANGED <<capacity, ids, node, probe>>
        /\ distances' = [distances EXCEPT ![Place(w)] = node[w]]
        /\ stored' = stored \cup {node[w]}
        /\ pc' = [pc EXCEPT ![w] = "idle"] /\ pc[w] = "store"
    BY <1>4 DEF StoreDistance, Store
  <2>2. /\ UNCHANGED <<Slots, Probes>>
        /\ \A n, k : Slot(n, k)' = Slot(n, k)
        /\ \A v : Place(v)' = Place(v)
        /\ Insertions' \subseteq Insertions
        /\ \A v \in Warps : pc'[v] = "store" => pc[v] = "store"
    BY <2>1 DEF Slots, Probes, Slot, Place, Insertions, TypeOK
  <2>3. Place(w) \in Slots /\ node[w] \in Nodes /\ ids[Place(w)] = node[w]
    BY <2>1, PlaceInTable DEF ClaimedSlots, Insertions
  <2>4. TypeOK'
    BY <1>4, <2>1, <2>2, <2>3 DEF StoreDistance, TypeOK
  <2>5. Reachable' /\ PassedSlots' /\ ClaimedSlots'
    BY <2>1, <2>2 DEF Reachable, PassedSlots, ClaimedSlots, TakenByOthers
  <2>6. StoredInTable'
    BY <2>1, <2>2, <2>3 DEF StoredInTable
  <2>7. DistanceOfId'
    <3> SUFFICES ASSUME NEW s \in Slots, ids[s] # NoNode
                 PROVE  distances'[s] = ids[s] \/ \E v \in Warps : pc'[v] = "store" /\ Place(v) = s
      BY <2>1, <2>2 DEF DistanceOfId
    <3>1. CASE s = Place(w)
      BY <2>1, <2>3, <3>1 DEF TypeOK
    <3>2. CASE s # Place(w)
      BY <2>1, <3>2 DEF DistanceOfId, TypeOK
    <3>3. QED
      BY <3>1, <3>2
  <2>8. QED
    BY <2>4, <2>5, <2>6, <2>7
<1>5. ASSUME NEW w \in Warps, Overflow(w) PROVE TableInvariant'
  <2>1. /\ UNCHANGED <<capacity, ids, distances, node, probe, stored>>
        /\ pc' = [pc EXCEPT ![w] = "idle"] /\ pc[w] = "probe"
    BY <1>5 DEF Overflow, table
  <2>2. /\ UNCHANGED <<Slots, Probes>>
        /\ \A n, k : Slot(n, k)' = Slot(n, k)
        /\ \A v : Place(v)' = Place(v)
        /\ Insertions' \subseteq Insertions
        /\ \A v \in Warps : pc'[v] = "store" <=> pc[v] = "store"
    BY <2>1 DEF Slots, Probes, Slot, Place, Insertions, TypeOK
  <2>3. TypeOK'
    BY <1>5, <2>1, <2>2 DEF Overflow, TypeOK
  <2>4. Reachable' /\ PassedSlots' /\ ClaimedSlots' /\ StoredInTable' /\ DistanceOfId'
    BY <2>1, <2>2 DEF Reachable, PassedSlots, ClaimedSlots, StoredInTable, DistanceOfId,
                      TakenByOthers
  <2>5. QED
    BY <2>3, <2>4
<1>6. CASE UNCHANGED vars
  <2>1. TypeOK'
    BY <1>6 DEF vars, table, warp, TypeOK, Slots, Insertions
  <2>2. QED
    BY <1>6, <2>1 DEF vars, table, warp, Reachable, PassedSlots, ClaimedSlots, StoredInTable,
      DistanceOfId, TakenByOthers, Slot, Slots, Probes, Place, Insertions
<1>7. QED
  BY <1>1, <1>2, <1>3, <1>4, <1>5, <1>6 DEF Next, Insertion

(* The invariant holds throughout.                                         *)
LEMMA TableAlways == Spec => []TableInvariant
BY InitialTable, TableStep, PTL DEF Spec
-----------------------------------------------------------------------------
(* Types: the table has node ids, and a warp that inserts has a node.      *)
THEOREM ReuseTypes == Spec => []TypeOK
<1>1. TableInvariant => TypeOK
  BY DEF TableInvariant
<1>2. QED
  BY <1>1, TableAlways, PTL

(* However the warps' atomicCAS loops interleave, a node never gets a      *)
(* second slot.                                                            *)
THEOREM NodeHasOneSlot == Spec => []OneSlotPerNode
<1>1. TableInvariant => OneSlotPerNode
  BY ReachableAlone DEF TableInvariant
<1>2. QED
  BY <1>1, TableAlways, PTL

(* What InsertExactReuse has stored, LookupExactReuse finds, for every     *)
(* capacity and hash function, at any later time.                          *)
THEOREM StoredStaysFound == Spec => []StoredIsFound
<1>1. ASSUME TableInvariant PROVE StoredIsFound
  <2> SUFFICES ASSUME NEW n \in stored PROVE Hit(n)
    BY DEF StoredIsFound
  <2>1. PICK s \in Slots : ids[s] = n
    BY <1>1 DEF TableInvariant, StoredInTable
  <2>2. n # NoNode
    BY <1>1, ReuseAssumption DEF TableInvariant, TypeOK
  <2>3. QED
    BY <1>1, <2>1, <2>2 DEF TableInvariant, Reachable, TakenByOthers, Hit, Reaches
<1>2. QED
  BY <1>1, TableAlways, PTL

(* Between rounds, and so in the rerank, a hit has the distance of the     *)
(* node that was looked up.                                                *)
THEOREM HitsAreRight == Spec => []HitIsRight
<1>1. ASSUME TableInvariant PROVE HitIsRight
  <2> SUFFICES ASSUME AllIdle, NEW n \in Nodes, Hit(n) PROVE LookedUp(n) = n
    BY DEF HitIsRight
  <2> DEFINE k == CHOOSE i \in Probes : Reaches(n, i)
  <2>1. k \in Probes /\ Reaches(n, k)
    BY DEF Hit
  <2>2. Slot(n, k) \in Slots /\ ids[Slot(n, k)] = n /\ n # NoNode
    BY <1>1, <2>1, SlotInTable, ReuseAssumption DEF TableInvariant, Reaches, Probes
  <2>3. distances[Slot(n, k)] = n
    BY <1>1, <2>2 DEF TableInvariant, DistanceOfId, AllIdle
  <2>4. QED
    BY <2>3 DEF LookedUp
<1>2. QED
  BY <1>1, TableAlways, PTL
-----------------------------------------------------------------------------
(* A node that has looked at as many places as the table has slots has     *)
(* looked at every slot.                                                   *)
LEMMA Remainder ==
  ASSUME NEW q \in Nat, NEW c \in Nat \ {0}, NEW r \in 0 .. c - 1
  PROVE  (q * c + r) % c = r
OBVIOUS

LEMMA Division ==
  ASSUME NEW a \in Nat, NEW c \in Nat \ {0}
  PROVE  \E q \in Nat, r \in 0 .. c - 1 : a = q * c + r
<1> DEFINE Divided(b) == \E q \in Nat, r \in 0 .. c - 1 : b = q * c + r
           Bad == {b \in Nat : ~Divided(b)}
<1> SUFFICES ASSUME ~Divided(a) PROVE FALSE
  OBVIOUS
<1>1. PICK b \in Bad : \A d \in Bad : b <= d
  <2>1. a \in Bad /\ Bad \subseteq Nat
    OBVIOUS
  <2> HIDE DEF Bad
  <2> QED
    BY <2>1, LeastElement
<1>2. CASE b < c
  <2>1. b = 0 * c + b /\ b \in 0 .. c - 1
    BY <1>1, <1>2
  <2> QED
    BY <1>1, <2>1
<1>3. CASE b >= c
  <2>1. b - c \in Nat /\ b - c < b
    BY <1>1, <1>3
  <2>2. Divided(b - c)
    BY <1>1, <2>1
  <2>3. PICK q \in Nat, r \in 0 .. c - 1 : b - c = q * c + r
    BY <2>2
  <2>4. (q + 1) * c = q * c + c
    OBVIOUS
  <2>5. q * c \in Nat
    OBVIOUS
  <2>6. b = (q + 1) * c + r /\ q + 1 \in Nat
    BY <1>1, <2>3, <2>4, <2>5
  <2>7. Divided(b)
    BY <2>6
  <2> QED
    BY <1>1, <2>7
<1> QED
  BY <1>1, <1>2, <1>3

LEMMA EverySlotSeen ==
  ASSUME TypeOK, NEW n \in Nodes, NEW s \in Slots
  PROVE  \E k \in 0 .. capacity - 1 : Slot(n, k) = s
<1>1. capacity \in Nat \ {0} /\ Hash[n] \in Nat /\ s \in 0 .. capacity - 1
  BY ReuseAssumption DEF TypeOK, Slots
<1>2. PICK q \in Nat, r \in 0 .. capacity - 1 : Hash[n] = q * capacity + r
  BY <1>1, Division
<1>3. q * capacity \in Nat /\ (q + 1) * capacity = q * capacity + capacity
  BY <1>1
<1>4. CASE r <= s
  <2>1. s - r \in 0 .. capacity - 1 /\ Hash[n] + (s - r) = q * capacity + s
    BY <1>1, <1>2, <1>3, <1>4
  <2>2. Slot(n, s - r) = s
    BY <1>1, <2>1, Remainder DEF Slot
  <2> QED
    BY <2>1, <2>2
<1>5. CASE s < r
  <2>1. /\ s + capacity - r \in 0 .. capacity - 1
        /\ Hash[n] + (s + capacity - r) = (q + 1) * capacity + s
    BY <1>1, <1>2, <1>3, <1>5
  <2>2. Slot(n, s + capacity - r) = s
    <3>1. q + 1 \in Nat
      OBVIOUS
    <3> QED
      BY <1>1, <2>1, <3>1, Remainder DEF Slot
  <2> QED
    BY <2>1, <2>2
<1> QED
  BY <1>1, <1>4, <1>5

(* Each expansion of a round takes at most one slot: those taken, and the  *)
(* insertions that may take one yet, are no more than the nodes that have  *)
(* been expanded, and these exceed the budget by less than a round.        *)
TakenSlots == {s \in Slots : ids[s] # NoNode}
Probing    == {w \in Warps : pc[w] = "probe"}

ExpansionsCover == Cardinality(TakenSlots) + Cardinality(Probing) <= expanded

ExpandedInBudget == expanded <= IF MaxExpansions = 0 THEN 0 ELSE MaxExpansions + Width - 1

OverflowInvariant == ExpansionsCover /\ ExpandedInBudget /\ DefaultSuffices

LEMMA CountsAreNat ==
  ASSUME TypeOK
  PROVE  /\ IsFiniteSet(TakenSlots) /\ IsFiniteSet(Probing) /\ IsFiniteSet(Slots)
         /\ Cardinality(TakenSlots) \in Nat /\ Cardinality(Probing) \in Nat
         /\ Cardinality(Slots) = capacity
<1>1. capacity \in Nat \ {0}
  BY DEF TypeOK
<1>2. IsFiniteSet(Slots) /\ Cardinality(Slots) = capacity
  BY <1>1, FS_Interval DEF Slots
<1>3. IsFiniteSet(TakenSlots) /\ IsFiniteSet(Probing)
  BY <1>2, ReuseAssumption, FS_Subset DEF TakenSlots, Probing
<1> QED
  BY <1>2, <1>3, FS_CardinalityType

LEMMA InitialCounts == Init => OverflowInvariant
<1> SUFFICES ASSUME Init PROVE OverflowInvariant
  OBVIOUS
<1>1. TakenSlots = {} /\ Probing = {} /\ expanded = 0 /\ overflows = 0
  BY DEF Init, TakenSlots, Probing
<1> QED
  BY <1>1, FS_EmptySet, ReuseAssumption
  DEF OverflowInvariant, ExpansionsCover, ExpandedInBudget, DefaultSuffices

(* A warp that leaves the probing ones makes room for one slot.            *)
LEMMA WarpLeaves ==
  ASSUME TypeOK, NEW w \in Probing, Probing' = Probing \ {w}
  PROVE  Cardinality(Probing') = Cardinality(Probing) - 1
BY CountsAreNat, FS_RemoveElement

LEMMA OneMore ==
  ASSUME NEW S, IsFiniteSet(S), NEW x
  PROVE  IsFiniteSet(S \cup {x}) /\ Cardinality(S \cup {x}) <= Cardinality(S) + 1
<1> DEFINE T == S \cup {x}
<1>1. Cardinality(S) \in Nat
  BY FS_CardinalityType
<1>2. CASE x \in S
  <2>1. T = S
    BY <1>2
  <2> HIDE DEF T
  <2>2. IsFiniteSet(T) /\ Cardinality(T) = Cardinality(S)
    BY <2>1, Zenon
  <2> QED
    BY <1>1, <2>2 DEF T
<1>3. CASE x \notin S
  <2>1. IsFiniteSet(T) /\ Cardinality(T) = Cardinality(S) + 1
    BY <1>3, FS_AddElement, Zenon
  <2> HIDE DEF T
  <2>2. IsFiniteSet(T) /\ Cardinality(T) <= Cardinality(S) + 1
    BY <1>1, <2>1
  <2> QED
    BY <2>2 DEF T
<1> QED
  BY <1>2, <1>3

LEMMA OverflowStep == TableInvariant /\ OverflowInvariant /\ [Next]_vars => OverflowInvariant'
<1> SUFFICES ASSUME TableInvariant, OverflowInvariant, [Next]_vars PROVE OverflowInvariant'
  OBVIOUS
<1>1. TypeOK /\ TypeOK'
  BY TableStep DEF TableInvariant
<1>7. /\ IsFiniteSet(TakenSlots') /\ IsFiniteSet(Probing')
      /\ Cardinality(TakenSlots') \in Nat /\ Cardinality(Probing') \in Nat
  <2>1. IsFiniteSet(0 .. capacity' - 1)
    BY <1>1, FS_Interval DEF TypeOK
  <2>2. IsFiniteSet(TakenSlots') /\ IsFiniteSet(Probing')
    BY <2>1, ReuseAssumption, FS_Subset DEF TakenSlots, Probing, Slots
  <2> QED
    BY <2>2, FS_CardinalityType
<1>2. CASE StartRound
  <2>1. PICK count \in 1 .. Width, reading \in SUBSET Warps :
          /\ Cardinality(reading) <= count
          /\ expanded' = expanded + count
          /\ pc' = [w \in Warps |-> IF w \in reading THEN "probe" ELSE "idle"]
    BY <1>2 DEF StartRound
  <2>2. Probing' = reading /\ Probing = {} /\ TakenSlots' = TakenSlots
    BY <1>2, <2>1 DEF StartRound, AllIdle, Probing, TakenSlots, Slots, table
  <2>3. Cardinality(Probing) = 0
    BY <2>2, FS_EmptySet
  <2>4. ExpansionsCover'
    <3>1. Cardinality(TakenSlots) <= expanded
      BY <1>1, <2>3, CountsAreNat DEF OverflowInvariant, ExpansionsCover
    <3>2. Cardinality(TakenSlots) \in Nat /\ Cardinality(reading) \in Nat /\ expanded \in Nat
      BY <1>1, <1>7, <2>2, CountsAreNat DEF TypeOK
    <3>3. count \in Nat
      BY ReuseAssumption
    <3>4. Cardinality(TakenSlots) + Cardinality(reading) <= expanded'
      BY <2>1, <3>1, <3>2, <3>3
    <3> QED
      BY <2>2, <3>4 DEF ExpansionsCover
  <2>5. ExpandedInBudget'
    BY <1>1, <1>2, <2>1, ReuseAssumption DEF StartRound, ExpandedInBudget, TypeOK
  <2>6. DefaultSuffices'
    BY <1>2 DEF OverflowInvariant, DefaultSuffices, StartRound, table
  <2> QED
    BY <2>4, <2>5, <2>6 DEF OverflowInvariant
<1>3. ASSUME NEW w \in Warps, Claim(w) PROVE OverflowInvariant'
  <2>1. w \in Probing /\ Probing' = Probing \ {w} /\ w \in Insertions
    BY <1>1, <1>3 DEF Claim, Probing, TypeOK, Insertions
  <2>2. Cardinality(Probing') = Cardinality(Probing) - 1
    BY <1>1, <2>1, WarpLeaves
  <2>3. Place(w) \in Slots /\ node[w] \in Nodes /\ ids' = [ids EXCEPT ![Place(w)] = node[w]]
        /\ Slots' = Slots
    BY <1>1, <1>3, <2>1, PlaceInTable DEF Claim, Slots
  <2>4. TakenSlots' \subseteq TakenSlots \cup {Place(w)}
    BY <1>1, <2>3 DEF TakenSlots, TypeOK
  <2>5. Cardinality(TakenSlots') <= Cardinality(TakenSlots) + 1
    <3>1. /\ IsFiniteSet(TakenSlots \cup {Place(w)})
          /\ Cardinality(TakenSlots \cup {Place(w)}) <= Cardinality(TakenSlots) + 1
      BY <1>1, CountsAreNat, OneMore, Zenon
    <3>2. Cardinality(TakenSlots') <= Cardinality(TakenSlots \cup {Place(w)})
      BY <2>4, <3>1, FS_Subset, Zenon
    <3>3. Cardinality(TakenSlots \cup {Place(w)}) \in Nat
      BY <3>1, FS_CardinalityType
    <3>4. Cardinality(TakenSlots) \in Nat
      BY <1>1, CountsAreNat
    <3> QED
      BY <1>7, <3>1, <3>2, <3>3, <3>4
  <2>6. ExpansionsCover'
    BY <1>1, <1>3, <1>7, <2>2, <2>5, CountsAreNat DEF Claim, OverflowInvariant, ExpansionsCover, TypeOK
  <2> QED
    BY <1>3, <2>6 DEF Claim, OverflowInvariant, ExpandedInBudget, DefaultSuffices
<1>4. ASSUME NEW w \in Warps, Collide(w) \/ StoreDistance(w) PROVE OverflowInvariant'
  <2>1. /\ Probing' = Probing /\ TakenSlots' = TakenSlots
        /\ UNCHANGED <<expanded, overflows, capacity>>
    BY <1>1, <1>4 DEF Collide, StoreDistance, Store, Probing, TakenSlots, Slots, table, TypeOK
  <2> QED
    BY <2>1 DEF OverflowInvariant, ExpansionsCover, ExpandedInBudget, DefaultSuffices
<1>5. ASSUME NEW w \in Warps, Overflow(w) PROVE OverflowInvariant'
  <2>1. w \in Probing /\ Probing' = Probing \ {w} /\ TakenSlots' = TakenSlots
    BY <1>1, <1>5 DEF Overflow, Probing, TypeOK, TakenSlots, Slots, table
  <2>2. Cardinality(Probing') = Cardinality(Probing) - 1 /\ Cardinality(Probing) >= 1
    <3>1. Cardinality(Probing') = Cardinality(Probing) - 1 /\ Cardinality(Probing) \in Nat
      BY <1>1, <2>1, WarpLeaves, CountsAreNat
    <3> QED
      BY <1>7, <3>1
  <2>3. ExpansionsCover'
    BY <1>1, <1>5, <2>1, <2>2, CountsAreNat DEF Overflow, OverflowInvariant, ExpansionsCover, TypeOK
  <2>4. TakenSlots = Slots
    <3> SUFFICES ASSUME NEW s \in Slots PROVE ids[s] # NoNode
      BY DEF TakenSlots
    <3>1. w \in Insertions /\ node[w] \in Nodes
      BY <1>1, <1>5 DEF Overflow, Insertions, TypeOK
    <3>2. PICK k \in 0 .. capacity - 1 : Slot(node[w], k) = s
      BY <1>1, <3>1, EverySlotSeen
    <3>3. k \in 0 .. probe[w] - 1
      BY <1>1, <1>5, <3>2 DEF Overflow, TypeOK
    <3> QED
      BY <3>1, <3>2, <3>3 DEF TableInvariant, PassedSlots, TakenByOthers
  <2>5. expanded >= capacity + 1
    BY <1>1, <2>2, <2>4, CountsAreNat DEF OverflowInvariant, ExpansionsCover, TypeOK
  <2>6. ~(capacity = Default /\ Width <= MaxExpansions + 1)
    BY <1>1, <2>5, DefaultIsLarge, ReuseAssumption
    DEF OverflowInvariant, ExpandedInBudget, TypeOK
  <2> QED
    BY <1>5, <2>3, <2>6 DEF Overflow, OverflowInvariant, ExpandedInBudget, DefaultSuffices, table
<1>6. CASE UNCHANGED vars
  BY <1>6 DEF vars, table, warp, OverflowInvariant, ExpansionsCover, ExpandedInBudget,
    DefaultSuffices, TakenSlots, Probing, Slots
<1> QED
  BY <1>2, <1>3, <1>4, <1>5, <1>6 DEF Next, Insertion

(* The default capacity is enough for every traversal, whatever the hash   *)
(* function and the interleaving, as long as a round cannot pass the       *)
(* budget by more than the budget.                                         *)
THEOREM DefaultCapacitySuffices == Spec => []DefaultSuffices
<1>1. OverflowInvariant => DefaultSuffices
  BY DEF OverflowInvariant
<1> QED
  BY <1>1, InitialCounts, OverflowStep, TableAlways, PTL DEF Spec
=============================================================================
