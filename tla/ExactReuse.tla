------------------------------ MODULE ExactReuse ------------------------------
(***************************************************************************)
(* The exact-reuse table of one query: an open-addressing hash table in    *)
(* which the traversal keeps the exact distance of every node it has read  *)
(* from the SSD (InsertExactReuse of src/src/search/                       *)
(* topology_search_kernel.cu), so that the rerank need not read it again   *)
(* (LookupExactReuse of src/src/io/bam_vector_provider.cu).                *)
(*                                                                         *)
(* The warps that stage the rows of a round insert concurrently.  A step   *)
(* is one atomicCAS on a slot, or the plain store of the distance after    *)
(* it.  The microbatched kernel inserts the nodes of a round one after the *)
(* other, which is one of the interleavings.  The rerank looks up when the *)
(* traversal has ended, and reads only.                                    *)
(***************************************************************************)
EXTENDS Integers, FiniteSets

CONSTANTS
  Nodes,         \* nodes that are not in the topology cache
  NoNode,        \* kInvalidNodeId
  Hash,          \* HashExactReuseNode
  Warps,         \* warps that stage rows
  Width,         \* search_width
  MaxExpansions, \* max_expansions
  Capacities     \* exact_reuse_cache_capacity as asked for, 0 for the default

(* The capacity is a power of two, so a mask is a remainder.               *)
NextPowerOfTwo(n) ==
  CHOOSE c \in {2 ^ i : i \in 0 .. n} : c >= n /\ \A i \in 0 .. n : 2 ^ i >= n => c <= 2 ^ i

DefaultTight == NextPowerOfTwo(IF MaxExpansions < 2 THEN 2 ELSE MaxExpansions)

Default == NextPowerOfTwo(IF MaxExpansions = 0 THEN 2 ELSE 2 * MaxExpansions)

ASSUME ReuseAssumption ==
  /\ NoNode \notin Nodes /\ Hash \in [Nodes -> Nat]
  /\ IsFiniteSet(Warps) /\ Width \in Nat \ {0} /\ MaxExpansions \in Nat
  /\ Capacities \subseteq Nat
  /\ \A asked \in Capacities : asked = 0 \/ \E i \in 0 .. asked : asked = 2 ^ i

(* True of every number; the provers know no rule for powers.              *)
ASSUME PowersAssumption ==
  \A i \in 0 .. 2 * MaxExpansions + 2 : 2 ^ i \in Nat /\ i < 2 ^ i

VARIABLES
  capacity,  \* cache_capacity
  ids,       \* cache_node_ids of the query
  distances, \* cache_distances: the node whose distance was stored, if any
  expanded,  \* stats.expanded_nodes
  pc,        \* per warp: "idle", "probe" or "store"
  node,      \* per warp: the node it inserts
  probe,     \* per warp: probe
  inserts,   \* exact_reuse_inserts
  overflows, \* exact_reuse_overflows
  stored     \* nodes whose distance has been stored

table == <<capacity, ids, distances>>
warp  == <<pc, node, probe>>
vars  == <<table, expanded, warp, inserts, overflows, stored>>

Slots == 0 .. capacity - 1

Slot(n, k) == (Hash[n] + k) % capacity

AllIdle == \A w \in Warps : pc[w] = "idle"
-----------------------------------------------------------------------------
(* A round of the traversal: up to search_width nodes are expanded, some   *)
(* of them are not in the topology cache, and a node may be among them     *)
(* that was expanded before.  The block meets at a barrier first.          *)
StartRound ==
  /\ AllIdle /\ expanded < MaxExpansions
  /\ \E count \in 1 .. Width, reading \in SUBSET Warps :
       /\ Cardinality(reading) <= count
       /\ expanded' = expanded + count
       /\ \E read \in [reading -> Nodes] :
            node' = [w \in Warps |-> IF w \in reading THEN read[w] ELSE NoNode]
       /\ pc' = [w \in Warps |-> IF w \in reading THEN "probe" ELSE "idle"]
  /\ probe' = [w \in Warps |-> 0]
  /\ UNCHANGED <<table, inserts, overflows, stored>>

Place(w) == Slot(node[w], probe[w])

(* A slot is the node's if it was free or has its id already.              *)
AcceptedIfFree(w) == ids[Place(w)] = NoNode

Accepted(w) == ids[Place(w)] \in {NoNode, node[w]}

Claim(w) ==
  /\ pc[w] = "probe" /\ probe[w] < capacity
  /\ Accepted(w)
  /\ ids' = [ids EXCEPT ![Place(w)] = node[w]]
  /\ pc' = [pc EXCEPT ![w] = "store"]
  /\ inserts' = IF ids[Place(w)] = NoNode THEN inserts + 1 ELSE inserts
  /\ UNCHANGED <<capacity, distances, expanded, node, probe, overflows, stored>>

Collide(w) ==
  /\ pc[w] = "probe" /\ probe[w] < capacity
  /\ ~Accepted(w)
  /\ probe' = [probe EXCEPT ![w] = @ + 1]
  /\ UNCHANGED <<table, expanded, pc, node, inserts, overflows, stored>>

StoreAtHome(w) == distances' = [distances EXCEPT ![Slot(node[w], 0)] = node[w]]

Store(w) == distances' = [distances EXCEPT ![Place(w)] = node[w]]

StoreDistance(w) ==
  /\ pc[w] = "store"
  /\ Store(w)
  /\ stored' = stored \cup {node[w]}
  /\ pc' = [pc EXCEPT ![w] = "idle"]
  /\ UNCHANGED <<capacity, ids, expanded, node, probe, inserts, overflows>>

Overflow(w) ==
  /\ pc[w] = "probe" /\ probe[w] >= capacity
  /\ overflows' = overflows + 1
  /\ pc' = [pc EXCEPT ![w] = "idle"]
  /\ UNCHANGED <<table, expanded, node, probe, inserts, stored>>
-----------------------------------------------------------------------------
CapacityOf(asked) == IF asked = 0 THEN Default ELSE asked

(* cudaMemset fills the ids; the distances are whatever memory holds.      *)
Init ==
  /\ \E asked \in Capacities : capacity = CapacityOf(asked)
  /\ ids = [s \in Slots |-> NoNode]
  /\ distances = [s \in Slots |-> NoNode]
  /\ expanded = 0
  /\ pc = [w \in Warps |-> "idle"]
  /\ node = [w \in Warps |-> NoNode]
  /\ probe = [w \in Warps |-> 0]
  /\ inserts = 0 /\ overflows = 0 /\ stored = {}

Insertion(w) == Claim(w) \/ Collide(w) \/ StoreDistance(w) \/ Overflow(w)

Next == StartRound \/ \E w \in Warps : Insertion(w)

(* How many rounds there are is the traversal's choice.                    *)
Spec == Init /\ [][Next]_vars
-----------------------------------------------------------------------------
(* LookupExactReuse probes until it finds the node or a free slot.         *)
ProbesButLast == 0 .. capacity - 2

Probes == 0 .. capacity - 1

Reaches(n, k) ==
  /\ ids[Slot(n, k)] = n
  /\ \A j \in 0 .. k - 1 : ids[Slot(n, j)] \notin {NoNode, n}

Hit(n) == \E k \in Probes : Reaches(n, k)

LookedUp(n) == distances[Slot(n, CHOOSE k \in Probes : Reaches(n, k))]
-----------------------------------------------------------------------------
Insertions == {w \in Warps : pc[w] # "idle"}

TypeOK ==
  /\ capacity \in Nat \ {0}
  /\ ids \in [Slots -> Nodes \cup {NoNode}]
  /\ distances \in [Slots -> Nodes \cup {NoNode}]
  /\ expanded \in Nat
  /\ pc \in [Warps -> {"idle", "probe", "store"}]
  /\ node \in [Warps -> Nodes \cup {NoNode}]
  /\ \A w \in Insertions : node[w] \in Nodes
  /\ probe \in [Warps -> Nat]
  /\ inserts \in Nat /\ overflows \in Nat
  /\ stored \subseteq Nodes

(* However the warps interleave, a node never gets a second slot, so the   *)
(* distance stored last is the one that is found.                          *)
OneSlotPerNode ==
  \A s, r \in Slots : ids[s] # NoNode /\ ids[s] = ids[r] => s = r

(* A distance that was stored can be looked up from then on: the slots     *)
(* before the node's never become free.                                    *)
StoredIsFound == \A n \in stored : Hit(n)

(* Between rounds, a hit has the distance of the node that was looked up,  *)
(* never that of another node or what memory held before.                  *)
HitIsRight == AllIdle => \A n \in Nodes : Hit(n) => LookedUp(n) = n

(* The default table never overflows, as long as a round that passes the   *)
(* budget cannot pass it by more than the budget.                          *)
DefaultSuffices ==
  (capacity = Default /\ Width <= MaxExpansions + 1) => overflows = 0
=============================================================================
