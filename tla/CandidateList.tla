---------------------------- MODULE CandidateList ----------------------------
(***************************************************************************)
(* The per-query candidate list of the topology traversal kernels and the  *)
(* operations on it: the candidate order, the merge of a frontier into the *)
(* list, the unexpanded-prefix bits and the lossy visited filter           *)
(* (src/src/search/topology_search_kernel.cu).                             *)
(*                                                                         *)
(* The list is an array of Capacity entries, as in shared memory: the      *)
(* first `valid' of them hold nodes, the others are invalid.  A frontier   *)
(* is an array of Slots entries, one per (selected node, neighbour) pair   *)
(* or per entry id of a batch; a slot that was not admitted holds NoNode.  *)
(***************************************************************************)
EXTENDS Integers, FiniteSets

CONSTANTS
  Nodes,      \* ids below num_nodes
  NoNode,     \* kInvalidNodeId, and any id that is not below num_nodes
  Dist,       \* PQ distance of each node to the query
  HashBits,   \* bits that the hash functions set for each node
  TopL,       \* length of the prefix in which nodes are expanded
  Capacity,   \* entries of the candidate array
  Slots       \* frontier_slots = search_width * degree

(* Node ids are numbers because equal distances are ordered by id.         *)
ASSUME NodesAssumption ==
  /\ Nodes \subseteq Nat
  /\ NoNode \notin Nodes
  /\ Dist \in [Nodes -> Nat]

ASSUME HashAssumption == HashBits \in [Nodes -> SUBSET Nat]

(* candidate_capacity is the next power of two of a bound that is at least *)
(* top_l, and top_l is positive.                                           *)
ASSUME SizesAssumption ==
  /\ TopL \in Nat \ {0}
  /\ Capacity \in Nat
  /\ TopL <= Capacity
  /\ Slots \in Nat

NodeOrNone == Nodes \cup {NoNode}

(* A packed candidate: the raw node id and the expanded flag.  Its         *)
(* distance is a function of the id, so it is not stored.                  *)
Candidate == [id : NodeOrNone, expanded : BOOLEAN]

InvalidCandidate == [id |-> NoNode, expanded |-> FALSE]

CandidateArray == [1 .. Capacity -> Candidate]
FrontierArray  == [1 .. Slots -> NodeOrNone]

EmptyList     == [i \in 1 .. Capacity |-> InvalidCandidate]
EmptyFrontier == [i \in 1 .. Slots |-> NoNode]

IsValid(c) == c.id # NoNode

(* Distance first, raw id on equal distances; an invalid entry has an      *)
(* infinite distance and comes last.                                       *)
CandidateLess(a, b) ==
  /\ a # NoNode
  /\ \/ b = NoNode
     \/ Dist[a] < Dist[b]
     \/ Dist[a] = Dist[b] /\ a < b

-----------------------------------------------------------------------------
(* The merge of a frontier.  The code sorts the frontier, finds how many   *)
(* of its entries enter the list, and fills the list from the back; the    *)
(* high-L kernel fills every output position in parallel.  The result of   *)
(* both is stated by output positions: an entry's position is the number   *)
(* of list entries and of frontier entries in front of it.                 *)

Admitted(frontier) == {s \in 1 .. Slots : frontier[s] # NoNode}

SortsBefore(frontier, s, t) ==
  \/ CandidateLess(frontier[s], frontier[t])
  \/ frontier[s] = frontier[t] /\ s < t

(* Place of slot s in the sorted frontier, counted from 1.                 *)
SortRank(frontier, s) ==
  Cardinality({t \in Admitted(frontier) : SortsBefore(frontier, t, s)}) + 1

SmallerOf(m, n) == IF m <= n THEN m ELSE n

UncappedValidCount(valid, frontier) == valid + Cardinality(Admitted(frontier))

NewValidCount(valid, frontier) ==
  SmallerOf(Capacity, valid + Cardinality(Admitted(frontier)))

(* Entries of the list that the node at slot s does not precede.           *)
NotAfter(list, node) ==
  {i \in 1 .. Capacity : IsValid(list[i]) /\ ~CandidateLess(node, list[i].id)}

StrictlyAfter(list, node) ==
  {i \in 1 .. Capacity : IsValid(list[i]) /\ CandidateLess(node, list[i].id)}

StrictlyBefore(list, node) ==
  {i \in 1 .. Capacity : CandidateLess(list[i].id, node)}

AcceptedStrictly(list, valid, frontier) ==
  {s \in Admitted(frontier) :
     Cardinality(NotAfter(list, frontier[s])) + SortRank(frontier, s)
       < NewValidCount(valid, frontier)}

(* The frontier entries that enter the list: each beats the list entry     *)
(* whose place it would push out.                                          *)
AcceptedSlots(list, valid, frontier) ==
  {s \in Admitted(frontier) :
     Cardinality(NotAfter(list, frontier[s])) + SortRank(frontier, s)
       <= NewValidCount(valid, frontier)}

(* On equal keys the new entry goes in front of the old one in the         *)
(* back-to-front merge of the low-L kernels, and behind it in the merge by *)
(* output positions of the high-L kernel.                                  *)
EntriesAhead(list, node, high_l) ==
  IF high_l THEN NotAfter(list, node) ELSE StrictlyBefore(list, node)

OutputPosition(list, frontier, s, high_l) ==
  Cardinality(EntriesAhead(list, frontier[s], high_l)) + SortRank(frontier, s)

MergeFrontier(list, valid, frontier, high_l) ==
  LET accepted == AcceptedSlots(list, valid, frontier)
      At(p)    == {s \in accepted : OutputPosition(list, frontier, s, high_l) = p}
      Above(p) == {s \in accepted : OutputPosition(list, frontier, s, high_l) < p}
  IN  [p \in 1 .. Capacity |->
         IF p > NewValidCount(valid, frontier) THEN list[p]
         ELSE IF At(p) # {}
              THEN [id |-> frontier[CHOOSE s \in At(p) : TRUE],
                    expanded |-> FALSE]
              ELSE list[p - Cardinality(Above(p))]]

-----------------------------------------------------------------------------
(* The prefix: the first top_l entries, or all when there are fewer.       *)
PrefixRanks(valid) == 1 .. SmallerOf(valid, TopL)

UnexpandedRanks(list, valid) ==
  {i \in PrefixRanks(valid) : IsValid(list[i]) /\ ~list[i].expanded}

UnexpandedHash(list, valid) ==
  UNION {HashBits[list[i].id] : i \in UnexpandedRanks(list, valid)}

PrefixHash(list, valid) ==
  UNION {HashBits[list[i].id] : i \in {j \in PrefixRanks(valid) : IsValid(list[j])}}

VisitedTest(node, hash) == HashBits[node] \subseteq hash

(* Place of rank i among some ranks, and the first `width' of them.        *)
PlaceOf(ranks, i) == Cardinality({j \in ranks : j < i}) + 1

FirstRanks(ranks, width) == {i \in ranks : PlaceOf(ranks, i) <= width}
=============================================================================
