----------------------------- MODULE RerankOrder -----------------------------
(***************************************************************************)
(* Entries of the rerank's result arrays, a distance and a node each, and  *)
(* the order they are sorted in.                                           *)
(***************************************************************************)
EXTENDS Naturals, Sequences, FiniteSets

CONSTANTS
  Nodes,     \* raw node ids, numbers
  NoNode,    \* kInvalidNodeId, above every id
  Infinity,  \* above every distance
  TopK       \* top_k

ASSUME OrderAssumption ==
  /\ Nodes \subseteq Nat /\ NoNode \in Nat /\ \A n \in Nodes : n < NoNode
  /\ Infinity \in Nat /\ TopK \in Nat \ {0}

NodeOrNone == Nodes \cup {NoNode}

Unfilled == [distance |-> Infinity, node |-> NoNode]

Scored(exact, n) ==
  IF n = NoNode THEN Unfilled ELSE [distance |-> exact[n], node |-> n]

EntryLess(a, b) ==
  a.distance < b.distance \/ (a.distance = b.distance /\ a.node < b.node)

(* The entries in order: at rank r is one that has less than r entries     *)
(* before it, and r at least up to its like.                               *)
Sorted(entries) ==
  [r \in DOMAIN entries |-> entries[
     CHOOSE i \in DOMAIN entries :
       /\ Cardinality({j \in DOMAIN entries : EntryLess(entries[j], entries[i])}) < r
       /\ Cardinality({j \in DOMAIN entries : ~EntryLess(entries[i], entries[j])}) >= r]]

LesserOf(a, b) == IF a <= b THEN a ELSE b

Prefix(sequence, length) == SubSeq(sequence, 1, LesserOf(length, Len(sequence)))

HasNode(entry) == entry.node # NoNode

(* The entries that have a node, in their order: SelectSeq, in a form that *)
(* can be reasoned about.                                                  *)
WithNodes(entries) ==
  LET filled == {i \in DOMAIN entries : HasNode(entries[i])}
  IN  [k \in 1 .. Cardinality(filled) |->
         entries[CHOOSE i \in filled : Cardinality({j \in filled : j <= i}) = k]]

(* The least distance that top_k entries do not exceed.                    *)
KthDistance(entries) ==
  LET Within(d) == Cardinality({i \in DOMAIN entries : entries[i].distance <= d})
      distances == {entries[i].distance : i \in DOMAIN entries} \cup {Infinity}
      reached   == {d \in distances : d = Infinity \/ Within(d) >= TopK}
  IN  CHOOSE d \in reached : \A e \in reached : d <= e

(* The top_k nearest of the valid candidates of a list.                    *)
NearestOf(exact, nodes) ==
  Prefix(WithNodes(Sorted([i \in DOMAIN nodes |-> Scored(exact, nodes[i])])), TopK)
=============================================================================
