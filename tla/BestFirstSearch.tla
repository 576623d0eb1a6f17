--------------------------- MODULE BestFirstSearch ---------------------------
(***************************************************************************)
(* What a traversal of search width 1 promises: a best-first search that   *)
(* keeps the Limit nearest nodes it has met, expands the nearest of them   *)
(* that is not done, and has converged when all of them are done.  It      *)
(* needs no memory of the nodes it has dropped: a node that was dropped    *)
(* stays farther than Limit others for good.  A node it meets may be lost; *)
(* that is on record until it is met again and taken in.                   *)
(***************************************************************************)
EXTENDS Integers, FiniteSets

CONSTANTS
  Closer(_, _),     \* Closer(m, n): m is nearer to the query than n
  Limit,            \* how many nodes are kept
  Budget,           \* how many may be expanded
  Successors(_, _), \* Successors(graph, n): the neighbours of n
  Graphs, EntrySets

VARIABLES
  graph,   \* the topology
  early,   \* whether the search may stop before it has converged
  pending, \* entry nodes not taken in yet
  best,    \* the nodes kept
  done,    \* those of them that have been expanded
  lost,    \* nodes that were lost when they were last met
  spent,   \* expansions so far
  outcome  \* "searching", "converged" or "cut"

vars == <<graph, early, pending, best, done, lost, spent, outcome>>

Nearest(nodes) ==
  {n \in nodes : Cardinality({m \in nodes : Closer(m, n)}) < Limit}

Init ==
  /\ graph \in Graphs
  /\ early \in BOOLEAN
  /\ pending \in EntrySets
  /\ best = {}
  /\ done = {}
  /\ lost = {}
  /\ spent = 0
  /\ outcome = "searching"

(* Meet some nodes.  What is not lost competes with the nodes kept; none   *)
(* of those is lost.                                                       *)
Meet(nodes) ==
  \E missed \in SUBSET (lost \cup nodes) :
    /\ lost \ nodes \subseteq missed
    /\ best' = Nearest(best \cup (nodes \ missed))
    /\ best' \cap missed = {}
    /\ lost' = missed

(* Meet some entry nodes; one that is listed again may be met again.       *)
Seed ==
  \E nodes, rest \in SUBSET pending :
    /\ pending \subseteq nodes \cup rest
    /\ Meet(nodes)
    /\ pending' = rest
    /\ UNCHANGED <<graph, early, done, spent, outcome>>

Expand ==
  /\ outcome = "searching" /\ pending = {} /\ spent < Budget
  /\ \E n \in best \ done :
       /\ \A m \in best \ done : ~Closer(m, n)
       /\ Meet(Successors(graph, n))
       /\ done' = (done \cup {n}) \cap best'
  /\ spent' = spent + 1
  /\ UNCHANGED <<graph, early, pending, outcome>>

Converge ==
  /\ outcome = "searching" /\ pending = {}
  /\ best \subseteq done
  /\ outcome' = "converged"
  /\ UNCHANGED <<graph, early, pending, best, done, lost, spent>>

(* The budget of expansions runs out first, or the search stops early.     *)
CutShort ==
  /\ outcome = "searching" /\ pending = {} /\ (spent >= Budget \/ early)
  /\ ~(best \subseteq done)
  /\ outcome' = "cut"
  /\ UNCHANGED <<graph, early, pending, best, done, lost, spent>>

Next == Seed \/ Expand \/ Converge \/ CutShort

Spec == Init /\ [][Next]_vars /\ WF_vars(Next)
=============================================================================
