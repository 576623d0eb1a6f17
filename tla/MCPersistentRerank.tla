-------------------------- MODULE MCPersistentRerank --------------------------
(* Small instances of PersistentRerank.  Node n is at distance MCExact[n];  *)
(* 9 is an invalid candidate.                                               *)
EXTENDS PersistentRerank

MCNodes == 1 .. 5
MCExact == <<4, 1, 2, 1, 2>>

(* A list has its valid candidates first, in any order.                     *)
MCLists ==
  {l \in [1 .. Budget -> NodeOrNone] :
     /\ \A i, j \in 1 .. Budget : i < j /\ l[j] # NoNode => l[i] # NoNode
     /\ \A i, j \in 1 .. Budget : i # j /\ l[i] # NoNode => l[i] # l[j]}

MCBounds == {[n \in MCNodes |-> 0], MCExact,
             [n \in MCNodes |-> IF n = 2 THEN 0 ELSE MCExact[n]]}
Options(tile, early, learned, record) ==
  [tile |-> tile, filter |-> TRUE, early |-> early, min_prefix |-> 2,
   patience |-> 2, learned |-> learned, bootstrap |-> 1,
   stages |-> IF learned THEN <<1, 2, 2, 4>> ELSE <<>>, record |-> record]

Asked(lists, launch) ==
  {[list |-> l, bounds |-> b, options |-> launch] : l \in lists, b \in MCBounds}

(* No stop rule in windows of two, the early stop, and the learned stop,   *)
(* recorded and replayed.  Lists may have fewer candidates than top_k.     *)
MCRequests == Asked(MCLists, Options(2, FALSE, FALSE, FALSE))
              \cup Asked(MCLists, Options(1, TRUE, FALSE, FALSE))
              \cup Asked(MCLists, Options(1, FALSE, TRUE, TRUE))
=============================================================================
