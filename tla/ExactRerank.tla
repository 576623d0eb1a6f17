----------------------------- MODULE ExactRerank -----------------------------
(***************************************************************************)
(* What a rerank promises: each query of the batch is answered once, with  *)
(* the top_k nearest of the candidates it was given, whatever the tiles,   *)
(* bounds and caches that save reads and distances on the way.  Only a     *)
(* stop rule may leave out candidates, and then all from some rank on.     *)
(***************************************************************************)
EXTENDS RerankOrder

CONSTANTS
  Queries,
  Exact,      \* Exact[q][n]: the exact distance of node n from query q
  CandidateLists

VARIABLES
  candidates, \* per query: the nodes to rerank
  depths,     \* per query: the numbers of candidates it may be answered from
  answered,   \* the queries that have their answer
  answer      \* per query: its answer

vars == <<candidates, depths, answered, answer>>

Init ==
  /\ candidates \in CandidateLists
  /\ depths \in [Queries -> (SUBSET Nat) \ {{}}]
  /\ answered = {}
  /\ answer = [q \in Queries |-> <<>>]

AnswerOf(q, depth) == NearestOf(Exact[q], Prefix(candidates[q], depth))

AnswerQueries ==
  \E now \in (SUBSET (Queries \ answered)) \ {{}} :
    /\ answered' = answered \cup now
    /\ answer' = [q \in Queries |-> answer'[q]]
    /\ \A q \in now : \E depth \in depths[q] : answer'[q] = AnswerOf(q, depth)
    /\ \A q \in Queries \ now : answer'[q] = answer[q]
    /\ UNCHANGED <<candidates, depths>>

Safety == Init /\ [][AnswerQueries]_vars

Spec == Safety /\ <>(answered = Queries)
=============================================================================
