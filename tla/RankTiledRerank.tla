--------------------------- MODULE RankTiledRerank ---------------------------
(***************************************************************************)
(* RunBatchFloat32FromDeviceTopologyRankTiled of                           *)
(* src/src/search/rerank_exact.cu: the candidates of all queries are       *)
(* reranked a tile of ranks at a time.  With the bound filter, a candidate *)
(* whose lower bound exceeds the distance of the k-th nearest so far is    *)
(* neither read nor scored; the threads of the prepare kernel append those *)
(* that are left, in any order.                                            *)
(*                                                                         *)
(* Every kernel of a tile is followed by a synchronisation or runs on the  *)
(* same stream, so a step is a kernel, or a candidate of the one whose     *)
(* threads share a counter.                                                *)
(***************************************************************************)
EXTENDS RerankSort, ProductQuantizer

CONSTANTS
  QueryCount,   \* num_queries
  Capacity,     \* candidate_capacity of the traversal's result
  QueryVectors, \* the queries
  ErrorBounds,  \* pq2_error_bounds_fp32: distance of a vector from its codes
  Requests,     \* candidate lists to rerank, with parameters
  Uninitialised \* entries that allocated memory may hold

Queries == 1 .. QueryCount

Exact == [q \in Queries |-> [n \in Nodes |-> SquaredL2(QueryVectors[q], Vectors[n])]]

(* A request has the candidate_buffer of a batch, the number of ranks, the *)
(* tile size and the use of the filter.  BuildFusedTopologyArtifacts makes *)
(* the lists as long as top_n.                                             *)
ASSUME RankTiledAssumption ==
  /\ QueryCount \in Nat \ {0} /\ Capacity \in Nat \ {0}
  /\ Nodes = DOMAIN Vectors
  /\ QueryVectors \in [Queries -> [Dims -> Int]]
  /\ \A q \in Queries, n \in Nodes : Exact[q][n] \in 0 .. Infinity - 1
  /\ ErrorBounds \in [Nodes -> Nat]
  /\ \A r \in Requests :
       /\ r.tile \in Nat /\ r.filter \in BOOLEAN /\ r.top_n \in Nat \ {0}
       /\ \A q \in Queries : r.lists[q] \in Seq([distance : Int, node : NodeOrNone])
                             /\ r.top_n <= Len(r.lists[q])

VARIABLES
  rankTile,    \* rank_tile_size
  boundFilter, \* use_pq2_bound_filter
  topN,        \* top_n
  list,      \* candidate_buffer
  rankBegin, \* rank_begin
  pc,        \* "next tile", "prepare", "score" or "done"
  pending,   \* candidates the threads of the prepare kernel have not seen
  tile,      \* page_ids, slot_ids, node_ids, query_ids and local_ranks
  final,     \* final_distances and final_node_ids
  threshold, \* query_thresholds
  answer     \* topk of each query

request == <<rankTile, boundFilter, topN, list>>
tiles   == <<rankBegin, pending, tile, final, threshold>>
vars    == <<request, tiles, pc, answer>>

Ranks == 1 .. topN

EffectiveTile == IF rankTile = 0 THEN 1 ELSE LesserOf(rankTile, topN)

TileRanks == {r \in Ranks : r > rankBegin /\ r <= rankBegin + EffectiveTile}

Slot(q, r) ==
  LET n == list[q][r].node
      address == IF n = NoNode THEN [page |-> 0, slot |-> 0] ELSE Resolve(n)
  IN  [query |-> q, rank |-> r, node |-> n, page |-> address.page, slot |-> address.slot]

BeginTile ==
  /\ pc = "next tile" /\ rankBegin < topN
  /\ pending' = Queries \X TileRanks
  /\ tile' = <<>>
  /\ pc' = "prepare"
  /\ UNCHANGED <<request, rankBegin, final, threshold, answer>>

(* Without the filter the tile has a place for each rank of each query.    *)
PrepareTile ==
  /\ pc = "prepare" /\ ~boundFilter
  /\ LET count == Cardinality(TileRanks)
     IN  tile' = [i \in 1 .. QueryCount * count |->
                    Slot((i - 1) \div count + 1, rankBegin + ((i - 1) % count) + 1)]
  /\ pending' = {}
  /\ pc' = "score"
  /\ UNCHANGED <<request, rankBegin, final, threshold, answer>>

Approximate(q, candidate) == candidate.distance - SquaredNorm(QueryVectors[q])

KeptByBareDistance(q, candidate) ==
  threshold[q] = Infinity \/ Approximate(q, candidate) <= threshold[q]

Kept(q, candidate) ==
  threshold[q] = Infinity
    \/ ~BoundExceeds(Approximate(q, candidate), ErrorBounds[candidate.node], threshold[q])

(* With it, a thread takes the next place for the candidate it keeps.      *)
PrepareCandidate(q, r) ==
  /\ pc = "prepare" /\ boundFilter
  /\ <<q, r>> \in pending
  /\ pending' = pending \ {<<q, r>>}
  /\ tile' = IF HasNode(list[q][r]) /\ Kept(q, list[q][r])
             THEN Append(tile, Slot(q, r)) ELSE tile
  /\ pc' = IF pending' = {} THEN "score" ELSE "prepare"
  /\ UNCHANGED <<request, rankBegin, final, threshold, answer>>

(* tile_valid_count, and the distances that are computed: those of the     *)
(* first tile_valid_count places.                                          *)
ValidPlaces == Cardinality({i \in DOMAIN tile : tile[i].node # NoNode})

SkipTile ==
  /\ pc = "score" /\ ValidPlaces = 0
  /\ rankBegin' = rankBegin + EffectiveTile
  /\ pc' = "next tile"
  /\ UNCHANGED <<request, pending, tile, final, threshold, answer>>

DistanceOf(place) ==
  IF place.node = NoNode THEN Infinity
  ELSE KernelDistance(QueryVectors[place.query], WrittenPages[place.page], place.slot)

Distance(i, garbage) ==
  IF i <= ValidPlaces THEN DistanceOf(tile[i]) ELSE garbage.distance

PlaceFor(q, r) == {i \in DOMAIN tile : tile[i].query = q /\ tile[i].rank = r}

Scattered(garbage) ==
  [q \in Queries |-> [r \in Ranks |->
     IF PlaceFor(q, r) = {} THEN final[q][r]
     ELSE LET i == CHOOSE i \in PlaceFor(q, r) : TRUE
          IN  [distance |-> Distance(i, garbage), node |-> tile[i].node]]]

ThresholdPrefixBefore == rankBegin

ThresholdPrefix == LesserOf(topN, rankBegin + EffectiveTile)

ScoreTile ==
  /\ pc = "score" /\ ValidPlaces # 0
  /\ \E garbage \in Uninitialised : final' = Scattered(garbage)
  /\ threshold' = IF boundFilter
                  THEN [q \in Queries |->
                          KthDistance(SubSeq(final'[q], 1, ThresholdPrefix))]
                  ELSE threshold
  /\ rankBegin' = rankBegin + EffectiveTile
  /\ pc' = "next tile"
  /\ UNCHANGED <<request, pending, tile, answer>>

(* FinalizeFusedRerankResults: sort, and take the first top_k valid.       *)
ValidEntries(entries) == Prefix(WithNodes(entries), TopK)

Finalize ==
  /\ pc = "next tile" /\ rankBegin >= topN
  /\ answer' = [q \in Queries |-> ValidEntries(SortedSegment(final[q], topN))]
  /\ pc' = "done"
  /\ UNCHANGED <<request, tiles>>

(* The entries of the tiles before the first; the filter wants them clear. *)
FirstFinal(filter, top_n, garbage) ==
  [q \in Queries |-> [r \in 1 .. top_n |-> IF filter THEN Unfilled ELSE garbage]]

Init ==
  /\ \E r \in Requests :
       /\ rankTile = r.tile /\ boundFilter = r.filter /\ topN = r.top_n
       /\ list = r.lists
  /\ rankBegin = 0 /\ pc = "next tile" /\ pending = {} /\ tile = <<>>
  /\ \E garbage \in Uninitialised : final = FirstFinal(boundFilter, topN, garbage)
  /\ threshold = [q \in Queries |-> Infinity]
  /\ answer = [q \in Queries |-> <<>>]

TileStep ==
  \/ BeginTile \/ PrepareTile
  \/ \E q \in Queries, r \in Ranks : PrepareCandidate(q, r)
  \/ SkipTile \/ ScoreTile \/ Finalize

(* The host runs the batch to its end.                                     *)
Spec == Init /\ [][TileStep]_vars /\ WF_vars(TileStep)
-----------------------------------------------------------------------------
NodesOf(entries) == [i \in DOMAIN entries |-> entries[i].node]

Shown(q) == Prefix(NodesOf(list[q]), topN)

(* Between tiles, the threshold of a query is the distance of its k-th     *)
(* nearest candidate among all ranks up to here: the candidates that were  *)
(* never scored do not move it.                                            *)
ThresholdIsKth ==
  (boundFilter /\ pc = "next tile") =>
    \A q \in Queries :
      threshold[q] = KthDistance([i \in 1 .. LesserOf(topN, rankBegin) |->
                                    Scored(Exact[q], list[q][i].node)])

(* The answer is that of the rerank that scores every candidate (the tests *)
(* compare the tiled modes with RunBatchFloat32).                          *)
AnswersBaseline ==
  pc = "done" => \A q \in Queries : answer[q] = NearestOf(Exact[q], Shown(q))
=============================================================================
