----------------------------- MODULE RerankBatch -----------------------------
(***************************************************************************)
(* The entry points of the rerank (src/src/search/rerank_exact.cu): a      *)
(* batch whose candidates a traversal found is reranked once for each of a *)
(* list of parameters (RunBatchFloat32FusedRerankSweep of                  *)
(* topoanns_search.cpp).  A run checks its parameters, may refine the      *)
(* candidates with finer codes, and reranks in one of the modes of         *)
(* RunBatchFloat32FromDeviceTopology, on the host path of RunBatchImpl, or *)
(* in the two stages of the evaluation pipeline.  A refusal throws, and    *)
(* the results of the runs before it are lost with it.                     *)
(*                                                                         *)
(* The tiled modes are the steps of RankTiledRerank; the others are a step *)
(* each, the persistent one with an answer that PersistentRerank is shown  *)
(* to give.                                                                *)
(***************************************************************************)
EXTENDS RankTiledRerank

CONSTANTS
  Base,     \* pq_index
  Fine,     \* pq2_index, when it is a second index for the vectors
  Residual, \* pq2_index, when it is for what the base codes leave over
  Hybrid,   \* hpq_index
  Batches,  \* batches and what is to be done with them
  MaxRuns

(* A batch has, per query, the nodes the traversal found, nearest first by *)
(* the base codes; what is loaded besides the base codes; and the runs:    *)
(*   mode    "host", "linear", "tiled", "page", "persistent" or "staged"   *)
(*   top_n, tile, filter, refine, refine_top_l, learned      parameters    *)
(*   hybrid  use_hpq of the pipeline                                       *)
(*   stop    the persistent rerank has a stop rule                         *)
(* The tools keep top_n within the refined list.                           *)
ASSUME RerankBatchAssumption ==
  /\ MaxRuns \in Nat
  /\ \A batch \in Batches :
    /\ batch.loaded \subseteq {"fine", "residual", "bounds", "hybrid"}
    /\ ~({"fine", "residual"} \subseteq batch.loaded)
    /\ "bounds" \in batch.loaded => "residual" \in batch.loaded
    /\ Len(batch.runs) \in 1 .. MaxRuns /\ DOMAIN batch.runs = 1 .. Len(batch.runs)
    /\ \A q \in Queries : batch.found[q] \in Seq(Nodes) /\ Len(batch.found[q]) <= Capacity
    /\ \A i \in DOMAIN batch.runs :
         LET r == batch.runs[i]
         IN  /\ r.top_n \in 1 .. Capacity /\ r.tile \in Nat /\ r.refine_top_l \in Nat
             /\ {r.filter, r.refine, r.learned, r.hybrid, r.stop} \subseteq BOOLEAN
             /\ r.refine => r.refine_top_l = 0 \/ r.refine_top_l >= r.top_n
             /\ (r.mode \in {"tiled", "page"} /\ ~r.filter) =>
                  \A q \in Queries : Len(batch.found[q]) >= r.top_n
             /\ (r.mode = "staged" /\ r.filter) => "bounds" \in batch.loaded /\ r.refine /\ ~r.hybrid

(* The error bounds are those of the residual codes, so that a vector is   *)
(* no nearer than the bound says: what the filter and PersistentRerank     *)
(* take for granted.                                                       *)
BaseEntry(q, n) ==
  [distance |-> PqDistance(Base, QueryVectors[q], n), node |-> n]

ASSUME BoundAssumption ==
  \A q \in Queries, n \in Nodes :
    LET approximate == ResidualDistance(Base, Residual, QueryVectors[q], BaseEntry(q, n))
                         - SquaredNorm(QueryVectors[q])
    IN  approximate \in Int /\ ~BoundExceeds(approximate, ErrorBounds[n], Exact[q][n])

VARIABLES
  batch,
  run,    \* which of the runs
  results \* what the runs before it answered

batchVars == <<batch, run, results>>
allVars   == <<vars, batchVars>>

Params == batch.runs[run]

TopologyList(b, q) ==
  [i \in 1 .. Capacity |->
     IF i <= Len(b.found[q]) THEN BaseEntry(q, b.found[q][i]) ELSE Unfilled]

Persistent(r) == r.mode \in {"persistent", "staged"}
-----------------------------------------------------------------------------
(* The checks that come first, and those of the refine and of the          *)
(* persistent rerank; each is a throw.                                     *)
FilterRefused(b, r) ==
  r.filter /\ r.mode # "staged"
    /\ (~r.refine \/ TopK \notin 1 .. 128 \/ r.mode = "linear" \/ "bounds" \notin b.loaded)

LearnedRefused(r) ==
  r.learned /\ r.mode # "staged" /\ (r.mode # "persistent" \/ ~r.filter)

RefineTopL(r) ==
  IF r.refine_top_l = 0 THEN Capacity ELSE LesserOf(r.refine_top_l, Capacity)

UsesHybrid(r) == r.mode = "staged" /\ r.hybrid

HybridRefused(b, r) ==
  UsesHybrid(r) /\ ("hybrid" \notin b.loaded \/ RefineTopL(r) > MaxDeviceSort)

Pq2Refused(b, r) ==
  ~UsesHybrid(r) /\ (b.loaded \cap {"fine", "residual"} = {} \/ RefineTopL(r) > MaxDeviceSort)

RefineRefused(b, r) == r.refine /\ (HybridRefused(b, r) \/ Pq2Refused(b, r))

PersistentRefused(r) == Persistent(r) /\ (r.tile \notin 1 .. 128 \/ TopK > r.top_n)

Refused(b, r) ==
  r.mode # "host"
    /\ (FilterRefused(b, r) \/ LearnedRefused(r) \/ RefineRefused(b, r) \/ PersistentRefused(r))

Check ==
  /\ pc = "check"
  /\ list' = [q \in Queries |-> TopologyList(batch, q)]
  /\ pc' = IF Refused(batch, Params) THEN "thrown"
           ELSE IF Params.refine /\ Params.mode # "host" THEN "refine" ELSE "rerank"
  /\ UNCHANGED <<rankTile, boundFilter, topN, tiles, answer, batchVars>>
-----------------------------------------------------------------------------
(* The refine kernels: the distances of the first refine_top_l valid       *)
(* candidates by the finer codes, in a list of their own, sorted.          *)
Pq2Distance(b, q, candidate) ==
  IF "residual" \in b.loaded
  THEN ResidualDistance(Base, Residual, QueryVectors[q], candidate)
  ELSE PqDistance(Fine, QueryVectors[q], candidate.node)

ToRefine(q) ==
  Prefix(TopologyList(batch, q), LesserOf(Len(batch.found[q]), RefineTopL(Params)))

RefinedList(q, distances) ==
  BitonicSorted([i \in 1 .. RefineTopL(Params) |->
    IF i \in DOMAIN distances
    THEN [distance |-> distances[i], node |-> ToRefine(q)[i].node]
    ELSE Unfilled], RefineTopL(Params))

Refined ==
  /\ pc = "refine"
  /\ pc' = "rerank"
  /\ UNCHANGED <<rankTile, boundFilter, topN, tiles, answer, batchVars>>

RefinePq2 ==
  /\ Refined /\ ~UsesHybrid(Params)
  /\ list' = [q \in Queries |->
       RefinedList(q, [i \in DOMAIN ToRefine(q) |-> Pq2Distance(batch, q, ToRefine(q)[i])])]

RefineHybrid ==
  /\ Refined /\ UsesHybrid(Params)
  /\ list' = [q \in Queries |->
       RefinedList(q, [i \in DOMAIN ToRefine(q) |->
                         HybridDistance(Hybrid, QueryVectors[q], ToRefine(q)[i].node)])]
-----------------------------------------------------------------------------
StartTiles ==
  /\ pc = "rerank" /\ Params.mode \in {"tiled", "page"}
  /\ rankTile' = IF Params.mode = "page" THEN 1 ELSE Params.tile
  /\ boundFilter' = Params.filter /\ topN' = Params.top_n
  /\ rankBegin' = 0 /\ pending' = {} /\ tile' = <<>>
  /\ \E garbage \in Uninitialised :
       final' = FirstFinal(Params.filter, Params.top_n, garbage)
  /\ threshold' = [q \in Queries |-> Infinity]
  /\ pc' = "next tile"
  /\ UNCHANGED <<list, answer, batchVars>>

Answered(answers) ==
  /\ answer' = answers
  /\ pc' = "done"
  /\ UNCHANGED <<request, tiles, batchVars>>

(* All ranks at once: where there is no candidate, the first place of the  *)
(* first page is read, and the distance to what is there is masked.        *)
Prepared(candidate) ==
  IF HasNode(candidate) THEN Resolve(candidate.node) ELSE [page |-> 0, slot |-> 0]

Masked(candidate, distance) ==
  [distance |-> IF HasNode(candidate) THEN distance ELSE Infinity, node |-> candidate.node]

ScoredPlace(q, candidate) ==
  LET address == Prepared(candidate)
  IN  Masked(candidate,
             KernelDistance(QueryVectors[q], WrittenPages[address.page], address.slot))

RerankLinear ==
  /\ pc = "rerank" /\ Params.mode = "linear"
  /\ Answered([q \in Queries |->
       ValidEntries(SortedSegment([rank \in 1 .. Params.top_n |->
         ScoredPlace(q, list[q][rank])], Params.top_n))])

(* RunBatchImpl: the valid candidates of all queries in one array, each    *)
(* page read once, and a segment of the array sorted for each query.       *)
FlatOf(q) == SelectSeq(Prefix(list[q], Params.top_n), HasNode)

OfQuery(q) == [i \in DOMAIN FlatOf(q) |-> [query |-> q, node |-> FlatOf(q)[i].node]]

FlatCandidates == FlattenSeq([q \in Queries |-> OfQuery(q)])

UniquePages ==
  FoldLeft(LAMBDA pages, candidate :
             LET page == Resolve(candidate.node).page
             IN  IF Contains(pages, page) THEN pages ELSE Append(pages, page),
           <<>>, FlatCandidates)

QueryOffset(q) == Cardinality({i \in DOMAIN FlatCandidates : FlatCandidates[i].query < q})

ComputeExactDistances(flat, pages, read) ==
  LET index(page) == CHOOSE i \in DOMAIN pages : pages[i] = page
  IN  [i \in DOMAIN flat |->
         LET address == Resolve(flat[i].node)
         IN  [distance |-> KernelDistance(QueryVectors[flat[i].query],
                                          read[index(address.page)], address.slot),
              node |-> flat[i].node]]

RerankOnHost ==
  /\ pc = "rerank" /\ Params.mode = "host"
  /\ LET flat  == FlatCandidates
         pages == UniquePages
         distances == ComputeExactDistances(flat, pages, [i \in DOMAIN pages |-> WrittenPages[pages[i]]])
         segment(q) == SubSeq(distances, QueryOffset(q) + 1,
                              QueryOffset(q) + Len(FlatOf(q)))
         longest == CHOOSE n \in {Len(FlatOf(q)) : q \in Queries} :
                      \A q \in Queries : Len(FlatOf(q)) <= n
     IN  Answered([q \in Queries |->
           IF flat = <<>> THEN <<>>
           ELSE ValidEntries(SortedSegment(segment(q), longest))])

(* With a stop rule the candidates from some rank on may be left out.      *)
Depths(r) == IF Persistent(r) /\ r.stop THEN 1 .. r.top_n ELSE {r.top_n}

RerankPersistent ==
  /\ pc = "rerank" /\ Persistent(Params)
  /\ \E depth \in [Queries -> Depths(Params)] :
       Answered([q \in Queries |-> NearestOf(Exact[q], Prefix(NodesOf(list[q]), depth[q]))])

CollectResult ==
  /\ pc = "done"
  /\ results' = Append(results, answer)
  /\ run' = IF run = Len(batch.runs) THEN run ELSE run + 1
  /\ pc' = IF run = Len(batch.runs) THEN "returned" ELSE "check"
  /\ UNCHANGED <<request, tiles, answer, batch>>

BatchInit ==
  /\ batch \in Batches /\ run = 1 /\ results = <<>>
  /\ rankTile = 0 /\ boundFilter = FALSE /\ topN = 1
  /\ list = [q \in Queries |-> <<>>]
  /\ rankBegin = 0 /\ pc = "check" /\ pending = {} /\ tile = <<>>
  /\ final = FirstFinal(TRUE, 1, Unfilled)
  /\ threshold = [q \in Queries |-> Infinity]
  /\ answer = [q \in Queries |-> <<>>]

Ended == pc \in {"returned", "thrown"}

BatchNext ==
  \/ Check \/ RefinePq2 \/ RefineHybrid
  \/ StartTiles \/ (TileStep /\ UNCHANGED batchVars)
  \/ RerankLinear \/ RerankOnHost \/ RerankPersistent
  \/ CollectResult
  \/ Ended /\ UNCHANGED allVars

(* A caller waits for its batch, and the host runs it to its end: as every *)
(* other state has another next, this is weak fairness of BatchNext.       *)
BatchSpec ==
  /\ BatchInit /\ [][BatchNext]_allVars
  /\ []<>Ended \/ []<><<BatchNext>>_allVars
-----------------------------------------------------------------------------
(* What a run is meant to rerank: the first candidates by the distances of *)
(* the vectors that the finer codes are decoded to.                        *)
ReferenceDistance(b, r, q, n) ==
  IF UsesHybrid(r)
  THEN SquaredL2(QueryVectors[q], DecodedHybrid(Hybrid, n))
  ELSE IF "residual" \in b.loaded
  THEN SquaredL2(QueryVectors[q], Sum(Decoded(Base, n), Decoded(Residual, n)))
  ELSE SquaredL2(QueryVectors[q], Decoded(Fine, n))

MeantList(b, r, q) ==
  IF ~r.refine \/ r.mode = "host" THEN TopologyList(b, q)
  ELSE LET taken == Prefix(b.found[q], RefineTopL(r))
       IN  SortSeq([i \in DOMAIN taken |->
             [distance |-> ReferenceDistance(b, r, q, taken[i]), node |-> taken[i]]], EntryLess)

Answers == (1 .. MaxRuns) \X Queries

Throws(b) == \E i \in DOMAIN b.runs : Refused(b, b.runs[i])

Returns(i) == i \in DOMAIN batch.runs /\ ~Throws(batch)

(* Whatever the mode, the tiles, the codes, the sort and the page layout,  *)
(* a run answers what the plain rerank answers; and the batch returns the  *)
(* answers of all its runs, or throws.                                     *)
Baseline == INSTANCE ExactRerank WITH
  Queries        <- Answers,
  Exact          <- [a \in Answers |-> Exact[a[2]]],
  CandidateLists <- [Answers -> Seq(NodeOrNone)],
  candidates     <- [a \in Answers |->
                       IF Returns(a[1])
                       THEN Prefix(NodesOf(MeantList(batch, batch.runs[a[1]], a[2])),
                                   batch.runs[a[1]].top_n)
                       ELSE <<>>],
  depths         <- [a \in Answers |->
                       IF Returns(a[1]) THEN Depths(batch.runs[a[1]]) ELSE {0}],
  answered       <- IF Ended THEN Answers ELSE {},
  answer         <- [a \in Answers |->
                       IF pc = "returned" /\ a[1] \in DOMAIN results
                       THEN results[a[1]][a[2]] ELSE <<>>]

ImplementsRerank == Baseline!Spec
=============================================================================
