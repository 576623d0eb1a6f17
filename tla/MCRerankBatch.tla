---------------------------- MODULE MCRerankBatch ----------------------------
(* Batches of two queries.  A traversal found five, four, two or no nodes   *)
(* for a query, nearest first by the base codes.                            *)
EXTENDS RerankBatch, MCRankTiledRerank

NearestFirst(q, nodes) ==
  NodesOf(SortSeq([i \in 1 .. Cardinality(nodes) |->
            BaseEntry(q, CHOOSE n \in nodes : Cardinality({m \in nodes : m < n}) = i - 1)],
            EntryLess))

FoundFrom(A, B) ==
  {[q \in Queries |-> NearestFirst(q, IF q = 1 THEN a ELSE b)] : a \in A, b \in B}

Full  == {0 .. 4, 1 .. 5}
Short == {{0, 2, 4, 5}, {1, 5}, {}}

Defaults == [mode |-> "host", top_n |-> 4, tile |-> 2, filter |-> FALSE, refine |-> FALSE,
             refine_top_l |-> 4, learned |-> FALSE, hybrid |-> FALSE, stop |-> FALSE]

Batch(found, loaded, runs) == {[found |-> f, loaded |-> loaded, runs |-> runs] : f \in found}

Mixed == FoundFrom(Full \cup Short, Full \cup Short)
Long  == FoundFrom(Full, Full)

Mode(mode)     == [Defaults EXCEPT !.mode = mode]
Refining(mode) == [Mode(mode) EXCEPT !.refine = TRUE]
Filtered(mode) == [Refining(mode) EXCEPT !.filter = TRUE]

(* All ranks, or one more than the device sorts.                            *)
Hosts == UNION {Batch(Mixed, {}, <<[Mode("host") EXCEPT !.top_n = n]>>) : n \in {3, 5}}

Sweeps ==
  LET bounded == {"residual", "bounds"}
      filters == [Filtered("tiled") EXCEPT !.refine_top_l = 4]
  IN  Batch(Mixed, bounded, <<filters, Mode("linear")>>)
      \cup Batch(Mixed, bounded, <<[Filtered("page") EXCEPT !.top_n = 3, !.refine_top_l = 4]>>)
      \cup Batch(Mixed, {"fine"}, <<Refining("linear"),
             [Refining("persistent") EXCEPT !.stop = TRUE, !.top_n = 2, !.refine_top_l = 3]>>)
      \cup Batch(Mixed, {"hybrid"}, <<[Refining("staged") EXCEPT !.hybrid = TRUE]>>)
      \cup Batch(Long, {}, <<[Mode("tiled") EXCEPT !.tile = 3, !.top_n = 5], Mode("page")>>)
      \cup Batch(Long, {}, <<[Mode("tiled") EXCEPT !.tile = 0, !.top_n = 3],
                             [Mode("linear") EXCEPT !.top_n = 5]>>)
      \cup Batch(Mixed, {"residual"}, <<Mode("linear"), Filtered("tiled")>>)
      \cup Batch(Mixed, {"residual"}, <<Refining("persistent"), [Mode("persistent") EXCEPT !.tile = 0]>>)

(* Runs that throw, after one that does not.                                *)
Refusals ==
  LET found == {CHOOSE f \in Long : TRUE}
      after(r) == <<Mode("linear"), r>>
  IN  UNION {Batch(found, {"fine"}, after(r)) : r \in {
        [Refining("linear") EXCEPT !.refine_top_l = 0],
        [Refining("staged") EXCEPT !.hybrid = TRUE],
        [Mode("tiled") EXCEPT !.learned = TRUE],
        [Mode("persistent") EXCEPT !.top_n = 1]}}

MCBatches == Hosts \cup Sweeps \cup Refusals
=============================================================================
