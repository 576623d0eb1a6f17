------------------------------ MODULE BatchPlan ------------------------------
(***************************************************************************)
(* The options of an experiment of topoanns_overlap_pipeline_eval and the  *)
(* plan of batches both of its modes work through.                         *)
(***************************************************************************)
EXTENDS Integers, Sequences

(* num_queries is the rows of the ground truth; parsing refuses no ring
   depth, and BuildBatchPlan throws for a microbatch of zero before a thread
   exists. *)
ExperimentOptions ==
  [num_queries: Nat, microbatch: Nat \ {0}, merge_small_tail_batch: BOOLEAN,
   ring_depth: Nat]

(* Mutant: a tail is merged even without a full batch before it. *)
TailMergedAlways(e) == e.merge_small_tail_batch

(* A short last batch is merged with the full one before it, if any. *)
TailMerged(e) ==
  /\ e.merge_small_tail_batch
  /\ e.num_queries % e.microbatch # 0
  /\ e.num_queries >= e.microbatch

Batches(e) ==
  IF TailMerged(e) THEN e.num_queries \div e.microbatch
                   ELSE (e.num_queries + e.microbatch - 1) \div e.microbatch

Slice(e, b) ==
  LET offset == (b - 1) * e.microbatch
  IN  [query_offset |-> offset,
       num_queries |-> IF b = Batches(e) THEN e.num_queries - offset
                                         ELSE e.microbatch]

BuildBatchPlan(e) == [b \in 1..Batches(e) |-> Slice(e, b)]

(* The queries of a slice, counted from zero as the code does. *)
QueriesOf(slice) ==
  slice.query_offset..(slice.query_offset + slice.num_queries - 1)
=============================================================================
