-------------------------- MODULE MCOverlapPipeline --------------------------
EXTENDS OverlapPipeline

(* Up to six queries in batches of up to three: a single short batch, a tail
   of its own, a merged tail, and more batches than places in the ring. *)
MCExperiments ==
  [num_queries: 0..6, microbatch: 1..3, merge_small_tail_batch: BOOLEAN,
   ring_depth: 0..2]
=============================================================================
