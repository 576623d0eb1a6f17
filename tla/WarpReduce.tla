----------------------------- MODULE WarpReduce -----------------------------
(***************************************************************************)
(* How the lanes of a warp, or of a group of eight, add up terms: each     *)
(* lane those of its indexes, then halves of the lanes pairwise,           *)
(* __shfl_down_sync giving a lane its own value where there is no lane to  *)
(* read from.                                                              *)
(***************************************************************************)
EXTENDS Integers, SequencesExt

CONSTANT WarpLanes  \* kWarpSize

ASSUME WarpAssumption == \E k \in 0 .. WarpLanes : WarpLanes = 2^k

Lanes == 0 .. WarpLanes - 1

LaneSum(terms, lane) ==
  MapThenSumSet(LAMBDA i : terms[i], {i \in DOMAIN terms : i % WarpLanes = lane})

ShuffleDown(sums, offset) ==
  [lane \in Lanes |->
     sums[lane] + (IF lane + offset \in Lanes THEN sums[lane + offset] ELSE sums[lane])]

Offsets == Reverse(SetToSortSeq({offset \in Lanes \ {0} :
                      \E k \in 0 .. offset : offset = 2^k}, LAMBDA a, b : a < b))

WarpSum(terms) ==
  FoldLeft(ShuffleDown, [lane \in Lanes |-> LaneSum(terms, lane)], Offsets)[0]
=============================================================================
