------------------------- MODULE MCFrontierDistances -------------------------
(* Small instances of FrontierDistances: blocks of two warps of four lanes, *)
(* eight threads in groups of two.  Node n has n * 10^c for chunk c, so     *)
(* that a sum tells which chunks are in it and how often.                   *)
EXTENDS FrontierDistances

MCTable == [n \in {1, 3} |-> [c \in Chunks |-> n * 10^c]]

Launch(mode, warps, tile, frontiers) ==
  [mode |-> mode, warps |-> warps, tile |-> tile, frontiers |-> frontiers]

OnePass   == {<<1, NoNode, 3>>, <<3, 1, 1, 3, 1, NoNode, 1, 3>>}
TwoPasses == {<<1, NoNode, 3, 1, 3, 1, 1, NoNode, 3, 1>>, <<3>>}
FullWarps == {<<1, 3, 1, 1>>, <<3, 1, 1, 3, 1, 3>>}

Frontiers == OnePass \cup TwoPasses

(* Tables of one, two and three tiles; groups with a node beside groups     *)
(* without.                                                                 *)
MCLaunches ==
  {Launch("current", w, 0, Frontiers) : w \in 1 .. WarpCount}
  \cup {Launch("gustann", 1, tile, Frontiers) : tile \in {0, 2, 3, NumChunks}}
  \cup {Launch("bang", 1, 0, FullWarps \cup OnePass)}
=============================================================================
