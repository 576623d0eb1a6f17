-------------------------- MODULE FrontierDistances --------------------------
(***************************************************************************)
(* ComputeFrontierDistances (src/src/search/topology_search_kernel.cu):    *)
(* the warps of a block give each node of the frontier its distance by the *)
(* base codes, round after round of the traversal.  A node takes a warp, a *)
(* group of eight lanes or one thread; a thread may have the query's table *)
(* staged through two buffers of the block, tile by tile, the next tile    *)
(* being copied while the one before it is read.  A copy is asynchronous   *)
(* (cp.async): it lands some time before its warp has waited for it.       *)
(*                                                                         *)
(* A step is what a warp does between two points where others can tell;    *)
(* the lanes of a warp go together.                                        *)
(***************************************************************************)
EXTENDS Sequences, FiniteSets, WarpReduce
LOCAL INSTANCE FiniteSetsExt

CONSTANTS
  WarpCount,   \* blockDim / kWarpSize
  GroupLanes,  \* the 8 of the grouped mode
  NumChunks,
  Table,       \* per node and chunk: what query_tables has for the node's code
  NoNode, Infinity,
  Unwritten,   \* what shared memory holds before it is written, and any value
               \* that is undefined
  Launches,    \* how a search computes distances, and its frontiers
  Rounds

(* A launch has                                                            *)
(*   mode       TOPOANNS_FRONTIER_PQ_MODE: "current", "bang", "gustann"    *)
(*   warps      frontier_pq_warps                                          *)
(*   tile       gustann_tile_chunks, or 0                                  *)
(*   frontiers  the frontiers it may meet in a round                       *)
Warps  == 0 .. WarpCount - 1
Chunks == 0 .. NumChunks - 1
BlockDim == WarpCount * WarpLanes
LanesOf(w) == {w * WarpLanes + lane : lane \in Lanes}

ASSUME FrontierAssumption ==
  /\ WarpCount \in Nat \ {0} /\ NumChunks \in Nat \ {0} /\ Rounds \in Nat
  /\ \A n \in DOMAIN Table : n # NoNode /\ Table[n] \in [Chunks -> Nat]
  /\ \A launch \in Launches :
       /\ launch.mode \in {"current", "bang", "gustann"}
       /\ launch.warps \in 1 .. WarpCount
       /\ launch.tile = 0 \/ launch.tile >= 2
       /\ \A f \in launch.frontiers : f \in Seq(DOMAIN Table \cup {NoNode})

VARIABLES
  launch,
  frontier,   \* node ids of the frontier's entries
  distance,   \* and their distances
  pc,         \* per warp: where it is
  base,       \* per warp: frontier_base
  chunk,      \* per warp: chunk_base
  stage,      \* per warp: current_stage
  partial,    \* per warp: distance of each of its lanes
  staged,     \* staged_query_tables: per buffer, chunk of the tile and copying
              \* warp, the chunk whose entries are there
  pending,    \* per warp: its copies that have not landed
  round

warpvars == <<pc, base, chunk, stage, partial, pending>>
vars == <<launch, frontier, distance, warpvars, staged, round>>

Slots(f) == 0 .. Len(f) - 1
NodeAt(i) == frontier[i + 1]

Tiled == launch.mode = "gustann" /\ launch.tile # 0

ValueOf(n, c) == IF c = Unwritten THEN Unwritten ELSE Table[n][c]
-----------------------------------------------------------------------------
(* Without staging: PqDistanceForVertex, a warp for a node, chunk after    *)
(* chunk of lanes; ...Bang, a group of eight for a node; ...Gustann, a     *)
(* thread for a node.                                                      *)
Group == INSTANCE WarpReduce WITH WarpLanes <- GroupLanes

ChunkGroups == 0 .. (NumChunks - 1) \div WarpLanes

PqDistanceForVertex(n) ==
  MapThenSumSet(LAMBDA g :
    WarpSum([lane \in Lanes |->
      IF g * WarpLanes + lane \in Chunks THEN Table[n][g * WarpLanes + lane] ELSE 0]),
    ChunkGroups)

PqDistanceForVertexBang(n) == Group!WarpSum(Table[n])

PqDistanceForVertexGustann(n) == MapThenSumSet(LAMBDA c : Table[n][c], Chunks)

DistanceBy(mode, n) ==
  CASE mode = "current" -> PqDistanceForVertex(n)
    [] mode = "bang"    -> PqDistanceForVertexBang(n)
    [] mode = "gustann" -> PqDistanceForVertexGustann(n)

GroupCount == BlockDim \div GroupLanes

(* The entries a warp computes, alone or with its groups or threads.       *)
Entries(w) ==
  CASE launch.mode = "current" ->
         {i \in Slots(frontier) : w < launch.warps /\ i % launch.warps = w}
    [] launch.mode = "bang" ->
         {i \in Slots(frontier) :
            ((i % GroupCount) * GroupLanes) \div WarpLanes = w}
    [] launch.mode = "gustann" ->
         {i \in Slots(frontier) : i % BlockDim \in LanesOf(w)}

(* Groups of eight shuffle under the mask of the whole warp.  Where a group *)
(* of the warp has no node in this pass, it does not take part, and what    *)
(* the others get is undefined.                                             *)
Scrambled(w) ==
  {i \in Entries(w) : launch.mode = "bang" /\
     LET together == {j \in Entries(w) : j \div GroupCount = i \div GroupCount /\ NodeAt(j) # NoNode}
     IN  Cardinality(together) < WarpLanes \div GroupLanes}

ComputeUnstaged(w) ==
  /\ pc[w] = "enter" /\ ~Tiled
  /\ \E scrambled \in SUBSET Scrambled(w) :
       distance' = [i \in Slots(frontier) |->
         IF i \notin Entries(w) THEN distance[i]
         ELSE IF NodeAt(i) = NoNode THEN Infinity
         ELSE IF i \in scrambled THEN Unwritten
         ELSE DistanceBy(launch.mode, NodeAt(i))]
  /\ pc' = [pc EXCEPT ![w] = "done"]
  /\ UNCHANGED <<launch, frontier, base, chunk, stage, partial, pending, staged, round>>
-----------------------------------------------------------------------------
(* With staging.                                                           *)
TileEnd(c) == IF c + launch.tile <= NumChunks THEN c + launch.tile ELSE NumChunks

(* The copies a warp issues to fetch its part of the tile that begins at   *)
(* chunk c.                                                                *)
PrefetchQueryTableTileAsync(buffer, c) ==
  {[buffer |-> buffer, place |-> d - c, chunk |-> d] : d \in c .. TileEnd(c) - 1}

SameStage(s) == s

OtherStage(s) == 1 - s

BeginPass(w) ==
  /\ pc[w] = "enter" /\ Tiled
  /\ IF base[w] < Len(frontier)
     THEN /\ pending' = [pending EXCEPT ![w] = PrefetchQueryTableTileAsync(0, 0)]
          /\ pc' = [pc EXCEPT ![w] = "wait first"]
     ELSE /\ pc' = [pc EXCEPT ![w] = "done"]
          /\ UNCHANGED pending
  /\ chunk' = [chunk EXCEPT ![w] = 0]
  /\ stage' = [stage EXCEPT ![w] = 0]
  /\ partial' = [partial EXCEPT ![w] = [lane \in Lanes |-> 0]]
  /\ UNCHANGED <<launch, frontier, distance, base, staged, round>>

Land(w) ==
  \E copy \in pending[w] :
    /\ staged' = [staged EXCEPT ![copy.buffer][copy.place][w] = copy.chunk]
    /\ pending' = [pending EXCEPT ![w] = @ \ {copy}]
    /\ UNCHANGED <<launch, frontier, distance, pc, base, chunk, stage, partial, round>>

(* WaitForPrefetchedQueryTableTile: the warp's own copies, and a barrier.  *)
HasLanded(w) == pending[w] = {}

Wait(w) ==
  /\ pc[w] \in {"wait first", "wait next"} /\ HasLanded(w)
  /\ pc' = [pc EXCEPT ![w] = IF @ = "wait first" THEN "at first" ELSE "at next"]
  /\ UNCHANGED <<launch, frontier, distance, base, chunk, stage, partial, pending, staged, round>>

Barrier ==
  /\ \A w \in Warps : pc[w] \in {"at first", "at next"}
  /\ stage' = [w \in Warps |-> IF pc[w] = "at next" THEN OtherStage(stage[w]) ELSE stage[w]]
  /\ chunk' = [w \in Warps |-> IF pc[w] = "at next" THEN TileEnd(chunk[w]) ELSE chunk[w]]
  /\ pc' = [w \in Warps |-> IF TileEnd(chunk'[w]) < NumChunks THEN "prefetch" ELSE "compute"]
  /\ UNCHANGED <<launch, frontier, distance, base, partial, pending, staged, round>>

PrefetchNext(w) ==
  /\ pc[w] = "prefetch"
  /\ pending' = [pending EXCEPT ![w] =
       PrefetchQueryTableTileAsync(OtherStage(stage[w]), TileEnd(chunk[w]))]
  /\ pc' = [pc EXCEPT ![w] = "compute"]
  /\ UNCHANGED <<launch, frontier, distance, base, chunk, stage, partial, staged, round>>

EntryOf(w, lane) == base[w] + w * WarpLanes + lane

(* PqDistanceForVertexGustannTiled for a lane, whose code of a chunk may   *)
(* be in the part of the tile that any warp has copied.                    *)
TileTerms(w, lane, copiers) ==
  LET i == EntryOf(w, lane)
  IN  IF i \notin Slots(frontier) \/ NodeAt(i) = NoNode THEN 0
      ELSE MapThenSumSet(LAMBDA place :
             ValueOf(NodeAt(i), staged[stage[w]][place][copiers[place]]), DOMAIN copiers)

ComputeTile(w) ==
  /\ pc[w] = "compute"
  /\ \E copiers \in [0 .. TileEnd(chunk[w]) - chunk[w] - 1 -> Warps] :
       partial' = [partial EXCEPT ![w] =
         [lane \in Lanes |-> @[lane] + TileTerms(w, lane, copiers)]]
  /\ pc' = [pc EXCEPT ![w] = IF TileEnd(chunk[w]) < NumChunks THEN "wait next" ELSE "store"]
  /\ UNCHANGED <<launch, frontier, distance, base, chunk, stage, pending, staged, round>>

StoreDistances(w) ==
  /\ pc[w] = "store"
  /\ distance' = [i \in Slots(frontier) |->
       IF \A lane \in Lanes : i # EntryOf(w, lane) THEN distance[i]
       ELSE IF NodeAt(i) = NoNode THEN Infinity
       ELSE partial[w][i - EntryOf(w, 0)]]
  /\ base' = [base EXCEPT ![w] = @ + BlockDim]
  /\ pc' = [pc EXCEPT ![w] = "enter"]
  /\ UNCHANGED <<launch, frontier, chunk, stage, partial, pending, staged, round>>
-----------------------------------------------------------------------------
(* The kernel meets at a barrier after every call, merges the frontier and *)
(* fills it anew.                                                          *)
AllDone == \A w \in Warps : pc[w] = "done"

FillFrontier(f) ==
  /\ frontier' = f
  /\ distance' = [i \in Slots(f) |-> Infinity]

NextRound ==
  /\ AllDone /\ round < Rounds
  /\ \E f \in launch.frontiers : FillFrontier(f)
  /\ pc' = [w \in Warps |-> "enter"]
  /\ base' = [w \in Warps |-> 0]
  /\ round' = round + 1
  /\ UNCHANGED <<launch, chunk, stage, partial, pending, staged>>

Init ==
  /\ launch \in Launches
  /\ frontier = <<>> /\ distance = [i \in {} |-> Infinity]
  /\ pc = [w \in Warps |-> "done"] /\ base = [w \in Warps |-> 0]
  /\ chunk = [w \in Warps |-> 0] /\ stage = [w \in Warps |-> 0]
  /\ partial = [w \in Warps |-> [lane \in Lanes |-> 0]]
  /\ staged = [buffer \in 0 .. 1 |->
                 [place \in 0 .. launch.tile - 1 |-> [w \in Warps |-> Unwritten]]]
  /\ pending = [w \in Warps |-> {}]
  /\ round = 0

Finished == AllDone /\ round = Rounds /\ UNCHANGED vars

WarpStep(w) ==
  \/ ComputeUnstaged(w) \/ BeginPass(w) \/ Land(w) \/ Wait(w)
  \/ PrefetchNext(w) \/ ComputeTile(w) \/ StoreDistances(w)

Next == (\E w \in Warps : WarpStep(w)) \/ Barrier \/ NextRound \/ Finished

Spec == Init /\ [][Next]_vars
-----------------------------------------------------------------------------
(* A pass ends without a barrier, and the next one copies the first tile   *)
(* into buffer 0 at once.  With an odd number of tiles that is where a     *)
(* slower warp still reads the last one; a table of one tile is only       *)
(* copied over itself.                                                     *)
TileCount == (NumChunks + launch.tile - 1) \div launch.tile

Overrun(i) ==
  /\ Tiled /\ TileCount % 2 = 1 /\ TileCount > 1
  /\ i \div BlockDim < (Len(frontier) - 1) \div BlockDim

(* When the block has met, each node of the frontier has the sum of its    *)
(* terms over all chunks, in whatever mode: no tile is left out or added   *)
(* twice, none is read before it has landed or after it was overwritten.   *)
(* But for two kinds of nodes: those of a bang group that shuffles without *)
(* another of its warp, and, with an odd number of tiles from three on,    *)
(* those of all passes but the last.                                       *)
RightDistances ==
  AllDone =>
    \A i \in Slots(frontier) :
      IF NodeAt(i) = NoNode THEN distance[i] = Infinity
      ELSE \/ \E w \in Warps : i \in Scrambled(w)
           \/ Overrun(i)
           \/ distance[i] = MapThenSumSet(LAMBDA c : Table[NodeAt(i)][c], Chunks)
=============================================================================
