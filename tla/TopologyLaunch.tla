---------------------------- MODULE TopologyLaunch ----------------------------
(***************************************************************************)
(* The host side of a launch of the topology traversal: what               *)
(* RunTopologySearchKernelBatchDeviceImpl and its microbatched variant     *)
(* (src/src/search/topology_search_kernel.cu) make of the parameters of    *)
(* the search, the providers and the environment before the kernel runs.   *)
(* A launch is refused, or it has the options that TopologySearch runs     *)
(* with.                                                                   *)
(*                                                                         *)
(* p is the request: the fields of TopologySearchParams, what the          *)
(* resources have, and the limits of the device.  env is the environment,  *)
(* where a number that is not set is 0 and a model that is not set is      *)
(* NoModel.                                                                *)
(***************************************************************************)
EXTENDS Naturals, Sequences

NoModel == [stage_prefixes |-> <<>>, top_k |-> 0]

kMaxSearchWidth       == 32
kMaxLearnedStopStages == 32
kMaxLearnedStopTopK   == 32
kMaxTileChunks        == 48
kDefaultPageSizeBytes == 4096
kNumPqCentroids       == 256
kRawNodeIdMask        == 2147483647

LargerOf(a, b)   == IF a > b THEN a ELSE b
LesserOf(a, b)   == IF a < b THEN a ELSE b
WhenSet(v, else) == IF v # 0 THEN v ELSE else

(* Those below the largest number of the model.                            *)
PowersOfTwo == {2^i : i \in 0 .. 30}

NextPowerOfTwo(n) == CHOOSE c \in PowersOfTwo : c >= n /\ (c > 1 => c \div 2 < n)
-----------------------------------------------------------------------------
(* Sizes of the arrays in shared memory.                                   *)
CandidateLimit(p)    == LargerOf(p.top_l, WhenSet(p.candidate_queue_size, p.top_l))
CandidateCapacity(p) == NextPowerOfTwo(CandidateLimit(p))
FrontierSlots(p)     == p.search_width * p.degree
FrontierCapacity(p)  == NextPowerOfTwo(LargerOf(FrontierSlots(p), 1))

SharedBytes(p) ==
  (CandidateCapacity(p) + FrontierCapacity(p)) * p.candidate_bytes
    + 4 * FrontierSlots(p) + 4 * ((p.top_l + 31) \div 32) + p.vectype_bytes

(* The high-L kernel keeps the output positions of the frontier as well.   *)
HighLSharedBytes(p) == SharedBytes(p) + 4 * (FrontierCapacity(p) + 1)

(* Two halves of a tile of the distance tables, where the environment asks *)
(* for the tiled distances.                                                *)
TileBytes(p, env) ==
  IF env.tile_chunks \in 2 .. kMaxTileChunks
  THEN p.float4_bytes + 2 * env.tile_chunks * kNumPqCentroids * 4 ELSE 0
-----------------------------------------------------------------------------
(* Where the rows come from: the pinned topology, its cached part and the  *)
(* topology file, or the combined records when exact reuse is on.          *)
PartialCache(p) == p.topology_cached_node_count < p.num_nodes
ExactReuse(p)   == p.enable_exact_reuse /\ PartialCache(p)
TopologySsd(p)  == p.has_topology_ssd /\ PartialCache(p)

RecordLayoutRefused(p) ==
  \/ p.exact_reuse_query_dim \notin {96, 128, 512, 768}
  \/ p.combined_node_bytes < 4 * (p.exact_reuse_query_dim + p.degree + 1)
  \/ p.combined_nodes_per_page = 0
  \/ p.combined_node_bytes * p.combined_nodes_per_page > kDefaultPageSizeBytes

CacheCapacityRefused(p) ==
  /\ p.exact_reuse_cache_capacity # 0
  /\ p.exact_reuse_cache_capacity \notin PowersOfTwo

ExactReuseRefused(p) ==
  /\ ExactReuse(p)
  /\ \/ ~p.has_combined_ssd \/ ~p.has_device_queries
     \/ RecordLayoutRefused(p)
     \/ CacheCapacityRefused(p)

SourceRefused(p) == PartialCache(p) /\ ~p.has_topology_ssd /\ ~ExactReuse(p)

RowsRefused(p) ==
  TopologySsd(p) /\ (p.degree = 0 \/ kDefaultPageSizeBytes % (4 * p.degree) # 0)
-----------------------------------------------------------------------------
(* The kernel and its options.                                             *)
kDefaultHighLMinimum == 2048
kDefaultMinPrefix    == 32

LaunchesHighL(p, env) ==
  /\ env.enable_high_l /\ ~env.force_low_l
  /\ p.top_l >= WhenSet(env.high_l_min_top_l, kDefaultHighLMinimum)

StageReads(p, env) == env.stage_topology_read \/ TopologySsd(p) \/ ExactReuse(p)

(* The prefix whose expansion ends a search: all of the list, a fraction   *)
(* of it that is not too small, or what the environment says.              *)
DividedPrefix(p, env) ==
  IF env.divisor > 1
  THEN LesserOf(LargerOf(WhenSet(env.min_prefix, kDefaultMinPrefix), p.top_l \div env.divisor),
                p.top_l)
  ELSE p.top_l

CandidateStopPrefix(p, env) ==
  IF env.prefix # 0 THEN LesserOf(env.prefix, p.top_l) ELSE DividedPrefix(p, env)

(* The stages of the learned stop that the kernel gets: the first 32 of    *)
(* those inside the list, in the order of the file, and none when the      *)
(* top_k of the model does not fit.                                        *)
LearnedTopKOf(p, env) == WhenSet(env.model.top_k, p.top_k)

InsideList(p, env) ==
  LET inside(prefix) == prefix # 0 /\ prefix < p.top_l
  IN  SelectSeq(env.model.stage_prefixes, inside)

LearnedStages(p, env) ==
  IF LearnedTopKOf(p, env) \notin 1 .. kMaxLearnedStopTopK THEN <<>>
  ELSE SubSeq(InsideList(p, env), 1,
              LesserOf(Len(InsideList(p, env)), kMaxLearnedStopStages))
-----------------------------------------------------------------------------
(* What TopologySearch::Run and RunBatch, a launch, and the microbatched   *)
(* execution, which is only for rows that are read, do not accept.         *)
ParamsRefused(p) ==
  \/ p.top_k = 0 \/ p.top_l = 0 \/ p.search_width = 0
  \/ p.candidate_queue_size # 0 /\ p.candidate_queue_size < p.top_l

LaunchRefused(p, env) ==
  \/ p.search_width > kMaxSearchWidth \/ p.num_nodes >= kRawNodeIdMask
  \/ ExactReuseRefused(p) \/ SourceRefused(p) \/ RowsRefused(p)
  \/ p.enable_expanded_trace /\ (p.max_expansions = 0 \/ LaunchesHighL(p, env))
  \/ p.shared_memory_limit <
       TileBytes(p, env) + IF LaunchesHighL(p, env) THEN HighLSharedBytes(p) ELSE SharedBytes(p)

MicrobatchRefused(p) ==
  \/ p.search_width \notin 1 .. kMaxSearchWidth \/ p.top_l = 0
  \/ p.num_nodes >= kRawNodeIdMask \/ ~PartialCache(p)
  \/ ExactReuseRefused(p) \/ SourceRefused(p)
  \/ ~ExactReuse(p) /\ RowsRefused(p)
  \/ SharedBytes(p) > p.shared_memory_limit

Refused(p, env) ==
  \/ env.caller = "search" /\ ParamsRefused(p)
  \/ env.caller # "microbatched" /\ LaunchRefused(p, env)
  \/ env.caller = "microbatched" /\ MicrobatchRefused(p)

(* The options, as TopologySearch names them.                              *)
Options(p, env) ==
  [prefix        |-> CandidateStopPrefix(p, env),
   use_expanded  |-> env.use_expanded,
   stages        |-> LearnedStages(p, env),
   shadow        |-> env.shadow,
   stage_reads   |-> env.caller = "microbatched" \/ StageReads(p, env),
   test_then_add |-> env.caller = "microbatched",
   high_l        |-> env.caller # "microbatched" /\ LaunchesHighL(p, env)]
=============================================================================
