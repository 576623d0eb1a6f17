--------------------------- MODULE MCTopologySearch ---------------------------
(***************************************************************************)
(* Small instances of TopologySearch.  Nodes are numbered by increasing    *)
(* distance where MCDist is strict; MCTiedDist has equal distances, which  *)
(* the id breaks.                                                          *)
(***************************************************************************)
EXTENDS TopologySearch, TopologyLaunch

MCNodes     == 1 .. 5
MCFewNodes  == 1 .. 4
MCNoNode    == 0
MCDist      == [n \in MCNodes |-> n]
MCTiedDist  == [n \in MCFewNodes |-> n \div 2]

(* Two bits for each node, as if of two hash functions: a node is hidden   *)
(* by the two around it.                                                   *)
MCSharedBits   == [n \in Nodes |-> {n, n + 1}]

(* Rows of two different neighbours, other than the node itself.           *)
PairsWithout(n) ==
  {<<i, j>> : i \in Nodes \ {n}, j \in Nodes \ {n}}

OrderedRows(n) == {row \in PairsWithout(n) : row[1] < row[2]}

PaddedRows(n) ==
  OrderedRows(n) \cup {<<i, NoNode>> : i \in Nodes \ {n}} \cup {<<NoNode, NoNode>>}

(* The nearest node is only ever expanded last, so its row is fixed.       *)
MCDistinctRowGraphs ==
  {g \in [Nodes -> UNION {OrderedRows(n) : n \in Nodes}] :
     /\ g[1] = <<2, 3>>
     /\ \A n \in Nodes : g[n] \in OrderedRows(n)}
MCPaddedGraphs == {g \in [Nodes -> UNION {PaddedRows(n) : n \in Nodes}] :
                     \A n \in Nodes : g[n] \in PaddedRows(n)}

MCEntries      == {<<5>>, <<4, 5, 3>>}
MCFewEntries   == {<<4>>, <<>>, <<4, 0, 4, 3>>}

(* Requests.  The topology is pinned, or half of it is and the rest is     *)
(* read.                                                                   *)
Pinned ==
  [top_k |-> 1, top_l |-> TopL, candidate_queue_size |-> Capacity,
   search_width |-> Width, degree |-> Degree, max_expansions |-> MaxExpansions,
   num_nodes |-> 4, topology_cached_node_count |-> 4,
   has_topology_ssd |-> FALSE, has_combined_ssd |-> FALSE, has_device_queries |-> FALSE,
   enable_expanded_trace |-> FALSE, enable_exact_reuse |-> FALSE,
   exact_reuse_query_dim |-> 128, exact_reuse_cache_capacity |-> 0,
   combined_node_bytes |-> 1024, combined_nodes_per_page |-> 4,
   candidate_bytes |-> 8, vectype_bytes |-> 32, float4_bytes |-> 16,
   shared_memory_limit |-> 512]

Read   == [Pinned EXCEPT !.topology_cached_node_count = 2, !.has_topology_ssd = TRUE]
Reused == [Read EXCEPT !.has_topology_ssd = FALSE, !.has_combined_ssd = TRUE,
                       !.has_device_queries = TRUE, !.enable_exact_reuse = TRUE]

Unset ==
  [caller |-> "search", stage_topology_read |-> TRUE, enable_high_l |-> FALSE,
   force_low_l |-> FALSE, high_l_min_top_l |-> 0, divisor |-> 0, min_prefix |-> 0,
   prefix |-> 0, use_expanded |-> FALSE, model |-> NoModel, shadow |-> FALSE,
   tile_chunks |-> 0]

HighL   == [Unset EXCEPT !.enable_high_l = TRUE, !.high_l_min_top_l = 2]
Micro   == [Unset EXCEPT !.caller = "microbatched"]
Learned == [Micro EXCEPT !.model = [stage_prefixes |-> <<0, 1, TopL - 1, TopL>>, top_k |-> 1]]

Accepted(requests) ==
  {Options(r[1], r[2]) : r \in {r \in requests : ~Refused(r[1], r[2])}}

(* Requests that are refused: what one of them would have run with must    *)
(* not run.                                                                *)
Refusals ==
  {<<[Read EXCEPT !.has_topology_ssd = FALSE], Unset>>,
   <<[Reused EXCEPT !.combined_nodes_per_page = 5], Micro>>,
   <<[Pinned EXCEPT !.enable_expanded_trace = TRUE], [HighL EXCEPT !.prefix = 2]>>,
   <<Pinned, Micro>>,
   <<Pinned, [Unset EXCEPT !.tile_chunks = 2]>>}

(* The traversal kernel with staged reads; the high-L kernel without them  *)
(* and with a prefix stop; and the microbatched kernels with the prefix    *)
(* stop that counts expansions, and with the learned stop, alone or in     *)
(* shadow mode over a prefix stop.                                         *)
MCLaunches ==
  Accepted(Refusals \cup
    {<<Pinned, Unset>>,
     <<Pinned, [HighL EXCEPT !.stage_topology_read = FALSE, !.divisor = 2, !.min_prefix = 1]>>,
     <<Read, [Micro EXCEPT !.divisor = 2, !.min_prefix = 2, !.use_expanded = TRUE]>>,
     <<Read, Learned>>,
     <<Reused, [Learned EXCEPT !.prefix = 1, !.shadow = TRUE]>>})

(* The sizes of the instance are the sizes of such a launch.               *)
ASSUME RequestsAssumption ==
  /\ CandidateCapacity(Pinned) = Capacity /\ FrontierSlots(Pinned) = Slots
  /\ \A r \in Refusals : Refused(r[1], r[2])

MCBlankRow     == {<<NoNode, NoNode>>}
=============================================================================
