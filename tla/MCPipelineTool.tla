---------------------------- MODULE MCPipelineTool ---------------------------
EXTENDS PipelineTool

(* Three nodes: two vectors, three topology nodes or one combined node in a
   page.  Two slots make every run evict, two ranges are what the provider
   with the most files needs. *)
MCFiles == {"vectors", "topology", "combined"}
MCPerPage == [vectors |-> 2, topology |-> 3, combined |-> 1]
MCFilePages == [vectors |-> 2, topology |-> 1, combined |-> 3]
MCDeviceStart == [vectors |-> 1, topology |-> 3, combined |-> 4]

(* An index of the graph, a residual index that fits it, one with other
   chunks and one of other points. *)
MCIndexes == {"graph", "residual", "chunks", "points"}
MCPoints == [i \in MCIndexes |-> IF i = "points" THEN 2 ELSE 1]
MCDims == [i \in MCIndexes |-> 1]
MCChunks == [i \in MCIndexes |-> IF i = "chunks" THEN 2 ELSE 1]

Line == [trace |-> FALSE, hpq |-> FALSE, pq |-> "graph", pq2 |-> "residual",
         bounds |-> 1, reuse |-> FALSE, ab |-> FALSE, sweep |-> <<3>>,
         offsets |-> {"topology", "combined"},
         plan |-> [num_queries |-> 3, microbatch |-> 2, merge_small_tail_batch |-> FALSE,
                   ring_depth |-> 1]]

MCCommandLines == {
  [Line EXCEPT !.sweep = <<1, 3>>],
  [Line EXCEPT !.sweep = <<0, 1>>, !.pq2 = "chunks"],
  [Line EXCEPT !.reuse = TRUE, !.sweep = <<0, 3, 2>>],
  [Line EXCEPT !.reuse = TRUE, !.ab = TRUE, !.sweep = <<1>>],
  [Line EXCEPT !.reuse = TRUE, !.ab = TRUE, !.sweep = <<3>>, !.pq2 = None],
  [Line EXCEPT !.hpq = TRUE, !.bounds = None],
  [Line EXCEPT !.reuse = TRUE, !.sweep = <<2>>, !.offsets = {"combined"}],
  [Line EXCEPT !.reuse = TRUE, !.ab = TRUE, !.sweep = <<2>>, !.offsets = {"combined"}],
  [Line EXCEPT !.trace = TRUE],
  [Line EXCEPT !.trace = TRUE, !.sweep = <<2>>]}

(* Node 1 has a neighbor that the subset lacks, node 2 one more than a row has. *)
MCAdjacency == [n \in 0 .. 2 |-> <<<<1, 2>>, <<5, 0>>, <<1, 0, 2>>>>[n + 1]]

(* Four clusters: three lists, one longer than what is kept of it, and one that
   is empty.  A query may have no cluster. *)
MCPostings == <<<<<<2, 0, 1>>, <<>>>>, <<<<1>>, <<0, 2>>>>>>
MCAssignments == {<<0, 1, 3>>, <<3, -1, 2>>}

(* The device has a page before the files and two behind them; the write
   tools' cache is shorter than the combined nodes and longer than the topology. *)
MCUpwards == {<<"vectors", "topology", "combined">>}
MCAnyOrder == MCUpwards \cup {<<"vectors", "combined", "topology">>}

(* Memory that was not used before, and memory with old data in it. *)
MCFresh == {<<0, 0>>}
MCOldData == {<<0, 0>>, <<1, 1>>}
=============================================================================
