----------------------------- MODULE EntryPoints -----------------------------
(***************************************************************************)
(* Where the searches of a batch start.  The coarse quantiser names a      *)
(* cluster for each query, whose posting list has the entry ids: on the    *)
(* host ComputeFloat32EntryPoints (src/search/rvq_entry_provider.cpp)      *)
(* makes a list per query and the launch joins the lists; on the device    *)
(* gather_rvq_entries_kernel (src/search/rvq_device_entries.cu) makes rows *)
(* of one length, and the pipeline tool cuts the rows of a batch out of    *)
(* those of all queries.  The quantiser's search is numerical code; which  *)
(* cluster it names is a choice.                                           *)
(***************************************************************************)
EXTENDS Integers, Sequences, FiniteSets

CONSTANTS
  Postings,      \* the index of the model: per coarse and fine centroid, a list
  FineCentroids, \* fine_centroids
  EntryCount,    \* rvq_entry_count
  PostingLimit,  \* kGpuClusterPostingLimit
  Fallback,      \* fallback_entry
  Padding        \* kInvalidNodeId in the rows

ASSUME EntryAssumption ==
  /\ FineCentroids \in Nat \ {0} /\ EntryCount \in Nat \ {0} /\ PostingLimit \in Nat \ {0}
  /\ Postings \in Seq(Seq(Seq(Nat))) /\ Len(Postings) > 0
  /\ \A coarse \in DOMAIN Postings : Len(Postings[coarse]) = FineCentroids
  /\ Fallback \in Nat /\ Padding \notin Nat  \* node ids are less

ClusterCount == Len(Postings) * FineCentroids

Bucket(cluster) == Postings[(cluster \div FineCentroids) + 1][(cluster % FineCentroids) + 1]

First(list, n) == SubSeq(list, 1, IF n < Len(list) THEN n ELSE Len(list))

(* Lists in one array: each begins where those before it end.              *)
Places(lists) == UNION {{l} \X DOMAIN lists[l] : l \in DOMAIN lists}

BeginOf(lists, l) == Cardinality({place \in Places(lists) : place[1] < l})

Joined(lists) ==
  [i \in 1 .. Cardinality(Places(lists)) |->
     LET place == CHOOSE p \in Places(lists) : BeginOf(lists, p[1]) + p[2] = i
     IN  lists[place[1]][place[2]]]
-----------------------------------------------------------------------------
(* ComputeFloat32EntryPoints, for the cluster of a query, and the batch    *)
(* that RunTopologySearchKernelBatch makes of the lists.                   *)
HostEntries(cluster) ==
  IF cluster < 0 \/ Bucket(cluster) = <<>> THEN <<Fallback>> ELSE First(Bucket(cluster), EntryCount)

JoinedLists(lists) ==
  [num_queries |-> Len(lists),
   offsets     |-> [q \in 0 .. Len(lists) |-> BeginOf(lists, q + 1)],
   ids         |-> Joined(lists)]
-----------------------------------------------------------------------------
(* FlattenClusterPostings: the beginnings of all posting lists in one      *)
(* array, which is what the device has of the model.                       *)
KeptPostings == [c \in 1 .. ClusterCount |-> First(Bucket(c - 1), PostingLimit)]

ClusterIds             == Joined(KeptPostings)
ClusterOffset(cluster) == BeginOf(KeptPostings, cluster + 1)

(* gather_rvq_entries_kernel: a row is padded, then filled; a query        *)
(* without a cluster, or with one that is empty, starts at the fallback.   *)
(* The rows lie one behind the other.                                      *)
GatheredRow(cluster) ==
  LET size   == IF cluster < 0 THEN 0 ELSE ClusterOffset(cluster + 1) - ClusterOffset(cluster)
      found  == IF size < EntryCount THEN size ELSE EntryCount
      filled == IF found = 0 THEN <<Fallback>>
                ELSE SubSeq(ClusterIds, ClusterOffset(cluster) + 1, ClusterOffset(cluster) + found)
  IN  [i \in 1 .. EntryCount |-> IF i <= Len(filled) THEN filled[i] ELSE Padding]

RowOffsets(num_queries) == [q \in 0 .. num_queries |-> q * EntryCount]

DeviceEntryBatch(clusters) ==
  [num_queries |-> Len(clusters),
   offsets     |-> RowOffsets(Len(clusters)),
   ids         |-> [i \in 1 .. Len(clusters) * EntryCount |->
                      GatheredRow(clusters[((i - 1) \div EntryCount) + 1])[((i - 1) % EntryCount) + 1]]]
-----------------------------------------------------------------------------
(* SliceDeviceEntryBatch and SliceHostQueries.                             *)
SliceDeviceEntryBatch(full, query_offset, num_queries) ==
  [num_queries |-> num_queries,
   offsets     |-> RowOffsets(num_queries),
   ids         |-> SubSeq(full.ids, query_offset * EntryCount + 1,
                          (query_offset + num_queries) * EntryCount)]

SliceHostQueries(queries, query_offset, num_queries) ==
  SubSeq(queries, query_offset + 1, query_offset + num_queries)

(* What the block of query q of a batch seeds its search with.             *)
Unpadded(row) ==
  LET filled == {i \in DOMAIN row : row[i] # Padding}
  IN  [k \in 1 .. Cardinality(filled) |->
         row[CHOOSE i \in filled : Cardinality({j \in filled : j <= i}) = k]]

Seeds(batch, q) == Unpadded(SubSeq(batch.ids, batch.offsets[q] + 1, batch.offsets[q + 1]))

(* TopologySearch::RunBatch takes a batch of as many queries as it has.    *)
RunBatchRefused(batch, queries) == batch.num_queries # Len(queries)
=============================================================================
