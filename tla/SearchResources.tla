--------------------------- MODULE SearchResources ---------------------------
(***************************************************************************)
(* SearchResources (src/search/search_resources.cpp): the compressed       *)
(* indexes, the tables made from two of them, the vector store and the     *)
(* page providers that a search reads through.  Every operation may throw; *)
(* ok says whether it returned.  An index file is known by its name.       *)
(***************************************************************************)
EXTENDS Naturals

CONSTANTS
  Indexes,   \* the index files of the base, residual and hybrid codes
  Points,    \* num_points of an index
  Dims,      \* ndims of an index
  Chunks,    \* its chunk count and chunk offsets
  None       \* an empty pointer, an empty path

ASSUME IndexAssumption ==
  DOMAIN Points = Indexes /\ DOMAIN Dims = Indexes /\ DOMAIN Chunks = Indexes

VARIABLES
  pq,        \* pq_index_
  pq2,       \* pq2_index_
  aux,       \* pq2_aux_: the indexes its cross terms and error bounds are made from
  hpq,       \* hpq_index_: its base and its outlier codes
  store,     \* vector_store_: None, or its provider_
  topology,  \* topology_page_provider_
  combined   \* combined_node_page_provider_

tables    == <<pq, pq2, aux, hpq>>
providers == <<store, topology, combined>>

NoResources ==
  /\ pq = None /\ pq2 = None /\ aux = None /\ hpq = None
  /\ store = None /\ topology = None /\ combined = None

(* What BuildPq2CrossTerms compares: the number of points is not part of it.*)
SameLayout(i, j) == Dims[i] = Dims[j] /\ Chunks[i] = Chunks[j]
-----------------------------------------------------------------------------
LoadPqIndex(i, ok) ==
  /\ pq' = IF ok THEN i ELSE pq
  /\ UNCHANGED <<pq2, aux, hpq, providers>>

(* A file that cannot be read leaves everything as it was.  From then on   *)
(* the new codes are installed and the old tables gone, also when a check  *)
(* or an allocation on the way to the new tables throws.  bounds is the    *)
(* number of rows of the error-bound file.                                 *)
LoadPq2KeepingTables(i, bounds, ok) ==
  /\ \/ ~ok /\ UNCHANGED <<pq2, aux>>
     \/ (ok <=> bounds = None) /\ pq2' = i /\ UNCHANGED aux
     \/ /\ ok /\ pq # None /\ SameLayout(pq, i) /\ bounds = Points[i]
        /\ pq2' = i /\ aux' = [base |-> pq, codes |-> i, bounds |-> bounds]
  /\ UNCHANGED <<pq, hpq, providers>>

LoadPq2Index(i, bounds, ok) ==
  /\ \/ ~ok /\ UNCHANGED <<pq2, aux>>
     \/ (ok <=> bounds = None) /\ pq2' = i /\ aux' = None
     \/ /\ ok /\ pq # None /\ SameLayout(pq, i) /\ bounds = Points[i]
        /\ pq2' = i /\ aux' = [base |-> pq, codes |-> i, bounds |-> bounds]
  /\ UNCHANGED <<pq, hpq, providers>>

LoadHpqIndex(base, outlier, ok) ==
  /\ ok => /\ pq # None
           /\ SameLayout(base, outlier) /\ Points[base] = Points[outlier]
           /\ Points[pq] = Points[base] /\ Dims[pq] = Dims[base]
  /\ hpq' = IF ok THEN <<base, outlier>> ELSE hpq
  /\ UNCHANGED <<pq, pq2, aux, providers>>

(* A new store has no provider, whatever the old one had.                  *)
LoadVectorStore(ok) ==
  /\ store' = IF ok THEN [provider |-> None] ELSE store
  /\ UNCHANGED <<tables, topology, combined>>
-----------------------------------------------------------------------------
(* Attach...Provider and Clear...Provider.                                 *)
AttachVector(provider) ==
  /\ store # None /\ provider # None
  /\ store' = [provider |-> provider]

ClearVector == store' = IF store = None THEN None ELSE [provider |-> None]

AttachTopology(provider) == provider # None /\ topology' = provider

ClearTopology == topology' = None

AttachCombined(provider) == provider # None /\ combined' = provider

ClearCombined == combined' = None

vector_page_provider == IF store = None THEN None ELSE store.provider
-----------------------------------------------------------------------------
(* The refine stage finds only cross terms made with the residual codes    *)
(* that are installed, over the chunks of their base codes, and one error  *)
(* bound for each of their points, whatever loads failed before.  (Nothing *)
(* compares the points of the residual and the base codes, and a base index*)
(* that is loaded later leaves the cross terms with the one before.)       *)
TablesOfInstalledCodes ==
  aux # None =>
    aux.codes = pq2 /\ SameLayout(aux.base, pq2) /\ aux.bounds = Points[pq2]
=============================================================================
