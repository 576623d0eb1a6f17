-------------------------- MODULE ProductQuantizer --------------------------
(***************************************************************************)
(* Distances from the vectors and from their codes.                        *)
(*                                                                         *)
(* Exact: the pages VectorStoreBuilder writes, the page and slot of a      *)
(* node, and the warp that takes the distance of a query from a record.    *)
(*                                                                         *)
(* By codes: a node has a center in each chunk of dimensions,              *)
(* a query a table with its distance from each center, and the distance    *)
(* from a node is the sum of what the table has for the node's centers.    *)
(* The residual codes refine the base codes, a term per pair of centers    *)
(* making up for the part that two sums miss; the hybrid codes choose      *)
(* between two sets of centers chunk by chunk.                             *)
(*                                                                         *)
(* An index is a record of                                                 *)
(*   centroid  the mean that was subtracted before quantisation            *)
(*   offsets   chunk_offsets: chunk c has the dimensions from offsets[c]   *)
(*             up to the next offset                                       *)
(*   centers   per dimension, the value of each center                     *)
(*   codes     per node, its center in each chunk                          *)
(***************************************************************************)
EXTENDS WarpReduce

CONSTANTS
  Dim,            \* dim; vector_bytes is as many scalars
  PageScalars,    \* page_size_bytes, in scalars
  Vectors         \* the vectors of the dataset, per node id

Dims == 0 .. Dim - 1

ASSUME StoreAssumption ==
  /\ Dim \in Nat \ {0} /\ PageScalars \in Nat /\ PageScalars >= Dim
  /\ Cardinality(DOMAIN Vectors) \in Nat
  /\ DOMAIN Vectors = 0 .. Cardinality(DOMAIN Vectors) - 1
  /\ \A n \in DOMAIN Vectors : Vectors[n] \in [Dims -> Int]

vectors_per_page == PageScalars \div Dim

PageCount ==
  (Cardinality(DOMAIN Vectors) + vectors_per_page - 1) \div vectors_per_page

(* WriteFile: a page is filled with zeros and takes whole vectors.         *)
WrittenPage(page) ==
  [place \in 0 .. PageScalars - 1 |->
     LET n == page * vectors_per_page + place \div Dim
     IN  IF place \div Dim < vectors_per_page /\ n \in DOMAIN Vectors
         THEN Vectors[n][place % Dim] ELSE 0]

WrittenPages == [page \in 0 .. PageCount - 1 |-> WrittenPage(page)]

Resolve(n) == [page |-> n \div vectors_per_page, slot |-> n % vectors_per_page]

Record(page, slot) == [d \in Dims |-> page[slot * Dim + d]]
-----------------------------------------------------------------------------
KernelDistance(query, page, slot) ==
  WarpSum([d \in Dims |-> (Record(page, slot)[d] - query[d])^2])

(* What it is meant to be.                                                 *)
SquaredL2(a, b) == MapThenSumSet(LAMBDA d : (a[d] - b[d])^2, DOMAIN a)
-----------------------------------------------------------------------------

Chunks(index) == 0 .. Len(index.offsets) - 2

DimsOf(index, c) == index.offsets[c + 1] .. index.offsets[c + 2] - 1

(* populate_chunk_distances_kernel.                                        *)
QueryTable(index, query) ==
  [c \in Chunks(index) |->
     [center \in DOMAIN index.centers[0] |->
        MapThenSumSet(LAMBDA d : (index.centers[d][center]
                                    - (query[d] - index.centroid[d]))^2,
                      DimsOf(index, c))]]

PqDistance(index, query, n) ==
  LET table == QueryTable(index, query)
  IN  WarpSum([c \in Chunks(index) |-> table[c][index.codes[n][c]]])

(* BuildPq2CrossTerms.                                                     *)
CrossTerms(base, residual) ==
  [c \in Chunks(base) |->
     [b \in DOMAIN base.centers[0], r \in DOMAIN residual.centers[0] |->
        2 * MapThenSumSet(LAMBDA d : (base.centers[d][b] + base.centroid[d])
                                       * (residual.centers[d][r] + residual.centroid[d]),
                          DimsOf(base, c))]]

(* The refined distance, from the candidate's distance by the base codes.  *)
ResidualDistance(base, residual, query, candidate) ==
  LET table == QueryTable(residual, query)
      cross == CrossTerms(base, residual)
      b == base.codes[candidate.node]
      r == residual.codes[candidate.node]
  IN  candidate.distance
        + WarpSum([c \in Chunks(base) |-> table[c][r[c]] + cross[c][b[c], r[c]]])

HybridDistance(hybrid, query, n) ==
  LET base    == QueryTable(hybrid.base, query)
      outlier == QueryTable(hybrid.outlier, query)
      code    == hybrid.outlier.codes[n]
  IN  WarpSum([c \in Chunks(hybrid.outlier) |->
                 IF hybrid.selectors[n][c] THEN outlier[c][code[c]] ELSE base[c][code[c]]])

(* lower_bound > query_threshold, for SquaredL2LowerBound of the distance  *)
(* approx and the error bound e: (sqrt(approx) - e)^2 > t, without roots.  *)
BoundExceeds(approx, e, threshold) ==
  LET excess == approx - e * e - threshold
  IN  excess > 0 /\ excess * excess > 4 * e * e * threshold
-----------------------------------------------------------------------------
(* What the codes stand for: the vectors they are decoded to, of which the *)
(* distances above are the squared distances, the residual one with the    *)
(* square of the query added.                                              *)
Decoded(index, n) ==
  [d \in Dims |-> index.centroid[d] + index.centers[d][index.codes[n][
                    CHOOSE c \in Chunks(index) : d \in DimsOf(index, c)]]]

DecodedHybrid(hybrid, n) ==
  [d \in Dims |->
     LET c == CHOOSE c \in Chunks(hybrid.outlier) : d \in DimsOf(hybrid.outlier, c)
         chosen == IF hybrid.selectors[n][c] THEN hybrid.outlier ELSE hybrid.base
     IN  chosen.centroid[d] + chosen.centers[d][hybrid.outlier.codes[n][c]]]

Sum(a, b) == [d \in Dims |-> a[d] + b[d]]

SquaredNorm(a) == SquaredL2(a, [d \in DOMAIN a |-> 0])
=============================================================================
