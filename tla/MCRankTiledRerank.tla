-------------------------- MODULE MCRankTiledRerank --------------------------
(* Six vectors of three dimensions in two chunks of one and two dimensions, *)
(* two queries, and the codes: base, residual, finer and hybrid, each with  *)
(* two centers per chunk.  Three vectors fit in two pages.                  *)
EXTENDS RankTiledRerank

Vector(x, y, z) == [d \in 0 .. 2 |-> IF d = 0 THEN x ELSE IF d = 1 THEN y ELSE z]

Six(a, b, c, d, e, f) == [n \in 0 .. 5 |-> <<a, b, c, d, e, f>>[n + 1]]

Pair(a, b) == [c \in 0 .. 1 |-> IF c = 0 THEN a ELSE b]

MCNodes   == 0 .. 5
MCVectors == Six(Vector(0, 0, 0), Vector(2, 1, 1), Vector(1, 2, 1),
                 Vector(3, 3, 2), Vector(2, 2, 1), Vector(3, 0, 1))
MCQueries == <<Vector(1, 0, 0), Vector(2, 2, 1)>>

MCOffsets == <<0, 1, 3>>
Centers(a, b, c) == [d \in 0 .. 2 |-> IF d = 0 THEN a ELSE IF d = 1 THEN b ELSE c]

MCBase == [centroid |-> Vector(1, 0, 0), offsets |-> MCOffsets,
  centers |-> Centers(Pair(-1, 1), Pair(0, 2), Pair(0, 1)),
  codes |-> Six(Pair(0, 0), Pair(1, 0), Pair(0, 1), Pair(1, 1), Pair(1, 1), Pair(1, 0))]

(* Base and residual decode to 000, 211, 121, 332, 332 and 300: the fifth   *)
(* vector is off by the root of three, the sixth by one; not all bounds are   *)
(* tight.                                                                   *)
MCResidual == [centroid |-> Vector(0, 1, 0), offsets |-> MCOffsets,
  centers |-> Centers(Pair(0, 1), Pair(-1, 0), Pair(0, 1)),
  codes |-> Six(Pair(0, 0), Pair(0, 1), Pair(1, 0), Pair(1, 1), Pair(1, 1), Pair(1, 0))]
MCErrorBounds == Six(0, 0, 1, 0, 2, 1)

MCFine == [centroid |-> Vector(0, 0, 0), offsets |-> MCOffsets,
  centers |-> Centers(Pair(1, 3), Pair(0, 3), Pair(0, 1)),
  codes |-> Six(Pair(0, 0), Pair(1, 0), Pair(0, 1), Pair(1, 1), Pair(0, 1), Pair(1, 0))]

MCHybrid == [base |-> MCBase,
  outlier |-> [MCFine EXCEPT !.codes =
    Six(Pair(0, 0), Pair(1, 0), Pair(1, 1), Pair(1, 1), Pair(0, 1), Pair(1, 0))],
  selectors |-> Six(Pair(FALSE, TRUE), Pair(TRUE, FALSE), Pair(FALSE, TRUE),
                    Pair(TRUE, TRUE), Pair(FALSE, FALSE), Pair(TRUE, FALSE))]

MCMemory == {[distance |-> 0, node |-> 1], [distance |-> 99, node |-> 9]}

(* Candidate lists with invalid tails, reranked in tiles without the filter.*)
Entries(nodes) == [i \in DOMAIN nodes |-> [distance |-> i, node |-> nodes[i]]]

MCLists == {Entries(<<1, 2, 3, 4>>), Entries(<<4, 3, 5, 2>>), Entries(<<5, 2, 9, 9>>),
            Entries(<<9, 9, 9, 9>>)}

MCHoles == {[lists |-> l, top_n |-> 4, tile |-> 2, filter |-> FALSE] :
              l \in [Queries -> MCLists]}
=============================================================================
