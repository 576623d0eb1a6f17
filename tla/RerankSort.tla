----------------------------- MODULE RerankSort -----------------------------
(***************************************************************************)
(* The two sorts of the rerank: rerank_bitonic_sort_kernel, which the      *)
(* refine kernels contain too, for lists that fit in shared memory, and an *)
(* exchange sort on the host for longer ones.                              *)
(***************************************************************************)
EXTENDS RerankOrder, SequencesExt

CONSTANT MaxDeviceSort \* kMaxRerankSortCandidates

ASSUME SortAssumption == \E k \in 0 .. MaxDeviceSort : MaxDeviceSort = 2^k

NextPowerOfTwo(value) ==
  2^(CHOOSE k \in 0 .. value : 2^k >= value /\ (k > 0 => 2^(k - 1) < value))

Padded(entries, count) ==
  entries \o [i \in 1 .. count - Len(entries) |-> Unfilled]

(* A comparison of two places, in the order they should come in.           *)
Exchange(entries, places) ==
  LET low == places.low  high == places.high
  IN  IF EntryLess(entries[high], entries[low]) = places.ascending
      THEN [entries EXCEPT ![low] = entries[high], ![high] = entries[low]]
      ELSE entries

(* A pass over count places compares idx with idx ^ stride, the smaller of *)
(* the two being the one without the bit; places are counted from one.     *)
Pass(count, size, stride) ==
  SetToSeq({[low |-> idx + 1, high |-> idx + stride + 1,
             ascending |-> (idx \div size) % 2 = 0] :
            idx \in {i \in 0 .. count - 1 : (i \div stride) % 2 = 0}})

Network(count) ==
  FlattenSeq([k \in 1 .. (CHOOSE k \in 0 .. count : 2^k = count) |->
    FlattenSeq([s \in 1 .. k |-> Pass(count, 2^k, 2^(k - s))])])

(* The segment is padded to padded_count places, which may be more than it *)
(* needs: the longest of the segments of a batch decides.                  *)
BitonicSorted(entries, longest) ==
  LET count == NextPowerOfTwo(longest)
  IN  Prefix(FoldLeft(Exchange, Padded(entries, count), Network(count)), Len(entries))

ExchangeSorted(entries) ==
  LET n == Len(entries)
  IN  FoldLeft(Exchange, Padded(entries, n),
        FlattenSeq([i \in 1 .. n |-> [k \in 1 .. n - i |->
                      [low |-> i, high |-> i + k, ascending |-> TRUE]]]))

SortedSegment(entries, longest) ==
  IF longest <= MaxDeviceSort THEN BitonicSorted(entries, longest)
  ELSE ExchangeSorted(entries)
=============================================================================
