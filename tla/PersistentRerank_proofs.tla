----------------------- MODULE PersistentRerank_proofs -----------------------
(***************************************************************************)
(* Safety of one query's rerank in windows, for every candidate list,      *)
(* bound, window and stop rule.  Pruning costs nothing: the list of the    *)
(* nearest always begins with the top_k nearest of all candidates before   *)
(* the window, those that were never read included.  From this follow what *)
(* an early stop promises, that a replay reproduces what it replays, that  *)
(* a checkpoint probed what is read next, and that the search implements   *)
(* the plain rerank.                                                       *)
(***************************************************************************)
EXTENDS PersistentRerank, FiniteSetTheorems, FunctionTheorems, SequenceTheorems, TLAPS

(* The order of entries, and what may separate them.                       *)
Entry  == [distance : Nat, node : Nat]
Limits == [distance : 0 .. Infinity - 1, node : 0 .. NoNode]

AtMost(a, b) == a = b \/ EntryLess(a, b)

Within(entries, v) == {i \in DOMAIN entries : AtMost(entries[i], v)}

Valid == {Scored(Exact, n) : n \in Nodes}

(* What the list of the nearest is, whatever the windows were and whatever *)
(* was pruned: its first top_k entries are those of all candidates before  *)
(* the prefix.  The others are some candidates behind them.                *)
Among(prefix, v) == {i \in 1 .. prefix : AtMost(Scored(Exact, list[i]), v)}

NearestBefore(entries, prefix) ==
  \A v \in Limits, r \in 1 .. TopK :
    AtMost(entries[r], v) <=> r <= Cardinality(Among(prefix, v))

BestOf(entries, prefix) ==
  /\ entries \in [1 .. ResultTopN -> Valid \cup {Unfilled}]
  /\ \A i, j \in 1 .. ResultTopN : i <= j => AtMost(entries[i], entries[j])
  /\ NearestBefore(entries, prefix)

(* Where windows may end: at the bootstrap prefix, at the stages after it, *)
(* and in steps of a tile from the last of these.                          *)
Base ==
  IF ~UseSchedule THEN 0
  ELSE IF FirstStage < NumStages THEN Stages[NumStages] ELSE FirstPrefix

OnGrid(prefix) == \E m \in Nat : prefix = LesserOf(Budget, Base + m * options.tile)

AtStage(prefix) ==
  UseSchedule /\ (prefix = FirstPrefix \/ \E i \in FirstStage + 1 .. NumStages : prefix = Stages[i])

WindowEnd(prefix) == OnGrid(prefix) \/ AtStage(prefix)

OfRequest ==
  \E r \in Requests : list = r.list /\ lower = LowerBounds(r) /\ options = r.options

Progress ==
  /\ pc \in {"read", "merge", "done"} /\ stop \in BOOLEAN
  /\ begin \in 0 .. Budget /\ next \in 0 .. Budget /\ stage \in Nat /\ stable \in Nat
  /\ stopPrefix = IF stop THEN begin ELSE Budget
  /\ pc = "merge" => begin < Budget /\ ~stop
  /\ pc = "done" => begin = Budget \/ stop
  /\ begin = 0 \/ WindowEnd(begin)

WindowRead ==
  pc = "merge" =>
    window = [i \in 1 .. RankEnd - begin |->
       IF list[begin + i] # NoNode /\ Kept(begin + i)
       THEN Scored(Exact, list[begin + i]) ELSE Unfilled]

OnSchedule ==
  /\ ~UseSchedule => OnGrid(begin)
  /\ UseSchedule =>
       /\ stage \in FirstStage .. NumStages
       /\ begin > 0 => FirstPrefix <= begin /\ \A i \in 1 .. stage : Stages[i] <= begin
       /\ ~stop =>
            /\ begin = 0 => stage = FirstStage /\ next = FirstPrefix
            /\ begin > 0 /\ stage < NumStages => next = Stages[stage + 1] /\ begin <= next
            /\ begin > 0 /\ stage = NumStages =>
                 OnGrid(begin) /\ next = LesserOf(Budget, begin + options.tile)

(* The windows counted as stable left the k-th distance where it was.      *)
StableMeans ==
  (replay = 0 /\ ~UseSchedule) =>
    /\ ~stop => stable < options.patience
    /\ stop => stable = options.patience
    /\ stable > 0 =>
         /\ UseEarlyStop /\ begin >= options.min_prefix /\ Kth(best) # Infinity
         /\ begin < Budget =>
              begin >= stable * options.tile
                /\ KthOfPrefix(begin - stable * options.tile) = Kth(best)

AnswerOf(prefix, found) ==
  \E entries \in [1 .. ResultTopN -> Valid \cup {Unfilled}] :
    BestOf(entries, prefix) /\ found = Prefix(WithNodes(entries), TopK)

Recorded ==
  /\ replay # 0 => options.record /\ replay = recorded.prefix /\ TopK <= replay /\ replay <= Budget
  /\ replay # 0 => IF stop THEN begin = replay ELSE begin < replay
  /\ pc = "done" \/ replay # 0 =>
       /\ recorded.prefix = 0 \/ WindowEnd(recorded.prefix)
       /\ recorded.prefix \in 0 .. Budget
       /\ AnswerOf(recorded.prefix, recorded.answer)

RerankInvariant ==
  OfRequest /\ Progress /\ BestOf(best, begin) /\ WindowRead /\ OnSchedule /\ StableMeans /\ Recorded
-----------------------------------------------------------------------------
(* Entries are in a strict total order.                                    *)
LEMMA EntryOrder ==
  ASSUME NEW a \in Entry, NEW b \in Entry, NEW c \in Entry
  PROVE  /\ ~EntryLess(a, a)
         /\ EntryLess(a, b) /\ EntryLess(b, c) => EntryLess(a, c)
         /\ a = b \/ EntryLess(a, b) \/ EntryLess(b, a)
         /\ ~(EntryLess(a, b) /\ EntryLess(b, a))
<1>1. /\ a = [distance |-> a.distance, node |-> a.node]
      /\ b = [distance |-> b.distance, node |-> b.node]
      /\ a.distance \in Nat /\ b.distance \in Nat /\ c.distance \in Nat
      /\ a.node \in Nat /\ b.node \in Nat /\ c.node \in Nat
  BY DEF Entry
<1> QED
  BY <1>1 DEF EntryLess

(* Insertion gives every rank to one entry.                                *)
LEMMA PlacesTaken ==
  ASSUME NEW n \in Nat, NEW entries \in [1 .. n -> Entry], NEW r \in 1 .. n
  PROVE  \E i \in 1 .. n : Place(entries, i) = r
<1> DEFINE Ahead(i) == {j \in 1 .. n : \/ EntryLess(entries[j], entries[i])
                                       \/ entries[j] = entries[i] /\ j <= i}
           place == [i \in 1 .. n |-> Cardinality(Ahead(i))]
<1>1. IsFiniteSet(1 .. n) /\ Cardinality(1 .. n) = n
  BY FS_Interval
<1>2. ASSUME NEW i \in 1 .. n
      PROVE  /\ Ahead(i) \in SUBSET (1 .. n) /\ i \in Ahead(i)
             /\ IsFiniteSet(Ahead(i)) /\ Cardinality(Ahead(i)) \in 1 .. n
             /\ Place(entries, i) = Cardinality(Ahead(i))
  <2>1. Ahead(i) \in SUBSET (1 .. n) /\ i \in Ahead(i)
    OBVIOUS
  <2>2. IsFiniteSet(Ahead(i)) /\ Cardinality(Ahead(i)) <= n
    BY <1>1, <2>1, FS_Subset
  <2>3. Cardinality(Ahead(i)) \in Nat /\ Cardinality(Ahead(i)) # 0
    BY <2>1, <2>2, FS_CardinalityType, FS_EmptySet
  <2>4. DOMAIN entries = 1 .. n
    OBVIOUS
  <2> QED
    BY <2>1, <2>2, <2>3, <2>4 DEF Place
<1>3. ASSUME NEW i \in 1 .. n, NEW j \in 1 .. n,
             EntryLess(entries[i], entries[j]) \/ (entries[i] = entries[j] /\ i < j)
      PROVE  Cardinality(Ahead(i)) < Cardinality(Ahead(j))
  <2>1. Ahead(i) \in SUBSET Ahead(j)
    <3> SUFFICES ASSUME NEW k \in Ahead(i) PROVE k \in Ahead(j)
      OBVIOUS
    <3>1. entries[k] \in Entry /\ entries[i] \in Entry /\ entries[j] \in Entry
      OBVIOUS
    <3>2. CASE EntryLess(entries[k], entries[i])
      BY <1>3, <3>1, <3>2, EntryOrder
    <3>3. CASE entries[k] = entries[i] /\ k <= i
      BY <1>3, <3>1, <3>3
    <3> QED
      BY <3>2, <3>3
  <2>2. j \notin Ahead(i)
    <3>1. entries[i] \in Entry /\ entries[j] \in Entry
      OBVIOUS
    <3> QED
      BY <1>3, <3>1, EntryOrder
  <2>3. Cardinality(Ahead(i)) # Cardinality(Ahead(j))
    BY <1>2, <2>1, <2>2, FS_Subset
  <2>4. Cardinality(Ahead(i)) <= Cardinality(Ahead(j))
    BY <1>2, <2>1, FS_Subset
  <2>5. Cardinality(Ahead(i)) \in 1 .. n /\ Cardinality(Ahead(j)) \in 1 .. n
    BY <1>2
  <2> HIDE DEF Ahead
  <2> QED
    BY <2>3, <2>4, <2>5
<1>4. place \in Injection(1 .. n, 1 .. n)
  <2>1. place \in [1 .. n -> 1 .. n]
    BY <1>2
  <2>2. ASSUME NEW i \in 1 .. n, NEW j \in 1 .. n, i # j PROVE place[i] # place[j]
    <3>1. entries[i] \in Entry /\ entries[j] \in Entry
      OBVIOUS
    <3>2. \/ EntryLess(entries[i], entries[j]) \/ (entries[i] = entries[j] /\ i < j)
          \/ EntryLess(entries[j], entries[i]) \/ (entries[j] = entries[i] /\ j < i)
      BY <2>2, <3>1, EntryOrder
    <3>3. place[i] = Cardinality(Ahead(i)) /\ place[j] = Cardinality(Ahead(j))
      OBVIOUS
    <3>4. Cardinality(Ahead(i)) \in 1 .. n /\ Cardinality(Ahead(j)) \in 1 .. n
      BY <1>2
    <3>5. Cardinality(Ahead(i)) < Cardinality(Ahead(j)) \/ Cardinality(Ahead(j)) < Cardinality(Ahead(i))
      BY <1>3, <3>2
    <3> HIDE DEF Ahead, place
    <3> QED
      BY <3>3, <3>4, <3>5
  <2> HIDE DEF place
  <2> QED
    BY <2>1, <2>2 DEF Injection, IsInjective
<1>5. place \in Surjection(1 .. n, 1 .. n)
  <2> HIDE DEF place
  <2> QED
    BY <1>1, <1>4, FS_Injection
<1>6. PICK i \in 1 .. n : place[i] = r
  BY <1>5 DEF Surjection
<1> QED
  BY <1>2, <1>6

(* An entry of the merged list is at most v exactly where as many of the   *)
(* merged entries are.                                                     *)
LEMMA InsertedRanks ==
  ASSUME NEW n \in Nat, NEW entries \in [1 .. n -> Entry], NEW length \in 0 .. n
  PROVE  /\ Inserted(entries, length) \in [1 .. length -> Entry]
         /\ \A r \in 1 .. length : \E i \in 1 .. n : Inserted(entries, length)[r] = entries[i]
         /\ \A r \in 1 .. length, v \in Entry :
              AtMost(Inserted(entries, length)[r], v) <=> r <= Cardinality(Within(entries, v))
<1>1. ASSUME NEW r \in 1 .. length
      PROVE  \E i \in 1 .. n : Place(entries, i) = r /\ Inserted(entries, length)[r] = entries[i]
  <2>1. DOMAIN entries = 1 .. n /\ r \in 1 .. n
    OBVIOUS
  <2>2. Inserted(entries, length)[r]
          = entries[CHOOSE i \in 1 .. n : Place(entries, i) = r]
    BY <2>1 DEF Inserted
  <2>3. \E i \in 1 .. n : Place(entries, i) = r
    BY <2>1, PlacesTaken
  <2> QED
    BY <2>2, <2>3
<1>2. Inserted(entries, length) \in [1 .. length -> Entry]
  <2>1. Inserted(entries, length) = [r \in 1 .. length |-> Inserted(entries, length)[r]]
    BY DEF Inserted
  <2>2. \A r \in 1 .. length : Inserted(entries, length)[r] \in Entry
    BY <1>1
  <2> HIDE DEF Inserted
  <2> QED
    BY <2>1, <2>2
<1>3. ASSUME NEW r \in 1 .. length, NEW v \in Entry
      PROVE  AtMost(Inserted(entries, length)[r], v) <=> r <= Cardinality(Within(entries, v))
  <2>1. PICK i \in 1 .. n : Place(entries, i) = r /\ Inserted(entries, length)[r] = entries[i]
    BY <1>1
  <2> DEFINE Ahead == {j \in 1 .. n : \/ EntryLess(entries[j], entries[i])
                                      \/ entries[j] = entries[i] /\ j <= i}
             Near  == {j \in 1 .. n : AtMost(entries[j], v)}
  <2>2. r = Cardinality(Ahead) /\ Within(entries, v) = Near
    <3>1. DOMAIN entries = 1 .. n
      OBVIOUS
    <3> QED
      BY <2>1, <3>1 DEF Place, Within
  <2>3. IsFiniteSet(1 .. n)
    BY FS_Interval
  <2>4. Ahead \in SUBSET (1 .. n) /\ Near \in SUBSET (1 .. n) /\ i \in Ahead
    OBVIOUS
  <2>5. /\ IsFiniteSet(Ahead) /\ IsFiniteSet(Near)
        /\ Cardinality(Ahead) \in Nat /\ Cardinality(Near) \in Nat
    BY <2>3, <2>4, FS_Subset, FS_CardinalityType
  <2>6. entries[i] \in Entry /\ \A j \in 1 .. n : entries[j] \in Entry
    OBVIOUS
  <2>7. CASE AtMost(entries[i], v)
    <3>1. Ahead \in SUBSET Near
      <4> SUFFICES ASSUME NEW j \in Ahead PROVE AtMost(entries[j], v)
        OBVIOUS
      <4> QED
        BY <2>6, <2>7, EntryOrder DEF AtMost
    <3>2. Cardinality(Ahead) <= Cardinality(Near)
      BY <2>5, <3>1, FS_Subset
    <3> QED
      BY <2>1, <2>2, <2>7, <3>2
  <2>8. CASE ~AtMost(entries[i], v)
    <3>1. Near \in SUBSET Ahead /\ i \notin Near
      <4>1. EntryLess(v, entries[i])
        BY <2>6, <2>8, EntryOrder DEF AtMost
      <4> SUFFICES ASSUME NEW j \in Near PROVE EntryLess(entries[j], entries[i])
        BY <2>8
      <4> QED
        BY <2>6, <4>1, EntryOrder DEF AtMost
    <3>2. Cardinality(Near) <= Cardinality(Ahead) /\ Cardinality(Near) # Cardinality(Ahead)
      BY <2>4, <2>5, <3>1, FS_Subset
    <3> HIDE DEF Ahead, Near
    <3>3. ~ (r <= Cardinality(Near))
      BY <2>2, <2>5, <3>2
    <3> QED
      BY <2>1, <2>2, <2>8, <3>3
  <2> QED
    BY <2>7, <2>8
<1> QED
  BY <1>1, <1>2, <1>3

(* The first entries are in order.                                         *)
LEMMA InsertedInOrder ==
  ASSUME NEW n \in Nat, NEW entries \in [1 .. n -> Entry], NEW length \in 0 .. n,
         NEW i \in 1 .. length, NEW j \in 1 .. length, i <= j
  PROVE  AtMost(Inserted(entries, length)[i], Inserted(entries, length)[j])
<1> DEFINE list1 == Inserted(entries, length)
           v == list1[j]
<1>1. v \in Entry
  BY InsertedRanks
<1>2. j <= Cardinality(Within(entries, v))
  BY <1>1, InsertedRanks DEF AtMost
<1>3. Cardinality(Within(entries, v)) \in Nat
  <2>1. IsFiniteSet(1 .. n) /\ Within(entries, v) \in SUBSET (1 .. n)
    BY FS_Interval DEF Within
  <2> QED
    BY <2>1, FS_Subset, FS_CardinalityType
<1>4. i <= Cardinality(Within(entries, v))
  BY <1>2, <1>3
<1> QED
  BY <1>1, <1>4, InsertedRanks
-----------------------------------------------------------------------------
(* What a request holds: lists, bounds that never exceed the exact         *)
(* distance, options the host admits, and stages in order.                 *)
LEMMA RequestTypes ==
  ASSUME OfRequest
  PROVE  /\ list \in [1 .. Budget -> NodeOrNone] /\ lower \in [1 .. Budget -> Nat]
         /\ \A i \in 1 .. Budget :
              IF list[i] = NoNode THEN lower[i] = Infinity ELSE lower[i] <= Exact[list[i]]
         /\ options.tile \in Nat \ {0} /\ options.bootstrap \in Nat
         /\ {options.filter, options.early, options.learned, options.record} \subseteq BOOLEAN
         /\ (options.record => options.learned) /\ (options.learned => options.filter)
         /\ options.min_prefix \in Nat /\ options.patience \in Nat \ {0}
         /\ Stages \in Seq(1 .. Budget)
         /\ \A i, j \in 1 .. NumStages : i < j => Stages[i] <= Stages[j]
<1>1. PICK r \in Requests : list = r.list /\ lower = LowerBounds(r) /\ options = r.options
  BY DEF OfRequest
<1>2. /\ r.list \in [1 .. Budget -> NodeOrNone]
      /\ r.bounds \in [Nodes -> Nat] /\ \A n \in Nodes : r.bounds[n] <= Exact[n]
  BY PersistentAssumption
<1>3. lower \in [1 .. Budget -> Nat]
  BY <1>1, <1>2, OrderAssumption DEF LowerBounds, NodeOrNone
<1>4. \A i \in 1 .. Budget :
        IF list[i] = NoNode THEN lower[i] = Infinity ELSE lower[i] <= Exact[list[i]]
  BY <1>1, <1>2 DEF LowerBounds, NodeOrNone
<1>5. /\ r.options.tile \in 1 .. 128
      /\ {r.options.filter, r.options.early, r.options.learned, r.options.record}
           \subseteq BOOLEAN
      /\ r.options.record => r.options.learned
      /\ r.options.learned => r.options.filter
      /\ r.options.min_prefix \in Nat /\ r.options.patience \in Nat \ {0}
      /\ r.options.bootstrap \in Nat
  BY PersistentAssumption
<1>6. /\ StagesOf(r.options) \in Seq(1 .. Budget)
      /\ \A i, j \in DOMAIN StagesOf(r.options) :
           i < j => StagesOf(r.options)[i] <= StagesOf(r.options)[j]
  BY PersistentAssumption
<1>7. Stages = StagesOf(r.options) /\ DOMAIN Stages = 1 .. NumStages
  BY <1>1, <1>6 DEF Stages, NumStages
<1>8. r.options.tile \in Nat \ {0}
  BY <1>5
<1> QED
  BY <1>1, <1>2, <1>3, <1>4, <1>5, <1>6, <1>7, <1>8

(* The sizes of the arrays.                                                *)
LEMMA Sizes ==
  ASSUME OfRequest
  PROVE  /\ ResultTopN \in Nat /\ TopK \in Nat \ {0} /\ TopK <= ResultTopN
         /\ Budget \in Nat \ {0} /\ TopK <= Budget
         /\ (options.learned => ResultTopN = TopK)
  BY RequestTypes, PersistentAssumption, OrderAssumption DEF ResultTopN, UseLearnedStop

(* Entries of candidates, the limits they are compared with, and the       *)
(* unfilled one behind all of them.                                        *)
LEMMA EntryTypes ==
  /\ NoNode \in Nat /\ Infinity \in Nat
  /\ Valid \subseteq Limits /\ Limits \subseteq Entry /\ Unfilled \in Entry
  /\ Valid \cup {Unfilled} \subseteq Entry
  /\ \A n \in NodeOrNone : Scored(Exact, n) \in Valid \cup {Unfilled}
  /\ \A v \in Limits : ~AtMost(Unfilled, v) /\ AtMost(v, Unfilled)
<1>1. NoNode \in Nat /\ Infinity \in Nat
  BY OrderAssumption
<1>2. Valid \subseteq Limits
  <2> SUFFICES ASSUME NEW n \in Nodes PROVE Scored(Exact, n) \in Limits
    BY DEF Valid
  <2>1. n \in Nat /\ n < NoNode /\ n # NoNode /\ Exact[n] \in 0 .. Infinity - 1
    BY <1>1, OrderAssumption, PersistentAssumption
  <2>2. n \in 0 .. NoNode
    BY <1>1, <2>1
  <2> QED
    BY <2>1, <2>2 DEF Scored, Limits
<1>3. Limits \subseteq Entry /\ Unfilled \in Entry
  BY <1>1 DEF Limits, Entry, Unfilled
<1>4. \A n \in NodeOrNone : Scored(Exact, n) \in Valid \cup {Unfilled}
  BY DEF NodeOrNone, Valid, Scored
<1>5. ASSUME NEW v \in Limits PROVE ~AtMost(Unfilled, v) /\ AtMost(v, Unfilled)
  <2>1. /\ v.distance \in 0 .. Infinity - 1
        /\ Unfilled.distance = Infinity
    BY DEF Limits, Unfilled
  <2>2. v.distance < Infinity
    BY <1>1, <2>1
  <2>3. EntryLess(v, Unfilled) /\ ~EntryLess(Unfilled, v) /\ v # Unfilled
    BY <1>1, <2>1, <2>2 DEF EntryLess
  <2> QED
    BY <2>3 DEF AtMost
<1> QED
  BY <1>1, <1>2, <1>3, <1>4, <1>5

(* The candidates of a prefix can be counted.                              *)
LEMMA AmongFinite ==
  ASSUME NEW p \in Nat, NEW v
  PROVE  IsFiniteSet(Among(p, v)) /\ Cardinality(Among(p, v)) \in Nat
<1>1. IsFiniteSet(1 .. p) /\ Among(p, v) \in SUBSET (1 .. p)
  BY FS_Interval DEF Among
<1> QED
  BY <1>1, FS_Subset, FS_CardinalityType

(* The first top_k entries of two such lists are the same.                 *)
LEMMA NearestUnique ==
  ASSUME OfRequest, NEW p \in Nat, NEW a, NEW b, NearestBefore(a, p), NearestBefore(b, p),
         NEW r \in 1 .. TopK, a[r] \in Valid \cup {Unfilled}, b[r] \in Valid \cup {Unfilled}
  PROVE  a[r] = b[r]
<1>1. \A v \in Limits : AtMost(a[r], v) <=> AtMost(b[r], v)
  BY DEF NearestBefore
<1>2. ASSUME NEW x \in Valid \cup {Unfilled}, NEW y \in Valid \cup {Unfilled},
             \A v \in Limits : AtMost(x, v) <=> AtMost(y, v), x # y
      PROVE  FALSE
  <2>1. x \in Entry /\ y \in Entry
    BY EntryTypes
  <2>2. CASE x = Unfilled
    <3>1. y \in Limits
      BY <1>2, <2>2, EntryTypes
    <3> QED
      BY <1>2, <2>2, <3>1, EntryTypes DEF AtMost
  <2>3. CASE y = Unfilled
    <3>1. x \in Limits
      BY <1>2, <2>3, EntryTypes
    <3> QED
      BY <1>2, <2>3, <3>1, EntryTypes DEF AtMost
  <2>4. CASE x # Unfilled /\ y # Unfilled
    <3>1. x \in Limits /\ y \in Limits
      BY <2>4, EntryTypes
    <3>2. AtMost(x, x) /\ AtMost(y, y)
      BY DEF AtMost
    <3>3. AtMost(x, y) /\ AtMost(y, x)
      BY <1>2, <3>1, <3>2
    <3> QED
      BY <1>2, <2>1, <3>3, EntryOrder DEF AtMost
  <2> QED
    BY <2>2, <2>3, <2>4
<1> QED
  BY <1>1, <1>2

(* Its k-th distance is that of the prefix.                                *)
LEMMA BestKth ==
  ASSUME OfRequest, NEW p \in 0 .. Budget, NEW b, BestOf(b, p)
  PROVE  /\ Kth(b) = KthOfPrefix(p) /\ Kth(b) \in 0 .. Infinity
         /\ b[TopK] \in Valid \cup {Unfilled}
<1> DEFINE entries == [i \in 1 .. p |-> Scored(Exact, list[i])]
           d0 == Kth(b)
           Near(d) == {i \in 1 .. p : entries[i].distance <= d}
<1>1. /\ TopK \in 1 .. ResultTopN /\ TopK \in Nat \ {0} /\ p \in Nat /\ p <= Budget
      /\ NoNode \in Nat /\ Infinity \in Nat
  BY Sizes, EntryTypes
<1>2. b[TopK] \in Valid \cup {Unfilled} /\ b[TopK] \in Entry
  BY <1>1, EntryTypes DEF BestOf
<1>3. \A i \in 1 .. p : entries[i] \in Valid \cup {Unfilled} /\ entries[i] \in Entry
                          /\ entries[i].distance \in 0 .. Infinity
  <2> SUFFICES ASSUME NEW i \in 1 .. p
               PROVE  entries[i] \in Valid \cup {Unfilled} /\ entries[i] \in Entry
                        /\ entries[i].distance \in 0 .. Infinity
    OBVIOUS
  <2>1. i \in 1 .. Budget
    BY <1>1, Sizes
  <2>9. list[i] \in NodeOrNone
    BY <2>1, RequestTypes
  <2>2. entries[i] \in Valid \cup {Unfilled}
    BY <2>9, EntryTypes
  <2>3. \A x \in Valid \cup {Unfilled} : x.distance \in 0 .. Infinity
    BY EntryTypes DEF Limits, Unfilled
  <2> QED
    BY <2>2, <2>3, EntryTypes
<1>4. d0 \in 0 .. Infinity
  BY <1>1, <1>2, EntryTypes DEF Kth, Limits, Unfilled
<1>5. ASSUME NEW x \in Valid \cup {Unfilled}, NEW d \in 0 .. Infinity - 1
      PROVE  AtMost(x, [distance |-> d, node |-> NoNode]) <=> x.distance <= d
  <2> DEFINE v == [distance |-> d, node |-> NoNode]
  <2>1. v \in Limits
    BY <1>1 DEF Limits
  <2>2. CASE x = Unfilled
    BY <1>1, <2>1, <2>2, EntryTypes DEF Unfilled
  <2>3. CASE x \in Valid
    <3>1. PICK n \in Nodes : x = Scored(Exact, n)
      BY <2>3 DEF Valid
    <3>2. n \in Nat /\ n < NoNode /\ n # NoNode /\ Exact[n] \in Nat
      BY <1>1, OrderAssumption, PersistentAssumption
    <3>3. x.distance = Exact[n] /\ x.node = n
      BY <3>1, <3>2 DEF Scored
    <3>4. x # v
      BY <3>2, <3>3
    <3>5. EntryLess(x, v) <=> x.distance <= d
      BY <3>2, <3>3, <1>1 DEF EntryLess
    <3> QED
      BY <3>4, <3>5 DEF AtMost
  <2> QED
    BY <2>2, <2>3
<1>6. ASSUME NEW d \in 0 .. Infinity - 1
      PROVE  TopK <= Cardinality(Near(d)) <=> d0 <= d
  <2> DEFINE v == [distance |-> d, node |-> NoNode]
  <2>1. v \in Limits
    BY <1>1 DEF Limits
  <2>2. Among(p, v) = Near(d)
    <3>1. \A i \in 1 .. p : AtMost(Scored(Exact, list[i]), v) <=> entries[i].distance <= d
      BY <1>3, <1>5
    <3> QED
      BY <3>1 DEF Among
  <2>3. AtMost(b[TopK], v) <=> TopK <= Cardinality(Among(p, v))
    BY <1>1, <2>1 DEF BestOf, NearestBefore
  <2>4. AtMost(b[TopK], v) <=> d0 <= d
    BY <1>2, <1>5 DEF Kth
  <2> QED
    BY <2>2, <2>3, <2>4
<1> DEFINE distances == {entries[i].distance : i \in 1 .. p} \cup {Infinity}
           reached == {d \in distances : d = Infinity \/ Cardinality(Near(d)) >= TopK}
<1>7. KthOfPrefix(p) = CHOOSE d \in reached : \A e \in reached : d <= e
  <2>1. DOMAIN entries = 1 .. p
    OBVIOUS
  <2>2. KthOfPrefix(p) = KthDistance(entries)
    BY DEF KthOfPrefix
  <2> HIDE DEF entries
  <2> QED
    BY <2>1, <2>2 DEF KthDistance
<1>8. ASSUME NEW e \in reached PROVE e \in 0 .. Infinity /\ d0 <= e
  <2>1. e \in 0 .. Infinity
    BY <1>1, <1>3
  <2>2. CASE e = Infinity
    BY <1>1, <1>4, <2>2
  <2>3. CASE e # Infinity
    <3>1. e \in 0 .. Infinity - 1
      BY <1>1, <2>1, <2>3
    <3>2. IsFiniteSet(Near(e)) /\ Cardinality(Near(e)) \in Nat
      <4>1. IsFiniteSet(1 .. p)
        BY <1>1, FS_Interval
      <4>2. Near(e) \in SUBSET (1 .. p)
        OBVIOUS
      <4> QED
        BY <4>1, <4>2, FS_Subset, FS_CardinalityType
    <3>3. TopK <= Cardinality(Near(e))
      BY <1>1, <2>3, <3>2
    <3> QED
      BY <1>6, <2>1, <3>1, <3>3
  <2> QED
    BY <2>1, <2>2, <2>3
<1>9. d0 \in reached
  <2>1. CASE d0 = Infinity
    BY <2>1
  <2>2. CASE d0 # Infinity
    <3>1. d0 \in 0 .. Infinity - 1
      BY <1>1, <1>4, <2>2
    <3>2. TopK <= Cardinality(Near(d0))
      <4>1. \A d \in 0 .. Infinity - 1 : d0 <= d => TopK <= Cardinality(Near(d))
        BY <1>6
      <4>2. d0 <= d0
        BY <3>1
      <4> HIDE DEF d0, Near
      <4> QED
        BY <3>1, <4>1, <4>2
    <3>3. \E i \in 1 .. p : entries[i].distance = d0
      <4> SUFFICES ASSUME \A i \in 1 .. p : entries[i].distance # d0 PROVE FALSE
        OBVIOUS
      <4>1. CASE d0 = 0
        <5>1. Near(d0) = {}
          BY <1>3, <4>1
        <5>2. Cardinality(Near(d0)) = 0
          BY <5>1, FS_EmptySet
        <5> QED
          BY <1>1, <3>2, <5>2
      <4>2. CASE d0 # 0
        <5>1. d0 - 1 \in 0 .. Infinity - 1
          BY <1>1, <3>1, <4>2
        <5>2. \A i \in 1 .. p : entries[i].distance <= d0 <=> entries[i].distance <= d0 - 1
          <6> SUFFICES ASSUME NEW i \in 1 .. p
                       PROVE  entries[i].distance <= d0 <=> entries[i].distance <= d0 - 1
            OBVIOUS
          <6>1. entries[i].distance \in 0 .. Infinity /\ entries[i].distance # d0
            BY <1>3
          <6> HIDE DEF entries, d0
          <6> QED
            BY <1>1, <3>1, <6>1
        <5>3. Near(d0) = Near(d0 - 1)
          BY <5>2
        <5>4. d0 <= d0 - 1
          BY <1>6, <3>2, <5>1, <5>3
        <5> HIDE DEF d0
        <5> QED
          BY <3>1, <5>4
      <4> QED
        BY <4>1, <4>2
    <3>4. d0 \in distances
      BY <3>3
    <3>5. IsFiniteSet(Near(d0)) /\ Cardinality(Near(d0)) \in Nat
      <4>1. IsFiniteSet(1 .. p)
        BY <1>1, FS_Interval
      <4>2. Near(d0) \in SUBSET (1 .. p)
        OBVIOUS
      <4> QED
        BY <4>1, <4>2, FS_Subset, FS_CardinalityType
    <3>6. Cardinality(Near(d0)) >= TopK
      <4> HIDE DEF Near, d0
      <4> QED
        BY <1>1, <3>2, <3>5
    <3> QED
      BY <3>4, <3>6
  <2> QED
    BY <2>1, <2>2
<1>10. ASSUME NEW d \in reached, \A e \in reached : d <= e PROVE d = d0
  <2>1. d <= d0 /\ d0 <= d /\ d \in 0 .. Infinity
    BY <1>8, <1>9, <1>10
  <2> HIDE DEF d0, reached
  <2> QED
    BY <1>1, <1>4, <2>1
<1>11. \A e \in reached : d0 <= e
  BY <1>8
<1> HIDE DEF reached, d0
<1>12. KthOfPrefix(p) = d0
  BY <1>7, <1>9, <1>10, <1>11
<1> QED
  BY <1>2, <1>4, <1>12 DEF d0
-----------------------------------------------------------------------------
(* A set of ranks and a set of places behind them are counted apart.       *)
Behind(m, places) == {m + j : j \in places}

(* Counting both together is adding their numbers.                         *)
LEMMA CountedApart ==
  ASSUME NEW m \in Nat, NEW w \in Nat, NEW A \in SUBSET (1 .. m), NEW J \in SUBSET (1 .. w)
  PROVE  /\ IsFiniteSet(A \cup Behind(m, J))
         /\ Cardinality(A \cup Behind(m, J)) = Cardinality(A) + Cardinality(J)
<1> DEFINE f == [j \in J |-> m + j]
           S == {m + j : j \in J}
<1>1. IsFiniteSet(1 .. m) /\ IsFiniteSet(1 .. w)
  BY FS_Interval
<1>2. IsFiniteSet(A) /\ IsFiniteSet(J) /\ Cardinality(A) \in Nat /\ Cardinality(J) \in Nat
  BY <1>1, FS_Subset, FS_CardinalityType
<1>3. J \subseteq Int /\ \A j \in J : 1 <= j
  OBVIOUS
<1>4. f \in Bijection(J, S)
  <2>1. f \in [J -> S]
    OBVIOUS
  <2>2. \A i, j \in J : f[i] = f[j] => i = j
    BY <1>3
  <2>3. \A s \in S : \E j \in J : f[j] = s
    OBVIOUS
  <2> HIDE DEF f, S
  <2> QED
    BY <2>1, <2>2, <2>3 DEF Bijection, Injection, Surjection, IsInjective
<1>5. ExistsBijection(J, S)
  BY <1>4 DEF ExistsBijection
<1>6. IsFiniteSet(S) /\ Cardinality(S) = Cardinality(J)
  BY <1>2, <1>5, FS_Bijection
<1>7. A \cap S = {}
  BY <1>3
<1>8. Cardinality(A \cap S) = 0
  BY <1>7, FS_EmptySet
<1>9. IsFiniteSet(A \cup S)
      /\ Cardinality(A \cup S) = Cardinality(A) + Cardinality(S) - Cardinality(A \cap S)
  BY <1>2, <1>6, FS_Union
<1>10. IsFiniteSet(A \cup S) /\ Cardinality(A \cup S) = Cardinality(A) + Cardinality(J)
  <2> HIDE DEF S
  <2> QED
    BY <1>2, <1>6, <1>8, <1>9
<1> QED
  BY <1>10 DEF Behind

(* The nearest of a window that was pruned, merged with the nearest of the *)
(* candidates before it, are the nearest of both.                          *)
LEMMA MergeKeeps ==
  ASSUME OfRequest, Progress, WindowRead, BestOf(best, begin), pc = "merge",
         RankEnd \in begin .. Budget
  PROVE  BestOf(MergedBest, RankEnd)
<1> DEFINE m == ResultTopN
           w == RankEnd - begin
           n == m + w
           entries == best \o window
           Held == Valid \cup {Unfilled}
<1>1. /\ m \in Nat /\ TopK \in 1 .. m /\ TopK \in Nat \ {0} /\ begin \in Nat
      /\ RankEnd \in Nat /\ w \in Nat /\ n \in Nat /\ m \in 0 .. n /\ Budget \in Nat
      /\ Infinity \in Nat /\ NoNode \in Nat
  BY Sizes, EntryTypes DEF Progress
<1>2. ASSUME NEW j \in 1 .. w
      PROVE  begin + j \in 1 .. Budget /\ list[begin + j] \in NodeOrNone
  <2>1. begin + j \in 1 .. Budget
    BY <1>1
  <2> QED
    BY <2>1, RequestTypes
<1>3. window = [j \in 1 .. w |-> IF list[begin + j] # NoNode /\ Kept(begin + j)
                                  THEN Scored(Exact, list[begin + j]) ELSE Unfilled]
  BY DEF WindowRead
<1>4. window \in [1 .. w -> Held]
  BY <1>2, <1>3, EntryTypes
<1>5. best \in [1 .. m -> Held] /\ Held \subseteq Entry
  BY EntryTypes DEF BestOf
<1>6. /\ entries \in [1 .. n -> Held]
      /\ \A i \in 1 .. m : entries[i] = best[i]
      /\ \A j \in 1 .. w : entries[m + j] = window[j]
  <2>1. best \in Seq(Held) /\ Len(best) = m
    BY <1>1, <1>5
  <2>2. window \in Seq(Held) /\ Len(window) = w
    BY <1>1, <1>4
  <2> HIDE DEF Held, m, w
  <2>3. entries \in Seq(Held) /\ Len(entries) = n
    BY <2>1, <2>2, ConcatProperties
  <2>4. \A i \in 1 .. m + w : entries[i] = IF i <= m THEN best[i] ELSE window[i - m]
    BY <2>1, <2>2, ConcatProperties
  <2> HIDE DEF entries
  <2>5. DOMAIN entries = 1 .. n
    BY <2>3
  <2>6. entries \in [1 .. n -> Held]
    BY <2>3, <2>5
  <2>7. \A i \in 1 .. m : entries[i] = best[i]
    BY <1>1, <2>4
  <2>8. ASSUME NEW j \in 1 .. w PROVE entries[m + j] = window[j]
    <3>1. m + j \in 1 .. m + w /\ ~ (m + j <= m) /\ (m + j) - m = j
      BY <1>1
    <3> QED
      BY <2>4, <3>1
  <2> QED
    BY <2>6, <2>7, <2>8
<1> HIDE DEF entries
<1>7. entries \in [1 .. n -> Entry]
  BY <1>5, <1>6
<1>8. MergedBest = Inserted(entries, m)
  BY DEF MergedBest, entries
<1>9. MergedBest \in [1 .. m -> Held]
  <2>1. Inserted(entries, m) \in [1 .. m -> Entry]
    BY <1>1, <1>7, InsertedRanks
  <2>2. \A r \in 1 .. m : \E i \in 1 .. n : Inserted(entries, m)[r] = entries[i]
    BY <1>1, <1>7, InsertedRanks
  <2> HIDE DEF Held, m, n
  <2> QED
    BY <1>6, <1>8, <2>1, <2>2
<1>10. \A i, j \in 1 .. m : i <= j => AtMost(MergedBest[i], MergedBest[j])
  BY <1>1, <1>7, <1>8, InsertedInOrder
<1>11. ASSUME NEW v \in Limits, NEW r \in 1 .. TopK
       PROVE  AtMost(MergedBest[r], v) <=> r <= Cardinality(Among(RankEnd, v))
  <2> DEFINE J == {j \in 1 .. w : AtMost(Scored(Exact, list[begin + j]), v)}
             K == {j \in 1 .. w : AtMost(window[j], v)}
             B == Within(best, v)
  <2>1. v \in Entry /\ r \in 1 .. m
    BY <1>1, EntryTypes
  <2>2. AtMost(MergedBest[r], v) <=> r <= Cardinality(Within(entries, v))
    BY <1>1, <1>7, <1>8, <2>1, InsertedRanks
  <2>3. B \in SUBSET (1 .. m) /\ J \in SUBSET (1 .. w) /\ K \in SUBSET (1 .. w)
    BY <1>5 DEF Within
  <2>4. Within(entries, v) = B \cup {m + j : j \in K}
    <3>1. DOMAIN entries = 1 .. n /\ DOMAIN best = 1 .. m
      BY <1>5, <1>6
    <3>2. ASSUME NEW i \in Within(entries, v) PROVE i \in B \cup {m + j : j \in K}
      <4>1. i \in 1 .. n /\ AtMost(entries[i], v)
        BY <3>1 DEF Within
      <4>2. CASE i <= m
        <5>1. i \in 1 .. m
          BY <1>1, <4>1, <4>2
        <5> QED
          BY <1>6, <3>1, <4>1, <5>1 DEF Within
      <4>3. CASE ~ (i <= m)
        <5>1. i - m \in 1 .. w /\ i = m + (i - m)
          BY <1>1, <4>1, <4>3
        <5>2. AtMost(window[i - m], v)
          BY <1>6, <4>1, <5>1
        <5> HIDE DEF w, m
        <5> QED
          BY <5>1, <5>2
      <4> QED
        BY <4>2, <4>3
    <3>3. ASSUME NEW i \in B PROVE i \in Within(entries, v)
      <4>1. i \in 1 .. m /\ AtMost(best[i], v)
        BY <3>1 DEF Within
      <4>2. i \in 1 .. n
        BY <1>1, <4>1
      <4> QED
        BY <1>6, <3>1, <4>1, <4>2 DEF Within
    <3>4. ASSUME NEW j \in K PROVE m + j \in Within(entries, v)
      <4>1. j \in 1 .. w /\ AtMost(window[j], v)
        OBVIOUS
      <4>2. m + j \in 1 .. n
        BY <1>1, <4>1
      <4> QED
        BY <1>6, <3>1, <4>1, <4>2 DEF Within
    <3> HIDE DEF B, K
    <3> QED
      BY <3>2, <3>3, <3>4
  <2>5. /\ IsFiniteSet(Within(entries, v))
        /\ Cardinality(Within(entries, v)) = Cardinality(B) + Cardinality(K)
    <3>1. Within(entries, v) = B \cup Behind(m, K)
      BY <2>4 DEF Behind
    <3> HIDE DEF B, K, m, w
    <3>2. m \in Nat /\ w \in Nat /\ B \in SUBSET (1 .. m) /\ K \in SUBSET (1 .. w)
      BY <1>1, <2>3
    <3>3. IsFiniteSet(B \cup Behind(m, K))
      BY <3>2, CountedApart, ZenonT(60)
    <3>4. Cardinality(B \cup Behind(m, K)) = Cardinality(B) + Cardinality(K)
      BY <3>2, CountedApart, ZenonT(60)
    <3> QED
      BY <3>1, <3>3, <3>4, Zenon
  <2>6. Among(RankEnd, v) = Among(begin, v) \cup {begin + j : j \in J}
    <3>1. ASSUME NEW i \in Among(RankEnd, v)
          PROVE  i \in Among(begin, v) \cup {begin + j : j \in J}
      <4>1. i \in 1 .. RankEnd /\ AtMost(Scored(Exact, list[i]), v)
        BY DEF Among
      <4>2. CASE i <= begin
        <5>1. i \in 1 .. begin
          BY <1>1, <4>1, <4>2
        <5> QED
          BY <4>1, <5>1 DEF Among
      <4>3. CASE ~ (i <= begin)
        <5>1. i - begin \in 1 .. w /\ i = begin + (i - begin)
          BY <1>1, <4>1, <4>3
        <5> HIDE DEF w
        <5> QED
          BY <4>1, <5>1
      <4> QED
        BY <4>2, <4>3
    <3>2. ASSUME NEW i \in Among(begin, v) PROVE i \in Among(RankEnd, v)
      <4>1. i \in 1 .. begin /\ AtMost(Scored(Exact, list[i]), v)
        BY DEF Among
      <4>2. i \in 1 .. RankEnd
        BY <1>1, <4>1
      <4> QED
        BY <4>1, <4>2 DEF Among
    <3>3. ASSUME NEW j \in J PROVE begin + j \in Among(RankEnd, v)
      <4>1. begin + j \in 1 .. RankEnd
        BY <1>1
      <4> QED
        BY <4>1 DEF Among
    <3> HIDE DEF J
    <3> QED
      BY <3>1, <3>2, <3>3
  <2>7. Among(begin, v) \in SUBSET (1 .. begin)
    BY DEF Among
  <2>8. Cardinality(Among(RankEnd, v)) = Cardinality(Among(begin, v)) + Cardinality(J)
    <3>1. Among(RankEnd, v) = Among(begin, v) \cup Behind(begin, J)
      BY <2>6 DEF Behind
    <3> HIDE DEF J, m, w
    <3>2. /\ begin \in Nat /\ w \in Nat
          /\ Among(begin, v) \in SUBSET (1 .. begin) /\ J \in SUBSET (1 .. w)
      BY <1>1, <2>3, <2>7
    <3>3. Cardinality(Among(begin, v) \cup Behind(begin, J))
            = Cardinality(Among(begin, v)) + Cardinality(J)
      BY <3>2, CountedApart, ZenonT(60)
    <3> QED
      BY <3>1, <3>3, Zenon
  <2>9. /\ IsFiniteSet(B) /\ Cardinality(B) \in Nat /\ Cardinality(J) \in Nat
        /\ Cardinality(K) \in Nat /\ Cardinality(Among(begin, v)) \in Nat
    <3>1. IsFiniteSet(1 .. m) /\ IsFiniteSet(1 .. w)
      BY <1>1, FS_Interval
    <3>2. IsFiniteSet(B) /\ IsFiniteSet(J) /\ IsFiniteSet(K)
      BY <2>3, <3>1, FS_Subset
    <3> QED
      BY <1>1, <3>2, AmongFinite, FS_CardinalityType
  <2>10. \A k \in 1 .. TopK : AtMost(best[k], v) <=> k <= Cardinality(Among(begin, v))
    BY DEF BestOf, NearestBefore
  <2>11. CASE AtMost(best[TopK], v)
    <3>1. TopK <= Cardinality(Among(begin, v))
      BY <1>1, <2>10, <2>11
    <3>2. 1 .. TopK \in SUBSET B
      <4> SUFFICES ASSUME NEW k \in 1 .. TopK PROVE k \in DOMAIN best /\ AtMost(best[k], v)
        BY DEF Within
      <4>1. k \in 1 .. m /\ k <= TopK
        BY <1>1
      <4>2. AtMost(best[k], best[TopK])
        BY <1>1, <4>1 DEF BestOf
      <4>3. best[k] \in Entry /\ best[TopK] \in Entry
        BY <1>1, <1>5, <4>1
      <4> QED
        BY <1>5, <2>1, <2>11, <4>1, <4>2, <4>3, EntryOrder DEF AtMost
    <3>3. Cardinality(1 .. TopK) = TopK
      BY <1>1, FS_Interval
    <3>4. TopK <= Cardinality(B)
      BY <2>9, <3>2, <3>3, FS_Subset
    <3> HIDE DEF B, J, K
    <3>5. r \in Nat /\ r <= TopK /\ TopK \in Nat
      BY <1>1
    <3>6. r <= Cardinality(Within(entries, v)) /\ r <= Cardinality(Among(RankEnd, v))
      BY <2>5, <2>8, <2>9, <3>1, <3>4, <3>5
    <3> QED
      BY <2>2, <3>6
  <2>12. CASE ~AtMost(best[TopK], v)
    <3> DEFINE a == Cardinality(Among(begin, v))
    <3>1. ~ (TopK <= a) /\ a \in Nat
      BY <1>1, <2>9, <2>10, <2>12
    <3>2. B = 1 .. a
      <4>1. ASSUME NEW k \in 1 .. m, AtMost(best[k], v) PROVE k \in 1 .. a
        <5>1. best[k] \in Entry /\ best[TopK] \in Entry
          BY <1>1, <1>5
        <5>2. CASE k <= TopK
          <6>1. k \in 1 .. TopK
            BY <1>1, <5>2
          <6>2. k <= a
            BY <2>10, <4>1, <6>1
          <6> HIDE DEF a
          <6> QED
            BY <3>1, <6>1, <6>2
        <5>3. CASE ~ (k <= TopK)
          <6>1. TopK <= k
            BY <1>1, <5>3
          <6>2. AtMost(best[TopK], best[k])
            BY <1>1, <6>1 DEF BestOf
          <6> QED
            BY <2>1, <2>12, <4>1, <5>1, <6>2, EntryOrder DEF AtMost
        <5> QED
          BY <5>2, <5>3
      <4>2. ASSUME NEW k \in 1 .. a PROVE k \in 1 .. m /\ AtMost(best[k], v)
        <5>1. k \in 1 .. TopK /\ k \in 1 .. m /\ k <= a
          <6> HIDE DEF a
          <6> QED
            BY <1>1, <3>1
        <5> QED
          BY <2>10, <5>1
      <4>3. DOMAIN best = 1 .. m
        BY <1>5
      <4> HIDE DEF a, m
      <4> QED
        BY <4>1, <4>2, <4>3 DEF Within
    <3>3. Cardinality(B) = a
      <4>1. Cardinality(1 .. a) = IF 1 > a THEN 0 ELSE a - 1 + 1
        <5> HIDE DEF a
        <5>1. 1 \in Int /\ a \in Int
          BY <3>1
        <5> QED
          BY <5>1, FS_Interval
      <4> HIDE DEF a
      <4> QED
        BY <3>1, <3>2, <4>1
    <3>4. K = J
      <4> SUFFICES ASSUME NEW j \in 1 .. w
                   PROVE  AtMost(window[j], v) <=> AtMost(Scored(Exact, list[begin + j]), v)
        OBVIOUS
      <4>1. window[j] = IF list[begin + j] # NoNode /\ Kept(begin + j)
                        THEN Scored(Exact, list[begin + j]) ELSE Unfilled
        BY <1>3
      <4>2. CASE list[begin + j] = NoNode
        BY <4>1, <4>2 DEF Scored
      <4>3. CASE list[begin + j] # NoNode /\ Kept(begin + j)
        BY <4>1, <4>3
      <4>4. CASE list[begin + j] # NoNode /\ ~Kept(begin + j)
        <5> DEFINE k == list[begin + j]
        <5>1. begin + j \in 1 .. Budget /\ k \in Nodes
          BY <1>2, <4>4 DEF NodeOrNone
        <5>2. lower[begin + j] \in Nat /\ lower[begin + j] <= Exact[k] /\ Exact[k] \in Nat
          BY <4>4, <5>1, RequestTypes, PersistentAssumption
        <5>3. ~ (lower[begin + j] <= Kth(best))
          BY <4>4 DEF Kept
        <5>4. Kth(best) \in Nat /\ Kth(best) = best[TopK].distance /\ best[TopK] \in Entry
          <6>1. best[TopK] \in Entry
            BY <1>1, <1>5
          <6> QED
            BY <6>1 DEF Kth, Entry
        <5>5. EntryLess(v, best[TopK])
          BY <2>1, <2>12, <5>4, EntryOrder DEF AtMost
        <5>6. v.distance \in Nat /\ v.distance <= Kth(best)
          BY <1>1, <2>1, <5>4, <5>5 DEF EntryLess, Entry
        <5>7. v.distance < Exact[k]
          BY <5>2, <5>3, <5>4, <5>6
        <5>8. Scored(Exact, k).distance = Exact[k]
          BY <4>4 DEF Scored
        <5>9. ~AtMost(Scored(Exact, k), v)
          BY <5>2, <5>6, <5>7, <5>8 DEF AtMost, EntryLess
        <5>10. ~AtMost(window[j], v)
          BY <4>1, <4>4, EntryTypes
        <5> QED
          BY <5>9, <5>10
      <4> QED
        BY <4>2, <4>3, <4>4
    <3>5. Cardinality(Within(entries, v)) = Cardinality(Among(RankEnd, v))
      BY <2>5, <2>8, <3>3, <3>4
    <3> QED
      BY <2>2, <3>5
  <2> QED
    BY <2>11, <2>12
<1> HIDE DEF Held
<1>12. NearestBefore(MergedBest, RankEnd)
  BY <1>11 DEF NearestBefore
<1> QED
  BY <1>9, <1>10, <1>12 DEF BestOf, Held
-----------------------------------------------------------------------------
(* Steps of a tile.                                                        *)
LEMMA Multiples ==
  ASSUME NEW m \in Nat, NEW k \in Nat, NEW t \in Nat
  PROVE  /\ m * t \in Nat /\ (m + 1) * t = m * t + t
         /\ m < k => m * t + t <= k * t
<1>1. m * t \in Nat /\ k * t \in Nat /\ (m + 1) * t = m * t + t
  OBVIOUS
<1>2. ASSUME m < k PROVE m * t + t <= k * t
  <2>1. PICK d \in Nat : k = (m + 1) + d
    <3>1. k - (m + 1) \in Nat /\ k = (m + 1) + (k - (m + 1))
      BY <1>2
    <3> QED
      BY <3>1
  <2>2. k * t = (m + 1) * t + d * t /\ d * t \in Nat
    BY <2>1
  <2> QED
    BY <1>1, <2>2
<1> QED
  BY <1>1, <1>2

(* The stages up to a prefix come before those behind it.                  *)
LEMMA PassedStages ==
  ASSUME OfRequest, NEW p \in Nat
  PROVE  /\ NumStages \in Nat
         /\ \A i \in 1 .. NumStages : Stages[i] \in 1 .. Budget
         /\ Passed(p) \in 0 .. NumStages
         /\ \A i \in 1 .. NumStages : i <= Passed(p) <=> Stages[i] <= p
<1> DEFINE P == {i \in 1 .. NumStages : Stages[i] <= p}
<1>1. /\ NumStages \in Nat /\ Budget \in Nat
      /\ \A i \in 1 .. NumStages : Stages[i] \in 1 .. Budget
  BY RequestTypes, Sizes DEF NumStages
<1>2. \A i, j \in 1 .. NumStages : i < j => Stages[i] <= Stages[j]
  BY RequestTypes
<1>3. IsFiniteSet(1 .. NumStages) /\ Cardinality(1 .. NumStages) = NumStages
  BY <1>1, FS_Interval
<1>4. P \in SUBSET (1 .. NumStages)
  OBVIOUS
<1>5. IsFiniteSet(P) /\ Cardinality(P) <= NumStages /\ Cardinality(P) \in Nat
  BY <1>3, <1>4, FS_Subset, FS_CardinalityType
<1>6. Passed(p) = Cardinality(P)
  BY DEF Passed
<1>7. ASSUME NEW i \in 1 .. NumStages, Stages[i] <= p PROVE i <= Cardinality(P)
  <2>1. 1 .. i \in SUBSET P
    <3> SUFFICES ASSUME NEW j \in 1 .. i PROVE j \in 1 .. NumStages /\ Stages[j] <= p
      OBVIOUS
    <3>1. j \in 1 .. NumStages /\ (j = i \/ j < i)
      BY <1>1
    <3>2. Stages[j] <= Stages[i] /\ Stages[j] \in Nat /\ Stages[i] \in Nat
      BY <1>1, <1>2, <3>1
    <3> QED
      BY <1>7, <3>1, <3>2
  <2>2. Cardinality(1 .. i) = i
    BY FS_Interval
  <2> HIDE DEF P
  <2> QED
    BY <1>5, <2>1, <2>2, FS_Subset
<1>8. ASSUME NEW i \in 1 .. NumStages, ~ (Stages[i] <= p) PROVE ~ (i <= Cardinality(P))
  <2>1. P \in SUBSET (1 .. i - 1)
    <3> SUFFICES ASSUME NEW j \in 1 .. NumStages, Stages[j] <= p, ~ (j < i) PROVE FALSE
      OBVIOUS
    <3>1. j = i \/ i < j
      OBVIOUS
    <3>2. Stages[i] <= Stages[j] /\ Stages[j] \in Nat /\ Stages[i] \in Nat
      BY <1>1, <1>2, <3>1
    <3> QED
      BY <1>8, <3>2
  <2>2. IsFiniteSet(1 .. i - 1) /\ Cardinality(1 .. i - 1) = i - 1
    <3>1. 1 \in Int /\ i - 1 \in Int /\ 0 <= i - 1
      OBVIOUS
    <3>2. IsFiniteSet(1 .. i - 1)
          /\ Cardinality(1 .. i - 1) = IF 1 > i - 1 THEN 0 ELSE (i - 1) - 1 + 1
      BY <3>1, FS_Interval
    <3> QED
      BY <3>1, <3>2
  <2>3. Cardinality(P) <= i - 1
    <3> HIDE DEF P
    <3> QED
      BY <2>1, <2>2, FS_Subset
  <2> HIDE DEF P
  <2> QED
    BY <1>5, <2>3
<1> HIDE DEF P
<1> QED
  BY <1>1, <1>5, <1>6, <1>7, <1>8

(* The first window ends at the bootstrap prefix, the stages it does not   *)
(* reach are those left to check.                                          *)
LEMMA FirstWindow ==
  ASSUME OfRequest, UseSchedule
  PROVE  /\ FirstPrefix \in 1 .. Budget /\ FirstStage \in 0 .. NumStages
         /\ \A i \in 1 .. NumStages : i <= FirstStage <=> Stages[i] <= FirstPrefix
         /\ FirstStage < NumStages => Base = Stages[NumStages] /\ FirstPrefix <= Base
         /\ ~ (FirstStage < NumStages) => Base = FirstPrefix
<1>1. /\ options.bootstrap \in Nat /\ options.bootstrap # 0 /\ options.learned
      /\ Budget \in Nat \ {0}
  BY RequestTypes, Sizes DEF UseSchedule, UseLearnedStop
<1>2. FirstPrefix = LesserOf(Budget, options.bootstrap) /\ FirstStage = Passed(options.bootstrap)
  BY <1>1 DEF FirstPrefix, FirstStage, UseLearnedStop
<1>3. /\ FirstPrefix \in 1 .. Budget /\ FirstPrefix <= options.bootstrap
      /\ FirstPrefix = Budget \/ FirstPrefix = options.bootstrap
  BY <1>1, <1>2 DEF LesserOf
<1>4. /\ FirstStage \in 0 .. NumStages /\ NumStages \in Nat
      /\ \A i \in 1 .. NumStages : Stages[i] \in 1 .. Budget
      /\ \A i \in 1 .. NumStages : i <= FirstStage <=> Stages[i] <= options.bootstrap
  BY <1>1, <1>2, PassedStages
<1>5. ASSUME NEW i \in 1 .. NumStages
      PROVE  Stages[i] <= options.bootstrap <=> Stages[i] <= FirstPrefix
  BY <1>1, <1>3, <1>4
<1>6. ASSUME FirstStage < NumStages
      PROVE  Base = Stages[NumStages] /\ FirstPrefix <= Base
  <2>1. NumStages \in 1 .. NumStages /\ ~ (NumStages <= FirstStage)
    BY <1>4, <1>6
  <2>2. ~ (Stages[NumStages] <= FirstPrefix) /\ Stages[NumStages] \in 1 .. Budget
    BY <1>4, <1>5, <2>1
  <2>3. Base = Stages[NumStages]
    BY <1>6 DEF Base
  <2> QED
    BY <1>3, <2>2, <2>3
<1>7. ~ (FirstStage < NumStages) => Base = FirstPrefix
  BY DEF Base
<1> QED
  BY <1>3, <1>4, <1>5, <1>6, <1>7
-----------------------------------------------------------------------------
(* Where the grid of windows begins.                                       *)
LEMMA BaseType ==
  ASSUME OfRequest
  PROVE  Base \in Nat /\ (UseSchedule => Base \in 1 .. Budget)
<1>1. CASE ~UseSchedule
  BY <1>1 DEF Base
<1>2. CASE UseSchedule
  <2>1. CASE FirstStage < NumStages
    <3>1. NumStages \in Nat /\ FirstStage \in 0 .. NumStages
      BY <1>2, FirstWindow, PassedStages
    <3>2. NumStages \in 1 .. NumStages
      BY <2>1, <3>1
    <3>3. Stages[NumStages] \in 1 .. Budget
      BY <3>2, PassedStages
    <3> QED
      BY <1>2, <2>1, <3>3, FirstWindow, Sizes
  <2>2. CASE ~ (FirstStage < NumStages)
    BY <1>2, <2>2, FirstWindow, Sizes
  <2> QED
    BY <2>1, <2>2
<1> QED
  BY <1>1, <1>2

(* After a place of the grid comes the one a tile further.                 *)
LEMMA GridStep ==
  ASSUME OfRequest, NEW b \in Nat, b < Budget, OnGrid(b)
  PROVE  /\ OnGrid(LesserOf(Budget, b + options.tile))
         /\ \A p : OnGrid(p) /\ b < p => LesserOf(Budget, b + options.tile) <= p
<1>1. Base \in Nat /\ Budget \in Nat /\ options.tile \in Nat
  BY BaseType, Sizes, RequestTypes
<1>2. PICK m \in Nat : b = LesserOf(Budget, Base + m * options.tile)
  BY DEF OnGrid
<1> DEFINE t == options.tile
<1>3. m * t \in Nat /\ (m + 1) * t = m * t + t
  BY <1>1, Multiples
<1> HIDE DEF t
<1>4. b = Base + m * t
  BY <1>1, <1>2, <1>3 DEF LesserOf, t
<1>5. b + t = Base + (m + 1) * t
  BY <1>1, <1>3, <1>4 DEF t
<1>6. OnGrid(LesserOf(Budget, b + t))
  <2>1. m + 1 \in Nat
    OBVIOUS
  <2> QED
    BY <1>5, <2>1 DEF OnGrid, t
<1>7. ASSUME NEW p, OnGrid(p), b < p PROVE LesserOf(Budget, b + t) <= p
  <2>1. PICK k \in Nat : p = LesserOf(Budget, Base + k * t)
    BY <1>7 DEF OnGrid, t
  <2>2. k * t \in Nat /\ t \in Nat
    BY <1>1, Multiples DEF t
  <2>3. CASE k <= m
    <3>1. k * t <= m * t
      <4>1. CASE k = m
        BY <1>3, <4>1
      <4>2. CASE k < m
        <5>1. k * t + t <= m * t
          BY <2>2, <4>2, Multiples
        <5> QED
          BY <1>3, <2>2, <5>1
      <4> QED
        BY <2>3, <4>1, <4>2
    <3>2. p <= b
      BY <1>1, <1>3, <1>4, <2>1, <2>2, <3>1 DEF LesserOf
    <3>3. p \in Nat
      BY <1>1, <2>1, <2>2 DEF LesserOf
    <3> QED
      BY <1>7, <3>2, <3>3
  <2>4. CASE ~ (k <= m)
    <3>1. m < k
      BY <2>4
    <3>2. m * t + t <= k * t
      BY <2>2, <3>1, Multiples
    <3> QED
      BY <1>1, <1>3, <1>4, <2>1, <2>2, <3>2 DEF LesserOf
  <2> QED
    BY <2>3, <2>4
<1> QED
  BY <1>6, <1>7 DEF t

(* The window that is read next ends at the next place where one may end.  *)
LEMMA WindowAhead ==
  ASSUME OfRequest, Progress, OnSchedule, begin < Budget, ~stop
  PROVE  /\ RankEnd \in begin .. Budget /\ 1 <= RankEnd /\ WindowEnd(RankEnd)
         /\ \A p : WindowEnd(p) /\ begin < p => RankEnd <= p
         /\ ~UseSchedule => RankEnd = LesserOf(Budget, begin + options.tile) /\ OnGrid(RankEnd)
         /\ UseSchedule =>
              /\ FirstPrefix <= RankEnd
              /\ stage \in FirstStage .. NumStages
              /\ \A i \in 1 .. stage : Stages[i] <= RankEnd
              /\ stage < NumStages => RankEnd <= Stages[stage + 1]
              /\ (\A i \in 1 .. NumStages : Stages[i] <= RankEnd) => OnGrid(RankEnd)
<1>1. /\ begin \in Nat /\ begin < Budget /\ Budget \in Nat \ {0}
      /\ options.tile \in Nat \ {0} /\ Base \in Nat
  BY Sizes, RequestTypes, BaseType DEF Progress
<1>2. CASE ~UseSchedule
  <2>1. RankEnd = LesserOf(Budget, begin + options.tile) /\ OnGrid(begin)
    BY <1>2 DEF RankEnd, OnSchedule
  <2>2. RankEnd \in begin .. Budget /\ 1 <= RankEnd
    BY <1>1, <2>1 DEF LesserOf
  <2>3. OnGrid(RankEnd) /\ \A p : OnGrid(p) /\ begin < p => RankEnd <= p
    BY <1>1, <2>1, GridStep
  <2> QED
    BY <1>2, <2>1, <2>2, <2>3 DEF WindowEnd, AtStage
<1>3. CASE UseSchedule
  <2>1. /\ FirstPrefix \in 1 .. Budget /\ FirstStage \in 0 .. NumStages
        /\ \A i \in 1 .. NumStages : i <= FirstStage <=> Stages[i] <= FirstPrefix
        /\ FirstStage < NumStages => Base = Stages[NumStages] /\ FirstPrefix <= Base
        /\ ~ (FirstStage < NumStages) => Base = FirstPrefix
    BY <1>3, FirstWindow
  <2>2. /\ NumStages \in Nat
        /\ \A i \in 1 .. NumStages : Stages[i] \in 1 .. Budget
        /\ \A i, j \in 1 .. NumStages : i < j => Stages[i] <= Stages[j]
    BY PassedStages, RequestTypes
  <2>3. /\ RankEnd = next
        /\ stage \in FirstStage .. NumStages /\ stage \in Nat
        /\ begin > 0 => FirstPrefix <= begin /\ \A i \in 1 .. stage : Stages[i] <= begin
        /\ begin = 0 => stage = FirstStage /\ next = FirstPrefix
        /\ begin > 0 /\ stage < NumStages => next = Stages[stage + 1] /\ begin <= next
        /\ begin > 0 /\ stage = NumStages =>
             OnGrid(begin) /\ next = LesserOf(Budget, begin + options.tile)
    BY <1>3, <2>1, <2>2 DEF RankEnd, OnSchedule
  <2>4. ASSUME NEW p, OnGrid(p) PROVE p \in Nat /\ LesserOf(Budget, Base) <= p
    <3>1. PICK k \in Nat : p = LesserOf(Budget, Base + k * options.tile)
      BY <2>4 DEF OnGrid
    <3>2. k * options.tile \in Nat
      BY <1>1, Multiples
    <3> QED
      BY <1>1, <3>1, <3>2 DEF LesserOf
  <2>5. OnGrid(LesserOf(Budget, Base))
    <3>1. Base + 0 * options.tile = Base
      BY <1>1
    <3> QED
      BY <3>1 DEF OnGrid
  <2>6. CASE begin = 0
    <3>1. stage = FirstStage /\ RankEnd = FirstPrefix
      BY <2>3, <2>6
    <3>2. ASSUME NEW i \in FirstStage + 1 .. NumStages
          PROVE  i \in 1 .. NumStages /\ RankEnd <= Stages[i]
      <4>1. i \in 1 .. NumStages /\ ~ (i <= FirstStage)
        BY <2>1, <2>2
      <4> QED
        BY <2>1, <2>2, <3>1, <4>1
    <3>3. RankEnd <= LesserOf(Budget, Base) /\ LesserOf(Budget, Base) \in Nat
      <4>1. FirstPrefix <= Base
        BY <2>1
      <4> QED
        BY <1>1, <2>1, <3>1, <4>1 DEF LesserOf
    <3>4. \A p : OnGrid(p) => RankEnd <= p
      <4> SUFFICES ASSUME NEW p, OnGrid(p) PROVE RankEnd <= p
        OBVIOUS
      <4>1. p \in Nat /\ LesserOf(Budget, Base) <= p
        BY <2>4
      <4> QED
        BY <2>1, <3>1, <3>3, <4>1
    <3>5. \A p : WindowEnd(p) => RankEnd <= p
      BY <1>3, <2>1, <3>1, <3>2, <3>4 DEF WindowEnd, AtStage
    <3>6. \A i \in 1 .. stage : Stages[i] <= RankEnd
      <4> SUFFICES ASSUME NEW i \in 1 .. stage PROVE Stages[i] <= RankEnd
        OBVIOUS
      <4>1. i \in 1 .. NumStages /\ i <= FirstStage
        BY <2>1, <2>2, <3>1
      <4> QED
        BY <2>1, <3>1, <4>1
    <3>7. stage < NumStages => RankEnd <= Stages[stage + 1]
      <4> SUFFICES ASSUME stage < NumStages PROVE RankEnd <= Stages[stage + 1]
        OBVIOUS
      <4>1. stage + 1 \in FirstStage + 1 .. NumStages
        BY <2>1, <2>2, <2>3, <3>1
      <4> QED
        BY <3>2, <4>1
    <3>8. (\A i \in 1 .. NumStages : Stages[i] <= RankEnd) => OnGrid(RankEnd)
      <4> SUFFICES ASSUME \A i \in 1 .. NumStages : Stages[i] <= RankEnd PROVE OnGrid(RankEnd)
        OBVIOUS
      <4>1. ~ (FirstStage < NumStages)
        <5> SUFFICES ASSUME FirstStage < NumStages PROVE FALSE
          OBVIOUS
        <5>1. NumStages \in 1 .. NumStages /\ ~ (NumStages <= FirstStage)
          BY <2>1, <2>2
        <5> QED
          BY <2>1, <3>1, <5>1
      <4>2. RankEnd = LesserOf(Budget, Base)
        BY <1>1, <2>1, <3>1, <4>1 DEF LesserOf
      <4> QED
        BY <2>5, <4>2
    <3>9. RankEnd \in begin .. Budget /\ 1 <= RankEnd
      BY <2>1, <2>6, <3>1
    <3>10. WindowEnd(RankEnd) /\ FirstPrefix <= RankEnd
      BY <1>3, <2>1, <3>1 DEF WindowEnd, AtStage
    <3> QED
      BY <1>3, <2>3, <3>5, <3>6, <3>7, <3>8, <3>9, <3>10
  <2>7. CASE begin > 0 /\ stage < NumStages
    <3>1. /\ RankEnd = Stages[stage + 1] /\ begin <= RankEnd
          /\ FirstPrefix <= begin /\ \A i \in 1 .. stage : Stages[i] <= begin
      BY <2>3, <2>7
    <3>2. stage + 1 \in 1 .. NumStages /\ stage + 1 \in FirstStage + 1 .. NumStages
          /\ FirstStage < NumStages /\ NumStages \in 1 .. NumStages
      BY <2>1, <2>2, <2>3, <2>7
    <3>3. RankEnd \in 1 .. Budget
      BY <2>2, <3>1, <3>2
    <3>4. \A i \in stage + 1 .. NumStages : RankEnd <= Stages[i]
      <4> SUFFICES ASSUME NEW i \in stage + 1 .. NumStages PROVE RankEnd <= Stages[i]
        OBVIOUS
      <4>1. i \in 1 .. NumStages /\ (i = stage + 1 \/ stage + 1 < i)
        BY <2>2, <2>3
      <4> QED
        BY <2>2, <3>1, <3>2, <3>3, <4>1
    <3>5. RankEnd <= Base /\ RankEnd <= LesserOf(Budget, Base) /\ LesserOf(Budget, Base) \in Nat
      <4>1. NumStages \in stage + 1 .. NumStages
        BY <2>2, <2>3, <3>2
      <4>2. RankEnd <= Base
        BY <2>1, <3>2, <3>4, <4>1
      <4> QED
        BY <1>1, <3>3, <4>2 DEF LesserOf
    <3>6. \A p : OnGrid(p) => RankEnd <= p
      <4> SUFFICES ASSUME NEW p, OnGrid(p) PROVE RankEnd <= p
        OBVIOUS
      <4>1. p \in Nat /\ LesserOf(Budget, Base) <= p
        BY <2>4
      <4> QED
        BY <3>3, <3>5, <4>1
    <3>7. ASSUME NEW p, AtStage(p), begin < p PROVE RankEnd <= p
      <4>1. CASE p = FirstPrefix
        BY <1>1, <2>1, <3>1, <3>7, <4>1
      <4>2. CASE \E i \in FirstStage + 1 .. NumStages : p = Stages[i]
        <5>1. PICK i \in FirstStage + 1 .. NumStages : p = Stages[i]
          BY <4>2
        <5>2. i \in 1 .. NumStages
          BY <2>1, <2>2
        <5>3. ~ (i <= stage)
          <6> SUFFICES ASSUME i <= stage PROVE FALSE
            OBVIOUS
          <6>1. i \in 1 .. stage
            BY <2>3, <5>2
          <6> QED
            BY <1>1, <2>2, <3>1, <3>7, <5>1, <5>2, <6>1
        <5>4. i \in stage + 1 .. NumStages
          BY <2>2, <2>3, <5>2, <5>3
        <5> QED
          BY <3>4, <5>1, <5>4
      <4> QED
        BY <3>7, <4>1, <4>2 DEF AtStage
    <3>8. ASSUME NEW i \in 1 .. stage PROVE Stages[i] <= RankEnd
      <4>1. i \in 1 .. NumStages
        BY <2>2, <2>3
      <4>2. Stages[i] \in Nat /\ Stages[i] <= begin
        BY <2>2, <3>1, <4>1
      <4> QED
        BY <1>1, <3>1, <3>3, <4>2
    <3>9. (\A i \in 1 .. NumStages : Stages[i] <= RankEnd) => OnGrid(RankEnd)
      <4> SUFFICES ASSUME \A i \in 1 .. NumStages : Stages[i] <= RankEnd PROVE OnGrid(RankEnd)
        OBVIOUS
      <4>1. Base <= RankEnd
        BY <2>1, <3>2
      <4>2. RankEnd = LesserOf(Budget, Base)
        BY <1>1, <3>3, <3>5, <4>1 DEF LesserOf
      <4> QED
        BY <2>5, <4>2
    <3>10. WindowEnd(RankEnd)
      BY <1>3, <3>1, <3>2 DEF WindowEnd, AtStage
    <3>11. RankEnd \in begin .. Budget /\ 1 <= RankEnd /\ FirstPrefix <= RankEnd
      BY <1>1, <2>1, <3>1, <3>3
    <3>12. RankEnd <= Stages[stage + 1]
      BY <3>1, <3>3
    <3> QED
      BY <1>3, <2>3, <3>6, <3>7, <3>8, <3>9, <3>10, <3>11, <3>12 DEF WindowEnd
  <2>8. CASE begin > 0 /\ stage = NumStages
    <3>1. /\ OnGrid(begin) /\ RankEnd = LesserOf(Budget, begin + options.tile)
          /\ FirstPrefix <= begin /\ \A i \in 1 .. NumStages : Stages[i] <= begin
      BY <2>3, <2>8
    <3>2. RankEnd \in begin .. Budget /\ 1 <= RankEnd
      BY <1>1, <3>1 DEF LesserOf
    <3>3. OnGrid(RankEnd) /\ \A p : OnGrid(p) /\ begin < p => RankEnd <= p
      BY <1>1, <3>1, GridStep
    <3>4. ASSUME NEW p, AtStage(p) PROVE ~ (begin < p)
      <4>1. CASE p = FirstPrefix
        BY <1>1, <2>1, <3>1, <4>1
      <4>2. CASE \E i \in FirstStage + 1 .. NumStages : p = Stages[i]
        <5>1. PICK i \in FirstStage + 1 .. NumStages : p = Stages[i]
          BY <4>2
        <5>2. i \in 1 .. NumStages
          BY <2>1, <2>2
        <5> QED
          BY <1>1, <2>2, <3>1, <5>1, <5>2
      <4> QED
        BY <3>4, <4>1, <4>2 DEF AtStage
    <3>5. \A i \in 1 .. NumStages : Stages[i] <= RankEnd
      BY <1>1, <2>2, <3>1, <3>2
    <3>6. FirstPrefix <= RankEnd
      BY <1>1, <2>1, <3>1, <3>2
    <3>7. ~ (stage < NumStages)
      BY <2>2, <2>8
    <3> QED
      BY <1>3, <2>3, <2>8, <3>2, <3>3, <3>4, <3>5, <3>6, <3>7 DEF WindowEnd
  <2> QED
    BY <1>1, <2>2, <2>3, <2>6, <2>7, <2>8
<1> QED
  BY <1>2, <1>3
-----------------------------------------------------------------------------
(* What depends on the request alone stays as it is.                       *)
LEMMA SameRequest ==
  ASSUME UNCHANGED request
  PROVE  /\ list' = list /\ lower' = lower /\ options' = options
         /\ Stages' = Stages /\ NumStages' = NumStages /\ ResultTopN' = ResultTopN
         /\ UseSchedule' = UseSchedule /\ FirstStage' = FirstStage
         /\ FirstPrefix' = FirstPrefix /\ Base' = Base /\ UseEarlyStop' = UseEarlyStop
         /\ OfRequest' = OfRequest
<1>1. list' = list /\ lower' = lower /\ options' = options
  BY DEF request
<1>2. Stages' = Stages
  BY <1>1 DEF Stages
<1>3. NumStages' = NumStages
  BY <1>2 DEF NumStages
<1>4. UseLearnedStop' = UseLearnedStop /\ UseEarlyStop' = UseEarlyStop
  BY <1>1 DEF UseLearnedStop, UseEarlyStop
<1>5. ResultTopN' = ResultTopN
  BY <1>4 DEF ResultTopN
<1>6. UseSchedule' = UseSchedule
  BY <1>1, <1>3, <1>4 DEF UseSchedule
<1>7. FirstStage' = FirstStage
  BY <1>1, <1>2, <1>3, <1>4 DEF FirstStage, Passed
<1>8. FirstPrefix' = FirstPrefix
  BY <1>1, <1>6 DEF FirstPrefix, LesserOf
<1>9. Base' = Base
  BY <1>2, <1>3, <1>6, <1>7, <1>8 DEF Base
<1>10. OfRequest' = OfRequest
  BY <1>1 DEF OfRequest
<1> QED
  BY <1>1, <1>2, <1>3, <1>4, <1>5, <1>6, <1>7, <1>8, <1>9, <1>10

(* So does where windows may end.                                          *)
LEMMA SamePlaces ==
  ASSUME UNCHANGED request, NEW p
  PROVE  (OnGrid(p)' <=> OnGrid(p)) /\ (AtStage(p)' <=> AtStage(p))
         /\ (WindowEnd(p)' <=> WindowEnd(p))
<1>1. OnGrid(p)' <=> OnGrid(p)
  BY SameRequest DEF OnGrid, LesserOf
<1>2. AtStage(p)' <=> AtStage(p)
  BY SameRequest DEF AtStage
<1> QED
  BY <1>1, <1>2 DEF WindowEnd

(* A step that leaves the request alone may still move the search to p.    *)
LEMMA PlacesMove ==
  ASSUME UNCHANGED request, NEW p, begin' = p
  PROVE  (OnGrid(begin)' <=> OnGrid(p)) /\ (WindowEnd(begin)' <=> WindowEnd(p))
<1>1. OnGrid(begin)' <=> OnGrid(p)
  BY SameRequest DEF OnGrid, LesserOf
<1>2. AtStage(begin)' <=> AtStage(p)
  BY SameRequest DEF AtStage
<1> QED
  BY <1>1, <1>2 DEF WindowEnd

(* The candidates near a limit are those of the request.                   *)
LEMMA SameAmong ==
  ASSUME UNCHANGED request, NEW p, NEW v
  PROVE  Among(p, v)' = Among(p, v)
BY SameRequest DEF Among, AtMost, EntryLess, Scored, Unfilled

(* The list of the nearest and its prefix may move together.               *)
LEMMA BestMoves ==
  ASSUME UNCHANGED request, NEW b, NEW p, best' = b, begin' = p, BestOf(b, p)
  PROVE  BestOf(best, begin)'
<1>1. \A v : Among(begin, v)' = Among(p, v)
  BY SameRequest DEF Among, AtMost, EntryLess, Scored, Unfilled
<1>2. NearestBefore(best, begin)' <=> NearestBefore(b, p)
  BY <1>1 DEF NearestBefore, AtMost, EntryLess
<1> QED
  BY <1>2, SameRequest DEF BestOf, AtMost, EntryLess, Valid, Scored, Unfilled

(* The k-th distance of a prefix is that of the request.                   *)
LEMMA KthMoves ==
  ASSUME UNCHANGED request, NEW p
  PROVE  KthOfPrefix(p)' = KthOfPrefix(p)
BY SameRequest DEF KthOfPrefix

(* Whether a list is that of the nearest of a prefix does not change.      *)
LEMMA SameBest ==
  ASSUME UNCHANGED request, NEW b, NEW p
  PROVE  BestOf(b, p)' <=> BestOf(b, p)
<1>1. NearestBefore(b, p)' <=> NearestBefore(b, p)
  BY SameAmong DEF NearestBefore, AtMost, EntryLess
<1> QED
  BY <1>1, SameRequest DEF BestOf, AtMost, EntryLess, Valid, Scored, Unfilled

(* What is recorded may change to an answer of another prefix.             *)
LEMMA RecordMoves ==
  ASSUME UNCHANGED request, NEW p, NEW a, (recorded.prefix)' = p, (recorded.answer)' = a
  PROVE  /\ WindowEnd(recorded.prefix)' <=> WindowEnd(p)
         /\ AnswerOf(recorded.prefix, recorded.answer)' <=> AnswerOf(p, a)
<1>1. recorded'.prefix = p /\ recorded'.answer = a
  OBVIOUS
<1>2. \A v : Among(recorded.prefix, v)' = Among(p, v)
  BY <1>1, SameRequest DEF Among, AtMost, EntryLess, Scored, Unfilled
<1>3. \A b : BestOf(b, recorded.prefix)' <=> BestOf(b, p)
  <2> SUFFICES ASSUME NEW b PROVE BestOf(b, recorded.prefix)' <=> BestOf(b, p)
    OBVIOUS
  <2>1. NearestBefore(b, recorded.prefix)' <=> NearestBefore(b, p)
    BY <1>2 DEF NearestBefore, AtMost, EntryLess
  <2> QED
    BY <2>1, SameRequest DEF BestOf, AtMost, EntryLess, Valid, Scored, Unfilled
<1>4. AnswerOf(recorded.prefix, recorded.answer)' <=> AnswerOf(p, a)
  BY <1>1, <1>3, SameRequest DEF AnswerOf, Valid, Unfilled, Scored
<1>5. WindowEnd(recorded.prefix)' <=> WindowEnd(p)
  BY <1>1, SameRequest DEF WindowEnd, OnGrid, AtStage, LesserOf
<1> QED
  BY <1>4, <1>5
-----------------------------------------------------------------------------
(* Without candidates the nearest are the unfilled entries.                *)
LEMMA EmptyIsBest ==
  ASSUME OfRequest
  PROVE  BestOf(Empty, 0)
<1>1. ResultTopN \in Nat /\ TopK \in Nat \ {0} /\ TopK <= ResultTopN
  BY Sizes
<1>2. /\ Empty \in [1 .. ResultTopN -> Valid \cup {Unfilled}]
      /\ \A i \in 1 .. ResultTopN : Empty[i] = Unfilled
  BY DEF Empty
<1>3. \A i, j \in 1 .. ResultTopN : i <= j => AtMost(Empty[i], Empty[j])
  BY <1>2 DEF AtMost
<1>4. ASSUME NEW v \in Limits, NEW r \in 1 .. TopK
      PROVE  AtMost(Empty[r], v) <=> r <= Cardinality(Among(0, v))
  <2>1. Among(0, v) = {}
    BY DEF Among
  <2>2. Cardinality(Among(0, v)) = 0
    BY <2>1, FS_EmptySet
  <2>3. r \in 1 .. ResultTopN
    BY <1>1
  <2>4. ~AtMost(Empty[r], v)
    BY <1>2, <2>3, EntryTypes
  <2> QED
    BY <2>2, <2>4
<1>5. NearestBefore(Empty, 0)
  BY <1>4 DEF NearestBefore
<1> QED
  BY <1>2, <1>3, <1>5 DEF BestOf

(* The first window is not empty.                                          *)
LEMMA FirstPrefixType ==
  ASSUME OfRequest
  PROVE  FirstPrefix \in 1 .. Budget
<1>1. options.tile \in Nat \ {0} /\ options.bootstrap \in Nat /\ Budget \in Nat \ {0}
  BY RequestTypes, Sizes
<1>2. UseSchedule => options.bootstrap # 0
  BY DEF UseSchedule
<1> QED
  BY <1>1, <1>2 DEF FirstPrefix, LesserOf

(* The first stage to check.                                               *)
LEMMA FirstStageType ==
  ASSUME OfRequest
  PROVE  FirstStage \in Nat /\ (UseSchedule => FirstStage \in 0 .. NumStages)
<1>1. options.bootstrap \in Nat
  BY RequestTypes
<1>2. Passed(options.bootstrap) \in 0 .. NumStages /\ NumStages \in Nat
  BY <1>1, PassedStages
<1> QED
  BY <1>2, FirstWindow DEF FirstStage

(* Where a query starts, and starts again to be replayed.                  *)
AtStart ==
  /\ OfRequest /\ begin = 0 /\ pc = "read" /\ best = Empty /\ stage = FirstStage
  /\ next = FirstPrefix /\ stable = 0 /\ stop = FALSE /\ stopPrefix = Budget

(* The invariant holds there, if what is recorded is kept.                 *)
LEMMA StartKeeps ==
  AtStart => Progress /\ BestOf(best, begin) /\ WindowRead /\ OnSchedule /\ StableMeans
<1> SUFFICES ASSUME AtStart
             PROVE  Progress /\ BestOf(best, begin) /\ WindowRead /\ OnSchedule /\ StableMeans
  OBVIOUS
<1>0. /\ OfRequest /\ begin = 0 /\ pc = "read" /\ best = Empty /\ stage = FirstStage
      /\ next = FirstPrefix /\ stable = 0 /\ ~stop /\ stop \in BOOLEAN /\ stopPrefix = Budget
  BY Zenon DEF AtStart
<1>1. Budget \in Nat \ {0} /\ options.patience \in Nat \ {0} /\ options.tile \in Nat
  BY <1>0, Sizes, RequestTypes
<1>2. Progress
  <2>1. begin \in 0 .. Budget /\ next \in 0 .. Budget /\ stage \in Nat /\ stable \in Nat
    BY <1>0, <1>1, FirstPrefixType, FirstStageType
  <2> QED
    BY <1>0, <2>1 DEF Progress
<1>3. BestOf(best, begin)
  BY <1>0, EmptyIsBest
<1>4. WindowRead
  BY <1>0 DEF WindowRead
<1>5. OnSchedule
  <2>1. ASSUME ~UseSchedule PROVE OnGrid(begin)
    <3>1. Base = 0 /\ 0 * options.tile = 0
      BY <1>1, <2>1 DEF Base
    <3>2. begin = LesserOf(Budget, Base + 0 * options.tile)
      BY <1>0, <1>1, <3>1 DEF LesserOf
    <3> QED
      BY <3>2 DEF OnGrid
  <2>2. ASSUME UseSchedule PROVE stage \in FirstStage .. NumStages
    BY <1>0, <2>2, FirstStageType, PassedStages
  <2> QED
    BY <1>0, <2>1, <2>2 DEF OnSchedule
<1>6. StableMeans
  BY <1>0, <1>1 DEF StableMeans
<1> QED
  BY <1>2, <1>3, <1>4, <1>5, <1>6

(* The first state.                                                        *)
LEMMA InitHolds == Init => RerankInvariant
<1> SUFFICES ASSUME Init PROVE RerankInvariant
  OBVIOUS
<1>1. OfRequest
  BY DEF Init, OfRequest
<1>2. Progress /\ BestOf(best, begin) /\ WindowRead /\ OnSchedule /\ StableMeans
  BY <1>1, StartKeeps, Zenon DEF Init, AtStart
<1>3. Recorded
  BY DEF Init, Recorded
<1> QED
  BY <1>1, <1>2, <1>3 DEF RerankInvariant

(* What was recorded stays with the best it was taken from.                *)
LEMMA RecordStays ==
  ASSUME UNCHANGED request, UNCHANGED <<replay, recorded>>, Recorded,
         pc = "done" \/ replay # 0
  PROVE  /\ (recorded.prefix = 0 \/ WindowEnd(recorded.prefix))'
         /\ (recorded.prefix)' \in 0 .. Budget
         /\ AnswerOf(recorded.prefix, recorded.answer)'
         /\ replay' # 0 =>
              options'.record /\ replay' = (recorded.prefix)' /\ TopK <= replay' /\ replay' <= Budget
<1>1. PICK p : p = recorded.prefix
  OBVIOUS
<1>2. PICK a : a = recorded.answer
  OBVIOUS
<1>3. replay' = replay /\ (recorded.prefix)' = p /\ (recorded.answer)' = a
  BY <1>1, <1>2
<1>4. (p = 0 \/ WindowEnd(p)) /\ p \in 0 .. Budget /\ AnswerOf(p, a)
  BY <1>1, <1>2 DEF Recorded
<1>5. WindowEnd(recorded.prefix)' <=> WindowEnd(p)
  BY <1>3, RecordMoves
<1>6. AnswerOf(recorded.prefix, recorded.answer)'
  BY <1>3, <1>4, RecordMoves
<1>7. options' = options
  BY SameRequest
<1> QED
  BY <1>1, <1>3, <1>4, <1>5, <1>6, <1>7 DEF Recorded

(* A step that only moves the program counter leaves the search alone.     *)
LEMMA SearchStays ==
  ASSUME UNCHANGED request, UNCHANGED <<begin, best, stage, next, stable, stop>>,
         UNCHANGED replay, OfRequest, BestOf(best, begin), OnSchedule, StableMeans
  PROVE  /\ OfRequest' /\ BestOf(best, begin)' /\ OnSchedule' /\ StableMeans'
         /\ WindowEnd(begin)' <=> WindowEnd(begin)
<1>1. /\ begin' = begin /\ best' = best /\ stage' = stage /\ next' = next
      /\ stable' = stable /\ stop' = stop
  OBVIOUS
<1>2. PICK p : p = begin
  OBVIOUS
<1>3. PICK b : b = best
  OBVIOUS
<1>4. (OnGrid(begin)' <=> OnGrid(begin)) /\ (WindowEnd(begin)' <=> WindowEnd(begin))
  BY <1>1, <1>2, PlacesMove
<1>5. BestOf(best, begin)'
  BY <1>1, <1>2, <1>3, BestMoves
<1>6. OnSchedule'
  <2>1. LesserOf(Budget, begin + options.tile)' = LesserOf(Budget, begin + options.tile)
    BY <1>1, SameRequest DEF LesserOf
  <2> QED
    BY <1>1, <1>4, <2>1, SameRequest DEF OnSchedule
<1>7. StableMeans'
  <2>1. KthOfPrefix(begin - stable * options.tile)' = KthOfPrefix(begin - stable * options.tile)
    <3>1. (begin - stable * options.tile)' = begin - stable * options.tile
      BY <1>1, SameRequest
    <3> QED
      BY <1>1, SameRequest DEF KthOfPrefix
  <2>2. Kth(best)' = Kth(best)
    BY <1>1 DEF Kth
  <2> QED
    BY <1>1, <2>1, <2>2, SameRequest DEF StableMeans
<1> QED
  BY <1>4, <1>5, <1>6, <1>7, SameRequest

(* A window that is read holds the candidates that are not pruned.         *)
LEMMA ReadKeeps ==
  ASSUME RerankInvariant, ReadWindow
  PROVE  RerankInvariant'
<1>1. /\ UNCHANGED request /\ UNCHANGED <<begin, best, stage, next, stable, stop>>
      /\ UNCHANGED <<stopPrefix, replay, recorded>>
      /\ pc = "read" /\ begin < Budget /\ ~stop /\ pc' = "merge"
  BY DEF ReadWindow
<1>2. /\ OfRequest /\ Progress /\ BestOf(best, begin) /\ OnSchedule /\ StableMeans /\ Recorded
  BY DEF RerankInvariant
<1>3. /\ OfRequest' /\ BestOf(best, begin)' /\ OnSchedule' /\ StableMeans'
      /\ WindowEnd(begin)' <=> WindowEnd(begin)
  BY <1>1, <1>2, SearchStays
<1>4. Progress'
  BY <1>1, <1>2, <1>3 DEF Progress
<1>5. WindowRead'
  <2>1. window' = [i \in 1 .. RankEnd - begin |->
          IF list[begin + i] # NoNode /\ Kept(begin + i)
          THEN Scored(Exact, list[begin + i]) ELSE Unfilled]
    BY DEF ReadWindow
  <2>2. RankEnd' = RankEnd
    BY <1>1, SameRequest DEF RankEnd, LesserOf
  <2>3. \A i : Kept(begin + i)' <=> Kept(begin + i)
    BY <1>1, SameRequest DEF Kept, Kth
  <2>4. \A i : Scored(Exact, list[begin + i])' = Scored(Exact, list[begin + i])
    BY <1>1, SameRequest DEF Scored, Unfilled
  <2> QED
    BY <1>1, <2>1, <2>2, <2>3, <2>4, SameRequest DEF WindowRead, Unfilled
<1>6. Recorded'
  BY <1>1, <1>2, RecordStays DEF Recorded
<1> QED
  BY <1>3, <1>4, <1>5, <1>6 DEF RerankInvariant

(* A search that is done leaves its prefix and its answer on record.       *)
LEMMA FinishKeeps ==
  ASSUME RerankInvariant, Finish
  PROVE  RerankInvariant'
<1>1. /\ UNCHANGED request /\ UNCHANGED <<begin, best, stage, next, stable, stop>>
      /\ UNCHANGED <<stopPrefix, replay>>
      /\ pc = "read" /\ (begin >= Budget \/ stop) /\ pc' = "done"
      /\ recorded' = IF replay = 0 THEN [prefix |-> stopPrefix, answer |-> Answer] ELSE recorded
  BY DEF Finish
<1>2. /\ OfRequest /\ Progress /\ BestOf(best, begin) /\ OnSchedule /\ StableMeans /\ Recorded
  BY DEF RerankInvariant
<1>3. /\ OfRequest' /\ BestOf(best, begin)' /\ OnSchedule' /\ StableMeans'
      /\ WindowEnd(begin)' <=> WindowEnd(begin)
  BY <1>1, <1>2, SearchStays
<1>4. /\ begin \in 0 .. Budget /\ Budget \in Nat
      /\ begin = Budget \/ stop
      /\ stopPrefix = IF stop THEN begin ELSE Budget
  BY <1>1, <1>2, Sizes DEF Progress
<1>5. stopPrefix = begin
  BY <1>4
<1>6. Progress'
  BY <1>1, <1>2, <1>3, <1>4 DEF Progress
<1>7. WindowRead'
  BY <1>1 DEF WindowRead
<1>8. Recorded'
  <2>1. CASE replay # 0
    <3>1. recorded' = recorded
      BY <1>1, <2>1
    <3> QED
      BY <1>1, <1>2, <2>1, <3>1, RecordStays DEF Recorded
  <2>2. CASE replay = 0
    <3>1. PICK p : p = begin
      OBVIOUS
    <3>2. PICK a : a = Answer
      OBVIOUS
    <3>3. (recorded.prefix)' = p /\ (recorded.answer)' = a /\ replay' = 0
      BY <1>1, <1>5, <2>2, <3>1, <3>2
    <3>4. p \in 0 .. Budget /\ (p = 0 \/ WindowEnd(p))
      BY <1>2, <1>4, <3>1 DEF Progress
    <3>5. AnswerOf(p, a)
      <4>1. best \in [1 .. ResultTopN -> Valid \cup {Unfilled}] /\ BestOf(best, p)
        BY <1>2, <3>1 DEF BestOf
      <4> QED
        BY <3>2, <4>1 DEF AnswerOf, Answer
    <3>6. (WindowEnd(recorded.prefix)' <=> WindowEnd(p))
          /\ AnswerOf(recorded.prefix, recorded.answer)'
      BY <1>1, <3>3, <3>5, RecordMoves
    <3> QED
      BY <3>3, <3>4, <3>6 DEF Recorded
  <2> QED
    BY <2>1, <2>2
<1> QED
  BY <1>3, <1>6, <1>7, <1>8 DEF RerankInvariant

(* A replay starts over, with the record of the search before it.          *)
LEMMA StartReplayKeeps ==
  ASSUME RerankInvariant, StartReplay
  PROVE  RerankInvariant'
<1>1. /\ UNCHANGED request /\ recorded' = recorded
      /\ pc = "done" /\ replay = 0 /\ options.record /\ ~Refused
      /\ begin' = 0 /\ pc' = "read" /\ best' = Empty
      /\ stage' = FirstStage /\ next' = FirstPrefix /\ stable' = 0
      /\ stop' = FALSE /\ stopPrefix' = Budget /\ replay' = recorded.prefix
  BY DEF StartReplay
<1>2. /\ OfRequest /\ Progress /\ BestOf(best, begin) /\ OnSchedule /\ StableMeans /\ Recorded
  BY DEF RerankInvariant
<1>3. AtStart'
  <2>1. Empty' = Empty
    BY <1>1, SameRequest DEF Empty, Unfilled
  <2>2. OfRequest' /\ FirstStage' = FirstStage /\ FirstPrefix' = FirstPrefix
    BY <1>1, <1>2, SameRequest
  <2> QED
    BY <1>1, <2>1, <2>2, Zenon DEF AtStart
<1>4. (Progress /\ BestOf(best, begin) /\ WindowRead /\ OnSchedule /\ StableMeans)'
  BY <1>3, StartKeeps, PTL
<1>5. Recorded'
  <2>1. PICK p : p = recorded.prefix
    OBVIOUS
  <2>2. PICK a : a = recorded.answer
    OBVIOUS
  <2>3. (recorded.prefix)' = p /\ (recorded.answer)' = a
    BY <1>1, <2>1, <2>2
  <2>4. (p = 0 \/ WindowEnd(p)) /\ p \in 0 .. Budget /\ AnswerOf(p, a)
    BY <1>1, <1>2, <2>1, <2>2 DEF Recorded
  <2>5. (WindowEnd(recorded.prefix)' <=> WindowEnd(p))
        /\ AnswerOf(recorded.prefix, recorded.answer)'
    BY <1>1, <2>3, <2>4, RecordMoves
  <2>6. replay' = p /\ TopK <= p /\ p <= Budget /\ begin' = 0 /\ 0 < p
    <3>1. TopK \in Nat \ {0} /\ Budget \in Nat
      BY <1>2, Sizes
    <3> QED
      BY <1>1, <2>1, <2>4, <3>1 DEF Refused
  <2>7. options' = options /\ ~stop'
    BY <1>1, SameRequest, Zenon
  <2> QED
    BY <1>1, <2>3, <2>4, <2>5, <2>6, <2>7 DEF Recorded
<1>6. OfRequest'
  BY <1>1, <1>2, SameRequest
<1> QED
  BY <1>4, <1>5, <1>6 DEF RerankInvariant
-----------------------------------------------------------------------------
(* The more candidates, the nearer the k-th.                               *)
LEMMA KthShrinks ==
  ASSUME OfRequest, NEW p \in 0 .. Budget, NEW q \in 0 .. Budget, p <= q,
         NEW a, NEW b, BestOf(a, p), BestOf(b, q)
  PROVE  Kth(b) <= Kth(a)
<1>1. /\ Kth(a) \in 0 .. Infinity /\ a[TopK] \in Valid \cup {Unfilled}
      /\ Kth(b) \in 0 .. Infinity /\ b[TopK] \in Valid \cup {Unfilled}
      /\ TopK \in 1 .. TopK /\ TopK \in Nat /\ Infinity \in Nat /\ Budget \in Nat
  BY BestKth, Sizes, EntryTypes
<1>2. CASE a[TopK] = Unfilled
  BY <1>1, <1>2 DEF Kth, Unfilled
<1>3. CASE a[TopK] # Unfilled
  <2> DEFINE v == a[TopK]
  <2>1. v \in Limits /\ AtMost(v, v)
    BY <1>1, <1>3, EntryTypes DEF AtMost
  <2>2. TopK <= Cardinality(Among(p, v))
    BY <1>1, <2>1 DEF BestOf, NearestBefore
  <2>3. Among(p, v) \in SUBSET Among(q, v)
    BY DEF Among
  <2>4. /\ IsFiniteSet(Among(q, v)) /\ Cardinality(Among(q, v)) \in Nat
        /\ Cardinality(Among(p, v)) \in Nat
    BY <1>1, AmongFinite
  <2>5. Cardinality(Among(p, v)) <= Cardinality(Among(q, v))
    BY <2>3, <2>4, FS_Subset
  <2>6. TopK <= Cardinality(Among(q, v))
    BY <1>1, <2>2, <2>4, <2>5
  <2>7. AtMost(b[TopK], v)
    BY <1>1, <2>1, <2>6 DEF BestOf, NearestBefore
  <2>8. b[TopK] = v \/ EntryLess(b[TopK], v)
    BY <2>7 DEF AtMost
  <2>9. b[TopK].distance = v.distance \/ b[TopK].distance < v.distance
    BY <2>8 DEF EntryLess
  <2> QED
    BY <1>1, <2>9 DEF Kth
<1> QED
  BY <1>2, <1>3

(* What a merge does to any search.                                        *)
LEMMA MergeFacts ==
  ASSUME RerankInvariant, MergeWindow
  PROVE  /\ UNCHANGED request /\ replay' = replay /\ recorded' = recorded
         /\ OfRequest /\ Progress /\ BestOf(best, begin) /\ OnSchedule /\ StableMeans /\ Recorded
         /\ begin < Budget /\ ~stop /\ begin' = RankEnd /\ pc' = "read" /\ pc = "merge"
         /\ RankEnd \in begin .. Budget /\ RankEnd \in Nat /\ begin \in Nat
         /\ OfRequest' /\ BestOf(best, begin)'
         /\ Kth(best)' \in 0 .. Infinity /\ Kth(best)' <= Kth(best) /\ Kth(best) \in 0 .. Infinity
         /\ KthOfPrefix(begin) = Kth(best)
         /\ stop' \in BOOLEAN /\ stopPrefix' = IF stop' THEN RankEnd ELSE stopPrefix
         /\ next' = IF UseSchedule /\ ~stop' THEN NextPrefix(stage') ELSE next
<1>1. /\ UNCHANGED request /\ replay' = replay /\ recorded' = recorded
      /\ best' = MergedBest /\ begin' = RankEnd /\ pc' = "read" /\ pc = "merge"
      /\ stopPrefix' = IF stop' THEN RankEnd ELSE stopPrefix
      /\ next' = IF UseSchedule /\ ~stop' THEN NextPrefix(stage') ELSE next
  BY DEF MergeWindow
<1>2. /\ OfRequest /\ Progress /\ BestOf(best, begin) /\ WindowRead
      /\ OnSchedule /\ StableMeans /\ Recorded
  BY DEF RerankInvariant
<1>3. begin < Budget /\ ~stop /\ begin \in 0 .. Budget /\ stop \in BOOLEAN
  BY <1>1, <1>2 DEF Progress
<1>4. RankEnd \in begin .. Budget
  BY <1>2, <1>3, WindowAhead
<1>5. Budget \in Nat /\ begin \in Nat /\ RankEnd \in 0 .. Budget /\ begin <= RankEnd
  BY <1>2, <1>3, <1>4, Sizes
<1>6. PICK p : p = RankEnd
  OBVIOUS
<1>7. PICK b : b = MergedBest
  OBVIOUS
<1>8. BestOf(b, p)
  BY <1>1, <1>2, <1>4, <1>6, <1>7, MergeKeeps
<1>9. BestOf(best, begin)'
  BY <1>1, <1>6, <1>7, <1>8, BestMoves
<1>10. Kth(b) <= Kth(best) /\ Kth(b) \in 0 .. Infinity /\ Kth(best) \in 0 .. Infinity
       /\ KthOfPrefix(begin) = Kth(best)
  BY <1>2, <1>3, <1>5, <1>6, <1>8, KthShrinks, BestKth
<1>11. Kth(best)' = Kth(b)
  BY <1>1, <1>7 DEF Kth
<1>12. stop' \in BOOLEAN
  <2>1. Checkpoint \/ ReplayStop \/ EarlyStop \/ NoStopRule
    BY DEF MergeWindow
  <2>2. CASE Checkpoint
    BY <2>2 DEF Checkpoint
  <2>3. CASE ReplayStop
    <3>1. ReplayReached \in BOOLEAN
      BY DEF ReplayReached
    <3> QED
      BY <2>3, <3>1, Zenon DEF ReplayStop
  <2>4. CASE EarlyStop
    <3>1. (stable' >= options.patience) \in BOOLEAN
      OBVIOUS
    <3> QED
      BY <2>4, <3>1, Zenon DEF EarlyStop
  <2>5. CASE NoStopRule
    BY <1>3, <2>5 DEF NoStopRule
  <2> QED
    BY <2>1, <2>2, <2>3, <2>4, <2>5
<1>13. OfRequest'
  BY <1>1, <1>2, SameRequest
<1> QED
  BY <1>1, <1>2, <1>3, <1>4, <1>5, <1>9, <1>10, <1>11, <1>12, <1>13
-----------------------------------------------------------------------------
(* The stages passed are those the window that was merged reached.         *)
LEMMA StageMoves ==
  ASSUME RerankInvariant, MergeWindow
  PROVE  /\ stage' \in Nat
         /\ UseSchedule =>
              /\ stage' \in FirstStage .. NumStages
              /\ \A i \in 1 .. stage' : Stages[i] <= RankEnd
              /\ stage' < NumStages => RankEnd <= Stages[stage' + 1]
<1>1. /\ OfRequest /\ Progress /\ OnSchedule /\ begin < Budget /\ ~stop
      /\ RankEnd \in Nat /\ stage \in Nat
  BY MergeFacts DEF Progress
<1>2. UseSchedule =>
        /\ stage \in FirstStage .. NumStages
        /\ \A i \in 1 .. stage : Stages[i] <= RankEnd
        /\ stage < NumStages => RankEnd <= Stages[stage + 1]
  BY <1>1, WindowAhead
<1>3. /\ NumStages \in Nat /\ Passed(RankEnd) \in 0 .. NumStages
      /\ \A i \in 1 .. NumStages : Stages[i] \in 1 .. Budget
      /\ \A i \in 1 .. NumStages : i <= Passed(RankEnd) <=> Stages[i] <= RankEnd
      /\ \A i, j \in 1 .. NumStages : i < j => Stages[i] <= Stages[j]
      /\ FirstStage \in Nat /\ Budget \in Nat
  BY <1>1, PassedStages, RequestTypes, FirstStageType, Sizes
<1>4. Checkpoint \/ ReplayStop \/ EarlyStop \/ NoStopRule
  BY DEF MergeWindow
<1>5. CASE stage' = stage
  BY <1>1, <1>2, <1>5
<1>6. CASE Checkpoint
  <2>1. stage' = stage + 1 /\ UseSchedule /\ stage < NumStages /\ RankEnd >= Stages[stage + 1]
    BY <1>6 DEF Checkpoint, CheckpointDue, Evaluate
  <2>2. stage + 1 \in 1 .. NumStages /\ stage + 1 \in FirstStage .. NumStages
    BY <1>1, <1>2, <1>3, <2>1
  <2>3. RankEnd = Stages[stage + 1]
    BY <1>1, <1>2, <1>3, <2>1, <2>2
  <2>4. ASSUME NEW i \in 1 .. stage + 1 PROVE Stages[i] <= RankEnd
    <3>1. i \in 1 .. stage \/ i = stage + 1
      BY <1>1
    <3> QED
      BY <1>1, <1>2, <2>1, <2>3, <3>1
  <2>5. ASSUME stage + 1 < NumStages PROVE RankEnd <= Stages[(stage + 1) + 1]
    <3>1. (stage + 1) + 1 \in 1 .. NumStages /\ stage + 1 < (stage + 1) + 1
      BY <1>1, <1>3, <2>5
    <3> QED
      BY <1>3, <2>2, <2>3, <3>1
  <2> QED
    BY <1>1, <2>1, <2>2, <2>4, <2>5
<1>7. CASE ReplayStop
  <2>1. CASE Passed(RankEnd) > stage
    <3>1. stage' = Passed(RankEnd)
      BY <1>7, <2>1 DEF ReplayStop
    <3> DEFINE s == Passed(RankEnd)
    <3> HIDE DEF s
    <3>2. s \in 0 .. NumStages /\ s > stage /\ stage' = s
          /\ \A i \in 1 .. NumStages : i <= s <=> Stages[i] <= RankEnd
      BY <1>3, <2>1, <3>1 DEF s
    <3>3. UseSchedule => s \in FirstStage .. NumStages
      BY <1>1, <1>2, <1>3, <3>2
    <3>4. \A i \in 1 .. s : Stages[i] <= RankEnd
      <4> SUFFICES ASSUME NEW i \in 1 .. s PROVE Stages[i] <= RankEnd
        OBVIOUS
      <4>1. i \in 1 .. NumStages /\ i <= s
        BY <1>3, <3>2
      <4> QED
        BY <3>2, <4>1
    <3>5. ASSUME s < NumStages PROVE RankEnd <= Stages[s + 1]
      <4>1. s + 1 \in 1 .. NumStages /\ ~ (s + 1 <= s)
        BY <1>3, <3>2, <3>5
      <4>2. ~ (Stages[s + 1] <= RankEnd) /\ Stages[s + 1] \in 1 .. Budget
        BY <1>3, <3>2, <4>1
      <4> QED
        BY <1>1, <1>3, <4>2
    <3>6. s \in Nat
      BY <3>2
    <3> QED
      BY <3>2, <3>3, <3>4, <3>5, <3>6
  <2>2. CASE ~ (Passed(RankEnd) > stage)
    <3>1. stage' = stage
      BY <1>7, <2>2 DEF ReplayStop
    <3> QED
      BY <1>5, <3>1
  <2> QED
    BY <2>1, <2>2
<1>8. CASE EarlyStop \/ NoStopRule
  <2>1. stage' = stage
    BY <1>8 DEF EarlyStop, NoStopRule
  <2> QED
    BY <1>5, <2>1
<1> QED
  BY <1>4, <1>6, <1>7, <1>8

(* After a merge the next window ends at the next stage, or a tile on.     *)
LEMMA ScheduleKeeps ==
  ASSUME RerankInvariant, MergeWindow
  PROVE  /\ OnSchedule'
         /\ next' \in 0 .. Budget
<1>1. /\ UNCHANGED request /\ OfRequest /\ Progress /\ OnSchedule
      /\ begin < Budget /\ ~stop /\ begin' = RankEnd /\ RankEnd \in Nat
      /\ RankEnd \in begin .. Budget /\ stop' \in BOOLEAN
      /\ next' = IF UseSchedule /\ ~stop' THEN NextPrefix(stage') ELSE next
  BY MergeFacts
<1>2. /\ 1 <= RankEnd
      /\ ~UseSchedule => OnGrid(RankEnd)
      /\ UseSchedule =>
           /\ FirstPrefix <= RankEnd
           /\ (\A i \in 1 .. NumStages : Stages[i] <= RankEnd) => OnGrid(RankEnd)
  BY <1>1, WindowAhead
<1>3. PICK p : p = RankEnd
  OBVIOUS
<1>4. PICK s : s = stage'
  OBVIOUS
<1>5. /\ s \in Nat
      /\ UseSchedule =>
           /\ s \in FirstStage .. NumStages
           /\ \A i \in 1 .. s : Stages[i] <= RankEnd
           /\ s < NumStages => RankEnd <= Stages[s + 1]
  BY <1>4, StageMoves
<1>6. OnGrid(begin)' <=> OnGrid(RankEnd)
  BY <1>1, <1>3, PlacesMove
<1>7. /\ Budget \in Nat /\ options.tile \in Nat /\ NumStages \in Nat
      /\ \A i \in 1 .. NumStages : Stages[i] \in 1 .. Budget
      /\ next \in 0 .. Budget
  BY <1>1, Sizes, RequestTypes, PassedStages DEF Progress
<1>8. NextPrefix(s) = LesserOf(Budget, IF s < NumStages THEN Stages[s + 1]
                                        ELSE RankEnd + options.tile)
  BY DEF NextPrefix
<1>9. ASSUME UseSchedule, s < NumStages
      PROVE  NextPrefix(s) = Stages[s + 1] /\ NextPrefix(s) \in 0 .. Budget
  <2>1. s + 1 \in 1 .. NumStages
    BY <1>5, <1>7, <1>9
  <2>2. Stages[s + 1] \in 1 .. Budget
    BY <1>7, <2>1
  <2> QED
    BY <1>7, <1>8, <1>9, <2>2 DEF LesserOf
<1>10. ASSUME UseSchedule, ~ (s < NumStages)
       PROVE  NextPrefix(s) = LesserOf(Budget, RankEnd + options.tile)
              /\ NextPrefix(s) \in 0 .. Budget
  BY <1>1, <1>7, <1>8, <1>10 DEF LesserOf
<1>11. next' \in 0 .. Budget
  <2>1. CASE UseSchedule /\ ~stop'
    <3>1. next' = NextPrefix(s)
      BY <1>1, <1>4, <2>1
    <3> QED
      BY <1>9, <1>10, <2>1, <3>1
  <2>2. CASE ~ (UseSchedule /\ ~stop')
    <3>1. next' = next
      BY <1>1, <2>2
    <3> QED
      BY <1>7, <3>1
  <2> QED
    BY <2>1, <2>2
<1>12. CASE ~UseSchedule
  BY <1>1, <1>2, <1>6, <1>11, <1>12, SameRequest DEF OnSchedule
<1>13. CASE UseSchedule
  <2>1. /\ UseSchedule' = UseSchedule /\ Stages' = Stages /\ NumStages' = NumStages
        /\ FirstStage' = FirstStage /\ FirstPrefix' = FirstPrefix /\ options' = options
    BY <1>1, SameRequest
  <2>2. FirstPrefix <= RankEnd /\ s \in FirstStage .. NumStages /\ RankEnd > 0
        /\ \A i \in 1 .. s : Stages[i] <= RankEnd
    BY <1>1, <1>2, <1>5, <1>13
  <2>3. ASSUME ~stop', s < NumStages
        PROVE  next' = Stages[s + 1] /\ RankEnd <= next'
    BY <1>1, <1>4, <1>5, <1>9, <1>13, <2>3
  <2>4. ASSUME ~stop', s = NumStages
        PROVE  OnGrid(RankEnd) /\ next' = LesserOf(Budget, RankEnd + options.tile)
    <3>1. next' = NextPrefix(s)
      BY <1>1, <1>4, <1>13, <2>4
    <3>2. NextPrefix(s) = LesserOf(Budget, RankEnd + options.tile)
      BY <1>7, <1>10, <1>13, <2>4
    <3>3. OnGrid(RankEnd)
      BY <1>2, <1>13, <2>2, <2>4
    <3> QED
      BY <3>1, <3>2, <3>3
  <2>5. LesserOf(Budget, begin + options.tile)' = LesserOf(Budget, RankEnd + options.tile)
    BY <1>1, <2>1 DEF LesserOf
  <2>6. begin' = RankEnd /\ stage' = s /\ ~ (begin' = 0)
    BY <1>1, <1>4, <2>2
  <2>7. UseSchedule'
    BY <1>13, <2>1
  <2> QED
    BY <1>6, <1>11, <2>1, <2>2, <2>3, <2>4, <2>5, <2>6, <2>7 DEF OnSchedule
<1> QED
  BY <1>11, <1>12, <1>13
-----------------------------------------------------------------------------
(* Without stages a merge of the search goes by the early stop or by none. *)
LEMMA PlainMerge ==
  ASSUME RerankInvariant, MergeWindow, replay = 0, ~UseSchedule
  PROVE  \/ EarlyStopDue /\ stable' = StableWindows /\ stop' = (stable' >= options.patience)
         \/ ~EarlyStopDue /\ stable' = stable /\ stop' = stop
<1>1. ~CheckpointDue
  BY DEF CheckpointDue, Evaluate
<1>2. Checkpoint \/ ReplayStop \/ EarlyStop \/ NoStopRule
  BY DEF MergeWindow
<1>3. ~Checkpoint /\ ~ReplayStop
  BY <1>1 DEF Checkpoint, ReplayStop
<1> QED
  BY <1>2, <1>3 DEF EarlyStop, NoStopRule

(* The stable windows are counted in the natural numbers.                  *)
LEMMA StableType ==
  ASSUME RerankInvariant, MergeWindow
  PROVE  stable' \in Nat
<1>1. stable \in Nat
  BY DEF RerankInvariant, Progress
<1>2. stable' = stable \/ stable' = StableWindows
  BY DEF MergeWindow, Checkpoint, ReplayStop, EarlyStop, NoStopRule
<1> QED
  BY <1>1, <1>2 DEF StableWindows

(* A window counted as stable left the k-th distance where it was.         *)
LEMMA StableKeeps ==
  ASSUME RerankInvariant, MergeWindow
  PROVE  StableMeans'
<1>1. /\ UNCHANGED request /\ OfRequest /\ StableMeans /\ replay' = replay
      /\ begin < Budget /\ ~stop /\ begin' = RankEnd /\ RankEnd \in Nat /\ begin \in Nat
      /\ RankEnd \in begin .. Budget /\ stop' \in BOOLEAN /\ BestOf(best, begin)
      /\ Kth(best)' \in 0 .. Infinity /\ Kth(best)' <= Kth(best) /\ Kth(best) \in 0 .. Infinity
      /\ KthOfPrefix(begin) = Kth(best)
  BY MergeFacts
<1>2. CASE ~ (replay = 0 /\ ~UseSchedule)
  BY <1>1, <1>2, SameRequest DEF StableMeans
<1>3. CASE replay = 0 /\ ~UseSchedule
  <2> DEFINE t == options.tile
  <2>1. /\ options.patience \in Nat \ {0} /\ t \in Nat \ {0} /\ stable \in Nat
        /\ stable < options.patience /\ Budget \in Nat /\ Infinity \in Nat
        /\ options.min_prefix \in Nat
        /\ options' = options /\ UseSchedule' = UseSchedule /\ UseEarlyStop' = UseEarlyStop
    BY <1>1, <1>3, RequestTypes, SameRequest, Sizes, EntryTypes
       DEF StableMeans, RerankInvariant, Progress
  <2>2. RankEnd = LesserOf(Budget, begin + t)
    BY <1>3 DEF RankEnd
  <2>3. CASE EarlyStopDue /\ stable' = StableWindows /\ stop' = (stable' >= options.patience)
    <3>1. /\ UseEarlyStop /\ RankEnd >= options.min_prefix /\ Kth(best)' # Infinity
          /\ stable' = IF Kth(best)' < Kth(best) THEN 0 ELSE stable + 1
          /\ stop' <=> stable' >= options.patience
      BY <2>3 DEF EarlyStopDue, StableWindows, Kth
    <3>2. stable' \in Nat /\ stable' <= options.patience
          /\ (stop' => stable' = options.patience) /\ (~stop' => stable' < options.patience)
      BY <2>1, <3>1
    <3>3. ASSUME stable' > 0
          PROVE  /\ Kth(best)' = Kth(best) /\ stable' = stable + 1
                 /\ RankEnd < Budget =>
                      RankEnd >= stable' * t /\ KthOfPrefix(RankEnd - stable' * t) = Kth(best)
      <4>1. stable' = stable + 1 /\ Kth(best)' = Kth(best)
        BY <1>1, <2>1, <3>1, <3>3
      <4>2. (stable + 1) * t = stable * t + t /\ stable * t \in Nat
        BY <2>1, Multiples
      <4>3. ASSUME RankEnd < Budget PROVE RankEnd = begin + t
        <5> HIDE DEF t
        <5> QED
          BY <1>1, <2>1, <2>2, <4>3 DEF LesserOf
      <4>4. CASE stable = 0
        <5>1. (stable + 1) * t = t
          <6> HIDE DEF t
          <6> QED
            BY <2>1, <4>4
        <5>2. RankEnd < Budget => RankEnd >= t /\ RankEnd - t = begin
          <6> HIDE DEF t
          <6> QED
            BY <1>1, <2>1, <4>3
        <5> HIDE DEF t
        <5> QED
          BY <1>1, <4>1, <5>1, <5>2
      <4>5. CASE stable # 0
        <5>1. begin >= stable * t /\ KthOfPrefix(begin - stable * t) = Kth(best)
          BY <1>1, <1>3, <2>1, <4>5 DEF StableMeans
        <5>2. RankEnd < Budget =>
                RankEnd >= (stable + 1) * t /\ RankEnd - (stable + 1) * t = begin - stable * t
          <6> HIDE DEF t
          <6> QED
            BY <1>1, <2>1, <4>2, <4>3, <5>1
        <5> HIDE DEF t
        <5> QED
          BY <4>1, <5>1, <5>2
      <4> QED
        BY <4>4, <4>5
    <3>4. ASSUME stable' > 0, RankEnd < Budget
          PROVE  KthOfPrefix(begin - stable * options.tile)' = Kth(best)'
      <4>1. (begin - stable * options.tile)' = RankEnd - stable' * t
        BY <1>1, <2>1
      <4>2. PICK q : q = RankEnd - stable' * t
        OBVIOUS
      <4>3. KthOfPrefix(begin - stable * options.tile)' = KthOfPrefix(q)
        BY <1>1, <4>1, <4>2, SameRequest DEF KthOfPrefix
      <4> QED
        BY <3>3, <3>4, <4>2, <4>3
    <3> QED
      BY <1>1, <1>3, <2>1, <3>1, <3>2, <3>3, <3>4 DEF StableMeans
  <2>4. CASE ~EarlyStopDue /\ stable' = stable /\ stop' = stop
    <3>1. stable = 0
      <4> SUFFICES ASSUME stable > 0 PROVE FALSE
        BY <2>1
      <4>1. UseEarlyStop /\ begin >= options.min_prefix /\ Kth(best) # Infinity
        BY <1>3 , <1>1 DEF StableMeans
      <4>2. RankEnd >= options.min_prefix /\ Kth(best)' # Infinity
        BY <1>1, <2>1, <4>1
      <4>3. EarlyStopDue
        BY <4>1, <4>2 DEF EarlyStopDue, Kth
      <4> QED
        BY <2>4, <4>3
    <3>2. ~stop' /\ stable' = 0
      BY <1>1, <2>4, <3>1, Zenon
    <3> QED
      BY <2>1, <3>2 DEF StableMeans
  <2> QED
    BY <1>3, <2>3, <2>4, PlainMerge
<1> QED
  BY <1>2, <1>3

(* A replay goes on from window end to window end until it is at the       *)
(* prefix that was recorded, which is one.                                 *)
LEMMA RecordKeeps ==
  ASSUME RerankInvariant, MergeWindow
  PROVE  Recorded'
<1>1. /\ UNCHANGED request /\ OfRequest /\ Progress /\ OnSchedule /\ Recorded
      /\ replay' = replay /\ recorded' = recorded
      /\ begin < Budget /\ ~stop /\ begin' = RankEnd /\ RankEnd \in Nat /\ begin \in Nat
      /\ RankEnd \in begin .. Budget /\ stop' \in BOOLEAN /\ pc' = "read"
  BY MergeFacts
<1>2. CASE replay = 0
  BY <1>1, <1>2 DEF Recorded
<1>3. CASE replay # 0
  <2>1. /\ replay = recorded.prefix /\ TopK <= replay /\ begin < replay
        /\ recorded.prefix = 0 \/ WindowEnd(recorded.prefix)
        /\ recorded.prefix \in 0 .. Budget
    BY <1>1, <1>3 DEF Recorded
  <2>2. WindowEnd(replay) /\ replay \in Nat
    BY <1>1, <1>3, <2>1, Sizes
  <2>3. RankEnd <= replay
    <3>1. \A p : WindowEnd(p) /\ begin < p => RankEnd <= p
      BY <1>1, WindowAhead
    <3> QED
      BY <2>1, <2>2, <3>1
  <2>4. stop' = ReplayReached
    <3>1. ~Checkpoint /\ ~EarlyStop /\ ~NoStopRule
      BY <1>3 DEF Checkpoint, CheckpointDue, Evaluate, EarlyStop, NoStopRule
    <3> QED
      BY <3>1 DEF MergeWindow, ReplayStop
  <2>5. stop' <=> RankEnd >= replay
    BY <2>4 DEF ReplayReached
  <2>6. IF stop' THEN RankEnd = replay ELSE RankEnd < replay
    BY <1>1, <2>2, <2>3, <2>5
  <2> QED
    BY <1>1, <1>3, <2>6, RecordStays DEF Recorded
<1> QED
  BY <1>2, <1>3

(* The step that merges a window keeps all of it.                          *)
LEMMA MergeStepKeeps ==
  ASSUME RerankInvariant, MergeWindow
  PROVE  RerankInvariant'
<1>1. /\ UNCHANGED request /\ OfRequest /\ Progress /\ OnSchedule
      /\ begin < Budget /\ ~stop /\ begin' = RankEnd /\ pc' = "read"
      /\ RankEnd \in begin .. Budget /\ RankEnd \in Nat /\ begin \in Nat
      /\ OfRequest' /\ BestOf(best, begin)' /\ stop' \in BOOLEAN
      /\ stopPrefix' = IF stop' THEN RankEnd ELSE stopPrefix
  BY MergeFacts
<1>2. OnSchedule' /\ next' \in 0 .. Budget
  BY ScheduleKeeps
<1>3. PICK p : p = RankEnd
  OBVIOUS
<1>4. WindowEnd(begin)'
  <2>1. WindowEnd(RankEnd)
    BY <1>1, WindowAhead
  <2> QED
    BY <1>1, <1>3, <2>1, PlacesMove
<1>5. Progress'
  <2>1. stopPrefix = Budget
    BY <1>1 DEF Progress
  <2>2. stopPrefix' = IF stop' THEN begin' ELSE Budget
    BY <1>1, <2>1
  <2>3. begin' \in 0 .. Budget /\ stage' \in Nat /\ stable' \in Nat
    BY <1>1, StageMoves, StableType, Sizes
  <2> QED
    BY <1>1, <1>2, <1>4, <2>2, <2>3 DEF Progress
<1>6. WindowRead'
  BY <1>1 DEF WindowRead
<1> QED
  BY <1>1, <1>2, <1>5, <1>6, StableKeeps, RecordKeeps DEF RerankInvariant
-----------------------------------------------------------------------------
(* The invariant of the rerank.                                            *)
LEMMA InvariantHolds == Spec => []RerankInvariant
<1>1. Init => RerankInvariant
  BY InitHolds
<1>2. RerankInvariant /\ [Next]_vars => RerankInvariant'
  <2> SUFFICES ASSUME RerankInvariant, [Next]_vars PROVE RerankInvariant'
    OBVIOUS
  <2>1. CASE ReadWindow
    BY <2>1, ReadKeeps
  <2>2. CASE MergeWindow
    BY <2>2, MergeStepKeeps
  <2>3. CASE Finish
    BY <2>3, FinishKeeps
  <2>4. CASE StartReplay
    BY <2>4, StartReplayKeeps
  <2>5. CASE UNCHANGED vars
    <3>1. /\ UNCHANGED request /\ UNCHANGED <<begin, best, stage, next, stable, stop>>
          /\ UNCHANGED <<pc, window, stopPrefix>> /\ UNCHANGED <<replay, recorded>>
          /\ UNCHANGED replay
      BY <2>5 DEF vars
    <3>2. /\ OfRequest /\ Progress /\ BestOf(best, begin) /\ WindowRead
          /\ OnSchedule /\ StableMeans /\ Recorded
      BY DEF RerankInvariant
    <3>3. /\ OfRequest' /\ BestOf(best, begin)' /\ OnSchedule' /\ StableMeans'
          /\ WindowEnd(begin)' <=> WindowEnd(begin)
      BY <3>1, <3>2, SearchStays
    <3>4. Progress'
      BY <3>1, <3>2, <3>3 DEF Progress
    <3>5. WindowRead'
      <4>1. RankEnd' = RankEnd
        BY <3>1, SameRequest DEF RankEnd, LesserOf
      <4>2. \A i : Kept(begin + i)' <=> Kept(begin + i)
        BY <3>1, SameRequest DEF Kept, Kth
      <4>3. \A i : Scored(Exact, list[begin + i])' = Scored(Exact, list[begin + i])
        BY <3>1, SameRequest DEF Scored, Unfilled
      <4> QED
        BY <3>1, <3>2, <4>1, <4>2, <4>3, SameRequest DEF WindowRead, Unfilled
    <3>6. Recorded'
      BY <3>1, <3>2, RecordStays DEF Recorded
    <3> QED
      BY <3>3, <3>4, <3>5, <3>6 DEF RerankInvariant
  <2> QED
    BY <2>1, <2>2, <2>3, <2>4, <2>5 DEF Next
<1> QED
  BY <1>1, <1>2, PTL DEF Spec

(* A query that stops early did not get a nearer k-th candidate in the     *)
(* last options.patience windows (the early stop's rule), whatever the     *)
(* list, the bounds and the window are.                                    *)
THEOREM EarlyStopsAreStable == Spec => []EarlyStopStable
<1>1. RerankInvariant => EarlyStopStable
  <2> SUFFICES ASSUME RerankInvariant, stop, replay = 0, ~UseSchedule
               PROVE  /\ stopPrefix >= options.min_prefix
                      /\ stopPrefix < Budget =>
                           KthOfPrefix(stopPrefix - options.patience * options.tile)
                             = KthOfPrefix(stopPrefix)
    BY DEF EarlyStopStable
  <2>1. OfRequest /\ Progress /\ StableMeans /\ BestOf(best, begin)
    BY DEF RerankInvariant
  <2>2. stopPrefix = begin /\ begin \in 0 .. Budget /\ options.patience \in Nat \ {0}
    BY <2>1, RequestTypes DEF Progress
  <2>3. stable = options.patience /\ stable > 0
    BY <2>1, <2>2 DEF StableMeans
  <2>4. /\ begin >= options.min_prefix
        /\ begin < Budget => KthOfPrefix(begin - stable * options.tile) = Kth(best)
    BY <2>1, <2>3 DEF StableMeans
  <2>5. KthOfPrefix(begin) = Kth(best)
    BY <2>1, <2>2, BestKth
  <2> QED
    BY <2>2, <2>3, <2>4, <2>5
<1> QED
  BY <1>1, InvariantHolds, PTL

(* A replay ends at the prefix its recording ended at, with the same       *)
(* answer.                                                                 *)
THEOREM ReplaysReproduce == Spec => []ReplayReproduces
<1>1. RerankInvariant => ReplayReproduces
  <2> SUFFICES ASSUME RerankInvariant, pc = "done", replay # 0
               PROVE  begin = recorded.prefix /\ Answer = recorded.answer
    BY DEF ReplayReproduces
  <2>1. OfRequest /\ Progress /\ Recorded /\ BestOf(best, begin)
    BY DEF RerankInvariant
  <2>2. /\ options.record /\ replay = recorded.prefix /\ replay <= Budget
        /\ IF stop THEN begin = replay ELSE begin < replay
        /\ AnswerOf(recorded.prefix, recorded.answer) /\ recorded.prefix \in 0 .. Budget
    BY <2>1 DEF Recorded
  <2>3. begin \in 0 .. Budget /\ (begin = Budget \/ stop) /\ Budget \in Nat
    BY <2>1, Sizes DEF Progress
  <2>4. begin = recorded.prefix /\ begin \in Nat
    BY <2>2, <2>3
  <2>5. ResultTopN = TopK /\ TopK \in Nat \ {0}
    BY <2>1, <2>2, RequestTypes, Sizes
  <2>6. PICK entries \in [1 .. ResultTopN -> Valid \cup {Unfilled}] :
          BestOf(entries, begin) /\ recorded.answer = Prefix(WithNodes(entries), TopK)
    BY <2>2, <2>4 DEF AnswerOf
  <2>7. best \in [1 .. ResultTopN -> Valid \cup {Unfilled}]
        /\ NearestBefore(best, begin) /\ NearestBefore(entries, begin)
    BY <2>1, <2>6 DEF BestOf
  <2>8. \A r \in 1 .. TopK : best[r] = entries[r]
    <3> SUFFICES ASSUME NEW r \in 1 .. TopK PROVE best[r] = entries[r]
      OBVIOUS
    <3>1. best[r] \in Valid \cup {Unfilled} /\ entries[r] \in Valid \cup {Unfilled}
      BY <2>5, <2>6, <2>7
    <3>2. OfRequest /\ begin \in Nat
      BY <2>1, <2>4
    <3>3. \A p \in Nat : \A a, b :
            /\ NearestBefore(a, p) /\ NearestBefore(b, p)
            /\ a[r] \in Valid \cup {Unfilled} /\ b[r] \in Valid \cup {Unfilled}
            => a[r] = b[r]
      BY <3>2, NearestUnique
    <3> QED
      BY <2>7, <3>1, <3>2, <3>3
  <2>9. best = entries
    BY <2>5, <2>6, <2>7, <2>8
  <2> QED
    BY <2>4, <2>6, <2>9 DEF Answer
<1> QED
  BY <1>1, InvariantHolds, PTL

(* What a checkpoint saw is the head of the window that is read next.      *)
THEOREM ProbedIsRead == Spec => ProbedIsReadNext
<1>1. RerankInvariant /\ [Next]_vars =>
        [(pc = "merge" /\ Evaluate /\ stage' # stage /\ ~stop' /\ begin' < Budget)
           => probe' = HeadOfWindow']_vars
  <2> SUFFICES ASSUME RerankInvariant, Next,
                      pc = "merge", Evaluate, stage' # stage, ~stop', begin' < Budget
               PROVE  probe' = HeadOfWindow'
    BY Zenon
  <2>1. MergeWindow
    BY DEF Next, ReadWindow, Finish, StartReplay
  <2>2. Checkpoint
    BY <2>1 DEF MergeWindow, ReplayStop, EarlyStop, NoStopRule, Evaluate
  <2>3. /\ UNCHANGED request /\ OfRequest /\ begin' = RankEnd /\ RankEnd \in Nat
        /\ Kth(best)' \in 0 .. Infinity
        /\ next' = IF UseSchedule /\ ~stop' THEN NextPrefix(stage') ELSE next
    BY <2>1, MergeFacts
  <2>4. /\ UseSchedule /\ stage' = stage + 1 /\ probe' = Probed /\ Kth(best') # Infinity
    BY <2>2 DEF Checkpoint, CheckpointDue, Evaluate
  <2>5. next' = NextPrefix(stage + 1) /\ RankEnd' = next' /\ next' \in 0 .. Budget
    <3>1. UseSchedule'
      BY <2>3, <2>4, SameRequest
    <3> QED
      BY <2>1, <2>3, <2>4, <3>1, ScheduleKeeps DEF RankEnd
  <2> DEFINE end == LesserOf(next', RankEnd + HeadProbe)
             k == Kth(best')
  <2>6. HeadProbe \in Nat /\ Budget \in Nat /\ Infinity \in Nat
    BY <2>3, PersistentAssumption, Sizes, EntryTypes
  <2>7. end \in 0 .. Budget
    BY <2>3, <2>5, <2>6 DEF LesserOf
  <2>8. k \in 0 .. Infinity /\ k # Infinity
    BY <2>3, <2>4 DEF Kth
  <2>9. options.filter
    BY <2>3, <2>4, RequestTypes DEF UseSchedule, UseLearnedStop
  <2>10. ASSUME NEW i \in RankEnd + 1 .. end
         PROVE  lower[i] <= k <=> (list[i] # NoNode /\ Kept(i)')
    <3>1. i \in 1 .. Budget
      BY <2>3, <2>6, <2>7
    <3>2. list[i] = NoNode => lower[i] = Infinity
      BY <2>3, <3>1, RequestTypes
    <3>3. Kept(i)' <=> lower[i] <= k
      BY <2>3, <2>8, <2>9, SameRequest DEF Kept, Kth
    <3> QED
      BY <2>6, <2>8, <3>2, <3>3
  <2>11. probe' = [first |-> RankEnd, end |-> end,
                   live |-> {i \in RankEnd + 1 .. end : lower[i] <= k}]
    BY <2>4, <2>5 DEF Probed, Probe
  <2>12. HeadOfWindow' = [first |-> RankEnd, end |-> end,
                          live |-> {i \in RankEnd + 1 .. end : list[i] # NoNode /\ Kept(i)'}]
    <3>1. LesserOf(RankEnd, begin + HeadProbe)' = end
      BY <2>3, <2>5 DEF LesserOf
    <3> HIDE DEF end
    <3> QED
      BY <2>3, <3>1, SameRequest DEF HeadOfWindow
  <2>13. {i \in RankEnd + 1 .. end : lower[i] <= k}
           = {i \in RankEnd + 1 .. end : list[i] # NoNode /\ Kept(i)'}
    <3> HIDE DEF end, k
    <3> QED
      BY <2>10
  <2> QED
    BY <2>11, <2>12, <2>13
<1> QED
  BY <1>1, InvariantHolds, PTL DEF Spec, ProbedIsReadNext

(* What a query is answered from is the nearest of the candidates before   *)
(* the prefix it stopped at, and without a stop rule of all of them.       *)
THEOREM AnswersAreNearest ==
  Spec => [](/\ BestOf(best, begin)
             /\ pc = "done" /\ replay = 0 /\ ~UseEarlyStop /\ ~UseSchedule => begin = Budget)
<1>1. ASSUME RerankInvariant, pc = "done", replay = 0, ~UseEarlyStop, ~UseSchedule
      PROVE  begin = Budget
  <2>1. OfRequest /\ Progress /\ StableMeans
    BY <1>1 DEF RerankInvariant
  <2>2. options.patience \in Nat \ {0} /\ stable \in Nat
    BY <2>1, RequestTypes DEF Progress
  <2>3. stable = 0
    BY <1>1, <2>1, <2>2 DEF StableMeans
  <2>4. ~stop
    BY <1>1, <2>1, <2>2, <2>3 DEF StableMeans
  <2> QED
    BY <1>1, <2>1, <2>4 DEF Progress
<1>2. RerankInvariant =>
        /\ BestOf(best, begin)
        /\ pc = "done" /\ replay = 0 /\ ~UseEarlyStop /\ ~UseSchedule => begin = Budget
  BY <1>1 DEF RerankInvariant
<1> QED
  BY <1>2, InvariantHolds, PTL
-----------------------------------------------------------------------------
(* What the recording search leaves behind: nothing before its end, and    *)
(* then a prefix that is not empty.                                        *)
AnsweredOnce ==
  /\ stop => begin > 0
  /\ pc # "done" /\ replay = 0 => recorded = [prefix |-> 0, answer |-> <<>>]

(* A set of ranks that has every rank before one of its own is as long as  *)
(* it is large.                                                            *)
LEMMA InitialRanks ==
  ASSUME NEW n \in Nat, NEW K \in SUBSET (1 .. n),
         \A i, j \in 1 .. n : i <= j /\ j \in K => i \in K
  PROVE  Cardinality(K) \in 0 .. n /\ \A r \in 1 .. n : r \in K <=> r <= Cardinality(K)
<1>1. IsFiniteSet(1 .. n) /\ Cardinality(1 .. n) = n
  BY FS_Interval
<1>2. IsFiniteSet(K) /\ Cardinality(K) \in Nat /\ Cardinality(K) <= n
  BY <1>1, FS_Subset, FS_CardinalityType
<1>3. ASSUME NEW r \in 1 .. n, r \in K PROVE r <= Cardinality(K)
  <2>1. 1 .. r \in SUBSET K
    BY <1>3
  <2>2. Cardinality(1 .. r) = r
    BY FS_Interval
  <2>3. Cardinality(1 .. r) <= Cardinality(K)
    BY <1>2, <2>1, FS_Subset
  <2> QED
    BY <2>2, <2>3
<1>4. ASSUME NEW r \in 1 .. n, r \notin K PROVE Cardinality(K) < r
  <2>1. r - 1 \in Nat /\ r \in Nat
    OBVIOUS
  <2>2. IsFiniteSet(1 .. r - 1) /\ Cardinality(1 .. r - 1) = r - 1
    BY <2>1, FS_Interval
  <2>3. K \in SUBSET (1 .. r - 1)
    <3> SUFFICES ASSUME NEW k \in K PROVE k \in 1 .. r - 1
      OBVIOUS
    <3>1. ~ (r <= k)
      BY <1>4
    <3> QED
      BY <3>1
  <2>4. Cardinality(K) <= Cardinality(1 .. r - 1)
    BY <2>2, <2>3, FS_Subset
  <2> QED
    BY <1>2, <2>1, <2>2, <2>4
<1>5. Cardinality(K) \in 0 .. n
  BY <1>2
<1>6. ASSUME NEW r \in 1 .. n PROVE r \in K <=> r <= Cardinality(K)
  BY <1>2, <1>3, <1>4, <1>6
<1> QED
  BY <1>5, <1>6

(* The beginning of an array of entries.                                   *)
LEMMA Beginning ==
  ASSUME NEW S, NEW n \in Nat, NEW e \in [1 .. n -> S], NEW c \in 0 .. n
  PROVE  /\ SubSeq(e, 1, c) = [i \in 1 .. c |-> e[i]]
         /\ SubSeq(e, 1, c) \in [1 .. c -> S] /\ Len(e) = n /\ Len(SubSeq(e, 1, c)) = c
<1>1. e \in Seq(S) /\ Len(e) = n
  OBVIOUS
<1>2. c \in Nat /\ c \in 1 - 1 .. Len(e) /\ 1 \in 1 .. Len(e) + 1
  BY <1>1
<1>3. /\ SubSeq(e, 1, c) \in Seq(S) /\ Len(SubSeq(e, 1, c)) = c - 1 + 1
      /\ \A i \in 1 .. c - 1 + 1 : SubSeq(e, 1, c)[i] = e[1 + i - 1]
  BY <1>1, <1>2, SubSeqProperties
<1>4. c - 1 + 1 = c /\ \A i \in 1 .. c : 1 + i - 1 = i
  BY <1>2
<1> DEFINE t == SubSeq(e, 1, c)
<1>5. /\ t \in Seq(S) /\ Len(t) = c /\ \A i \in 1 .. c : t[i] = e[i]
  <2>1. t \in Seq(S) /\ Len(t) = c - 1 + 1
    BY <1>3
  <2>2. ASSUME NEW i \in 1 .. c PROVE t[i] = e[i]
    <3>1. i \in 1 .. c - 1 + 1 /\ 1 + i - 1 = i
      BY <1>4
    <3>2. t[i] = e[1 + i - 1]
      BY <1>3, <3>1
    <3> QED
      BY <3>1, <3>2
  <2> HIDE DEF t
  <2> QED
    BY <1>4, <2>1, <2>2
<1> HIDE DEF t
<1>6. t \in [1 .. c -> S]
  BY <1>5
<1>7. t = [i \in 1 .. c |-> e[i]]
  BY <1>5, <1>6
<1> QED
  BY <1>1, <1>5, <1>6, <1>7 DEF t

(* The first top_k of the first c entries.                                 *)
LEMMA PrefixOfBeginning ==
  ASSUME NEW n \in Nat, NEW e \in [1 .. n -> Valid \cup {Unfilled}], NEW c \in 0 .. n
  PROVE  Prefix(SubSeq(e, 1, c), TopK) = [i \in 1 .. LesserOf(TopK, c) |-> e[i]]
<1> DEFINE t == SubSeq(e, 1, c)
           S == Valid \cup {Unfilled}
           k == TopK
<1>1. t = [i \in 1 .. c |-> e[i]] /\ t \in [1 .. c -> S] /\ Len(t) = c /\ c \in Nat
  <2>1. e \in [1 .. n -> S] /\ c \in Nat
    OBVIOUS
  <2> HIDE DEF S
  <2>2. t = [i \in 1 .. c |-> e[i]] /\ t \in [1 .. c -> S] /\ Len(t) = c
    BY <2>1, Beginning
  <2> QED
    BY <2>1, <2>2
<1>2. LesserOf(k, c) \in 0 .. c
  BY <1>1, OrderAssumption DEF LesserOf
<1> HIDE DEF t, k, S
<1>3. SubSeq(t, 1, LesserOf(k, c)) = [i \in 1 .. LesserOf(k, c) |-> t[i]]
  BY <1>1, <1>2, Beginning
<1>4. \A i \in 1 .. LesserOf(k, c) : t[i] = e[i]
  BY <1>1, <1>2
<1>5. Prefix(t, k) = [i \in 1 .. LesserOf(k, c) |-> e[i]]
  BY <1>1, <1>3, <1>4 DEF Prefix
<1> QED
  BY <1>5 DEF t, k

(* At every rank of the entries in order is one of them, and it is at most *)
(* v exactly where as many of the entries are.                             *)
LEMMA SortedRanks ==
  ASSUME NEW n \in Nat, NEW entries \in [1 .. n -> Entry], NEW r \in 1 .. n
  PROVE  /\ \E i \in 1 .. n : Sorted(entries)[r] = entries[i]
         /\ \A v \in Entry : AtMost(Sorted(entries)[r], v) <=> r <= Cardinality(Within(entries, v))
<1> DEFINE Before(i) == {j \in 1 .. n : EntryLess(entries[j], entries[i])}
           UpTo(i)   == {j \in 1 .. n : ~EntryLess(entries[i], entries[j])}
           Holds(i)  == Cardinality(Before(i)) < r /\ Cardinality(UpTo(i)) >= r
<1>1. IsFiniteSet(1 .. n) /\ DOMAIN entries = 1 .. n /\ r \in Nat
  BY FS_Interval
<1>2. \A j \in 1 .. n : entries[j] \in Entry
  OBVIOUS
<1>3. ASSUME NEW T \in SUBSET (1 .. n) PROVE IsFiniteSet(T) /\ Cardinality(T) \in Nat
  BY <1>1, FS_Subset, FS_CardinalityType
<1>4. \E i \in 1 .. n : Holds(i)
  <2>1. PICK i \in 1 .. n : Place(entries, i) = r
    BY PlacesTaken
  <2> DEFINE Ahead == {j \in 1 .. n : \/ EntryLess(entries[j], entries[i])
                                      \/ entries[j] = entries[i] /\ j <= i}
  <2>2. Cardinality(Ahead) = r
    BY <1>1, <2>1 DEF Place
  <2>3. Before(i) \in SUBSET Ahead /\ i \in Ahead /\ i \notin Before(i)
    <3>1. ~EntryLess(entries[i], entries[i])
      BY <1>2, EntryOrder
    <3> QED
      BY <3>1
  <2>4. Ahead \in SUBSET UpTo(i)
    <3> SUFFICES ASSUME NEW j \in Ahead PROVE ~EntryLess(entries[i], entries[j])
      OBVIOUS
    <3>1. j \in 1 .. n /\ (EntryLess(entries[j], entries[i]) \/ entries[j] = entries[i])
      OBVIOUS
    <3>2. entries[i] \in Entry /\ entries[j] \in Entry
      BY <1>2, <3>1
    <3> QED
      BY <3>1, <3>2, EntryOrder
  <2>5. /\ Ahead \in SUBSET (1 .. n) /\ UpTo(i) \in SUBSET (1 .. n)
        /\ Before(i) \in SUBSET (1 .. n)
    OBVIOUS
  <2>6. /\ IsFiniteSet(Ahead) /\ IsFiniteSet(UpTo(i)) /\ Cardinality(Before(i)) \in Nat
        /\ Cardinality(UpTo(i)) \in Nat
    BY <1>3, <2>5
  <2> HIDE DEF Before, UpTo, Ahead
  <2>7. Cardinality(Before(i)) <= Cardinality(Ahead) /\ Cardinality(Before(i)) # Cardinality(Ahead)
    BY <2>3, <2>6, FS_Subset
  <2>8. Cardinality(Ahead) <= Cardinality(UpTo(i))
    BY <2>4, <2>6, FS_Subset
  <2> QED
    BY <1>1, <2>2, <2>6, <2>7, <2>8
<1>5. PICK i \in 1 .. n : Holds(i) /\ Sorted(entries)[r] = entries[i]
  <2>1. Sorted(entries)[r] = entries[CHOOSE i \in 1 .. n : Holds(i)]
    BY <1>1 DEF Sorted
  <2> HIDE DEF Holds
  <2> QED
    BY <1>4, <2>1
<1>6. ASSUME NEW v \in Entry PROVE AtMost(entries[i], v) <=> r <= Cardinality(Within(entries, v))
  <2> DEFINE Near == {j \in 1 .. n : AtMost(entries[j], v)}
  <2>1. Within(entries, v) = Near
    BY <1>1 DEF Within
  <2>2. Near \in SUBSET (1 .. n) /\ Before(i) \in SUBSET (1 .. n) /\ UpTo(i) \in SUBSET (1 .. n)
    OBVIOUS
  <2>3. /\ IsFiniteSet(Near) /\ Cardinality(Near) \in Nat
        /\ IsFiniteSet(Before(i)) /\ Cardinality(Before(i)) \in Nat
        /\ Cardinality(UpTo(i)) \in Nat
    BY <1>3, <2>2
  <2>4. Cardinality(Before(i)) < r /\ Cardinality(UpTo(i)) >= r
    BY <1>5
  <2>5. CASE AtMost(entries[i], v)
    <3>1. UpTo(i) \in SUBSET Near
      <4> SUFFICES ASSUME NEW j \in UpTo(i) PROVE AtMost(entries[j], v)
        OBVIOUS
      <4>1. entries[i] \in Entry /\ entries[j] \in Entry /\ ~EntryLess(entries[i], entries[j])
        BY <1>2
      <4> QED
        BY <2>5, <4>1, EntryOrder DEF AtMost
    <3> HIDE DEF UpTo, Near, Before
    <3>2. Cardinality(UpTo(i)) <= Cardinality(Near)
      BY <2>3, <3>1, FS_Subset
    <3> QED
      BY <1>1, <2>1, <2>3, <2>4, <2>5, <3>2
  <2>6. CASE ~AtMost(entries[i], v)
    <3>1. Near \in SUBSET Before(i)
      <4> SUFFICES ASSUME NEW j \in Near PROVE EntryLess(entries[j], entries[i])
        OBVIOUS
      <4>1. entries[i] \in Entry /\ entries[j] \in Entry /\ AtMost(entries[j], v)
        BY <1>2
      <4> QED
        BY <2>6, <4>1, EntryOrder DEF AtMost
    <3> HIDE DEF UpTo, Near, Before
    <3>2. Cardinality(Near) <= Cardinality(Before(i))
      BY <2>3, <3>1, FS_Subset
    <3> QED
      BY <1>1, <2>1, <2>3, <2>4, <2>6, <3>2
  <2> QED
    BY <2>5, <2>6
<1> HIDE DEF Holds
<1>7. \A v \in Entry : AtMost(Sorted(entries)[r], v) <=> r <= Cardinality(Within(entries, v))
  BY <1>5, <1>6
<1> QED
  BY <1>5, <1>7

LEMMA SortedInOrder ==
  ASSUME NEW n \in Nat, NEW entries \in [1 .. n -> Entry],
         NEW i \in 1 .. n, NEW j \in 1 .. n, i <= j
  PROVE  AtMost(Sorted(entries)[i], Sorted(entries)[j])
<1> DEFINE v == Sorted(entries)[j]
<1>1. v \in Entry
  <2>1. \E k \in 1 .. n : v = entries[k]
    BY SortedRanks
  <2> QED
    BY <2>1
<1> HIDE DEF v
<1>2. j <= Cardinality(Within(entries, v))
  BY <1>1, SortedRanks DEF AtMost, v
<1>3. Cardinality(Within(entries, v)) \in Nat
  <2>1. IsFiniteSet(1 .. n) /\ Within(entries, v) \in SUBSET (1 .. n)
    BY FS_Interval DEF Within
  <2> QED
    BY <2>1, FS_Subset, FS_CardinalityType
<1>4. i <= Cardinality(Within(entries, v))
  BY <1>2, <1>3
<1> QED
  BY <1>1, <1>4, SortedRanks DEF v

(* Where the entries with a node come first, these are what is selected.   *)
LEMMA SelectsLeading ==
  ASSUME NEW n \in Nat, NEW entries \in [1 .. n -> Valid \cup {Unfilled}], NEW c \in 0 .. n,
         \A i \in 1 .. n : HasNode(entries[i]) <=> i <= c
  PROVE  WithNodes(entries) = SubSeq(entries, 1, c)
<1>1. DOMAIN entries = 1 .. n /\ c \in Nat /\ c <= n
  OBVIOUS
<1>2. {i \in DOMAIN entries : HasNode(entries[i])} = 1 .. c
  BY <1>1
<1>3. Cardinality(1 .. c) = c
  BY <1>1, FS_Interval
<1>4. WithNodes(entries)
        = [k \in 1 .. c |-> entries[CHOOSE i \in 1 .. c : Cardinality({j \in 1 .. c : j <= i}) = k]]
  <2> DEFINE F == {i \in DOMAIN entries : HasNode(entries[i])}
             Taken(G) == [k \in 1 .. Cardinality(G) |->
                            entries[CHOOSE i \in G : Cardinality({j \in G : j <= i}) = k]]
  <2>1. WithNodes(entries) = Taken(F)
    BY DEF WithNodes
  <2>2. F = 1 .. c
    BY <1>2
  <2> HIDE DEF F, Taken
  <2>3. WithNodes(entries) = Taken(1 .. c)
    BY <2>1, <2>2
  <2> QED
    BY <1>3, <2>3 DEF Taken
<1>5. ASSUME NEW k \in 1 .. c
      PROVE  entries[CHOOSE i \in 1 .. c : Cardinality({j \in 1 .. c : j <= i}) = k] = entries[k]
  <2>1. ASSUME NEW i \in 1 .. c PROVE Cardinality({j \in 1 .. c : j <= i}) = i
    <3>1. {j \in 1 .. c : j <= i} = 1 .. i /\ i \in Nat
      BY <1>1
    <3>2. Cardinality(1 .. i) = i
      BY <3>1, FS_Interval
    <3> QED
      BY <3>1, <3>2
  <2>2. \A i \in 1 .. c : Cardinality({j \in 1 .. c : j <= i}) = k <=> i = k
    BY <2>1
  <2> DEFINE P(i) == Cardinality({j \in 1 .. c : j <= i}) = k
  <2>3. \A i \in 1 .. c : P(i) <=> i = k
    BY <2>2
  <2> HIDE DEF P
  <2>4. (CHOOSE i \in 1 .. c : P(i)) = k
    BY <2>3
  <2> QED
    BY <2>4 DEF P
<1>6. WithNodes(entries) = [k \in 1 .. c |-> entries[k]]
  BY <1>4, <1>5
<1>7. SubSeq(entries, 1, c) = [k \in 1 .. c |-> entries[k]]
  <2> DEFINE S == Valid \cup {Unfilled}
  <2>1. n \in Nat /\ entries \in [1 .. n -> S] /\ c \in 0 .. n
    OBVIOUS
  <2> HIDE DEF S
  <2> QED
    BY <2>1, Beginning
<1> QED
  BY <1>6, <1>7


(* The sorted candidates of a prefix: their first entries are its nearest. *)
LEMMA SortedNearest ==
  ASSUME OfRequest, NEW m \in 0 .. Budget, NEW s,
         s = Sorted([i \in 1 .. m |-> Scored(Exact, list[i])])
  PROVE  /\ s \in [1 .. m -> Valid \cup {Unfilled}]
         /\ \A i, j \in 1 .. m : i <= j => AtMost(s[i], s[j])
         /\ \A v \in Limits, r \in 1 .. m :
              AtMost(s[r], v) <=> r <= Cardinality(Among(m, v))
<1> DEFINE a == [i \in 1 .. m |-> Scored(Exact, list[i])]
<1>1. m \in Nat /\ m <= Budget /\ Budget \in Nat /\ list \in [1 .. Budget -> NodeOrNone]
  BY Sizes, RequestTypes
<1>2. a \in [1 .. m -> Valid \cup {Unfilled}]
  <2> SUFFICES ASSUME NEW i \in 1 .. m PROVE Scored(Exact, list[i]) \in Valid \cup {Unfilled}
    OBVIOUS
  <2>1. i \in 1 .. Budget
    BY <1>1
  <2> QED
    BY <1>1, <2>1, EntryTypes
<1>3. a \in [1 .. m -> Entry]
  BY <1>2, EntryTypes
<1>4. /\ s = Sorted(a) /\ s = [r \in 1 .. m |-> s[r]]
      /\ \A v : Within(a, v) = Among(m, v)
  <2>1. s = Sorted(a) /\ DOMAIN a = 1 .. m
    OBVIOUS
  <2>2. ASSUME NEW v PROVE Within(a, v) = Among(m, v)
    BY DEF Within, Among
  <2> HIDE DEF a
  <2>3. s = [r \in 1 .. m |-> s[r]]
    BY <2>1 DEF Sorted
  <2> QED
    BY <2>1, <2>2, <2>3
<1> HIDE DEF a
<1>5. ASSUME NEW r \in 1 .. m
      PROVE  /\ s[r] \in Valid \cup {Unfilled}
             /\ \A v \in Limits : AtMost(s[r], v) <=> r <= Cardinality(Among(m, v))
  <2>1. /\ \E i \in 1 .. m : s[r] = a[i]
        /\ \A v \in Entry : AtMost(s[r], v) <=> r <= Cardinality(Within(a, v))
    <3>1. /\ \E i \in 1 .. m : Sorted(a)[r] = a[i]
          /\ \A v \in Entry : AtMost(Sorted(a)[r], v) <=> r <= Cardinality(Within(a, v))
      BY <1>1, <1>3, SortedRanks, Zenon
    <3>2. Sorted(a)[r] = s[r]
      BY <1>4
    <3> QED
      BY <3>1, <3>2
  <2>2. s[r] \in Valid \cup {Unfilled}
    BY <1>2, <2>1
  <2>3. \A v \in Limits : AtMost(s[r], v) <=> r <= Cardinality(Among(m, v))
    BY <1>4, <2>1, EntryTypes
  <2> QED
    BY <2>2, <2>3
<1>6. s \in [1 .. m -> Valid \cup {Unfilled}]
  BY <1>4, <1>5
<1>7. ASSUME NEW i \in 1 .. m, NEW j \in 1 .. m, i <= j PROVE AtMost(s[i], s[j])
  BY <1>1, <1>3, <1>4, <1>7, SortedInOrder
<1>8. \A v \in Limits, r \in 1 .. m : AtMost(s[r], v) <=> r <= Cardinality(Among(m, v))
  BY <1>5
<1> QED
  BY <1>6, <1>7, <1>8

(* In an ordered list the entries with a node come first.                  *)
LEMMA NodesLead ==
  ASSUME NEW n \in Nat, NEW e \in [1 .. n -> Valid \cup {Unfilled}],
         \A i, j \in 1 .. n : i <= j => AtMost(e[i], e[j])
  PROVE  \E c \in 0 .. n : /\ \A i \in 1 .. n : e[i] # Unfilled <=> i <= c
                           /\ WithNodes(e) = SubSeq(e, 1, c)
<1> DEFINE K == {i \in 1 .. n : e[i] # Unfilled}
<1>1. \A i, j \in 1 .. n : i <= j /\ j \in K => i \in K
  <2> SUFFICES ASSUME NEW i \in 1 .. n, NEW j \in 1 .. n, i <= j, e[j] # Unfilled
               PROVE  e[i] # Unfilled
    OBVIOUS
  <2>1. e[j] \in Limits
    BY EntryTypes
  <2>2. AtMost(e[i], e[j])
    OBVIOUS
  <2> QED
    BY <2>1, <2>2, EntryTypes
<1>2. /\ Cardinality(K) \in 0 .. n
      /\ \A r \in 1 .. n : r \in K <=> r <= Cardinality(K)
  <2>1. K \in SUBSET (1 .. n)
    OBVIOUS
  <2> HIDE DEF K
  <2> QED
    BY <1>1, <2>1, InitialRanks
<1>3. PICK c \in 0 .. n : \A i \in 1 .. n : e[i] # Unfilled <=> i <= c
  <2>1. \A r \in 1 .. n : r \in K <=> e[r] # Unfilled
    OBVIOUS
  <2> HIDE DEF K
  <2> QED
    BY <1>2, <2>1
<1>4. \A i \in 1 .. n : HasNode(e[i]) <=> i <= c
  <2> SUFFICES ASSUME NEW i \in 1 .. n PROVE HasNode(e[i]) <=> e[i] # Unfilled
    BY <1>3
  <2>1. CASE e[i] = Unfilled
    BY <2>1 DEF HasNode, Unfilled
  <2>2. CASE e[i] # Unfilled
    <3>1. PICK k \in Nodes : e[i] = Scored(Exact, k)
      BY <2>2 DEF Valid
    <3>2. k # NoNode
      BY OrderAssumption
    <3> QED
      BY <2>2, <3>1, <3>2 DEF HasNode, Scored
  <2> QED
    BY <2>1, <2>2
<1>5. WithNodes(e) = SubSeq(e, 1, c)
  BY <1>4, SelectsLeading
<1> QED
  BY <1>3, <1>5

(* What the list of the nearest begins with is the answer of the plain     *)
(* rerank for the prefix.                                                  *)
LEMMA AnswerIsNearest ==
  ASSUME OfRequest, NEW m \in 0 .. Budget,
         NEW e, BestOf(e, m)
  PROVE  Prefix(WithNodes(e), TopK) = NearestOf(Exact, Prefix(list, m))
<1> DEFINE s == Sorted([i \in 1 .. m |-> Scored(Exact, list[i])])
           T == Valid \cup {Unfilled}
           N == ResultTopN
<1>1. /\ m \in Nat /\ m <= Budget /\ Budget \in Nat /\ list \in [1 .. Budget -> NodeOrNone]
      /\ N \in Nat /\ TopK \in Nat \ {0} /\ TopK <= N
  BY Sizes, RequestTypes
<1>2. NearestOf(Exact, Prefix(list, m)) = Prefix(WithNodes(s), TopK)
  <2>1. Len(list) = Budget /\ LesserOf(m, Budget) = m
    BY <1>1 DEF LesserOf
  <2>2. Prefix(list, m) = [i \in 1 .. m |-> list[i]]
    BY <1>1, <2>1, Beginning DEF Prefix
  <2>3. [i \in DOMAIN Prefix(list, m) |-> Scored(Exact, Prefix(list, m)[i])]
          = [i \in 1 .. m |-> Scored(Exact, list[i])]
    BY <2>2
  <2> QED
    BY <2>3 DEF NearestOf
<1>3. /\ s \in [1 .. m -> T] /\ \A i, j \in 1 .. m : i <= j => AtMost(s[i], s[j])
      /\ \A v \in Limits, r \in 1 .. m : AtMost(s[r], v) <=> r <= Cardinality(Among(m, v))
  BY SortedNearest
<1>4. /\ e \in [1 .. N -> T] /\ \A i, j \in 1 .. N : i <= j => AtMost(e[i], e[j])
      /\ NearestBefore(e, m)
  BY DEF BestOf
<1> HIDE DEF s
<1> DEFINE filled == [r \in 1 .. N |-> IF r <= m THEN s[r] ELSE Unfilled]
<1>5. NearestBefore(filled, m)
  <2> SUFFICES ASSUME NEW v \in Limits, NEW r \in 1 .. TopK
               PROVE  AtMost(filled[r], v) <=> r <= Cardinality(Among(m, v))
    BY DEF NearestBefore
  <2>1. r \in 1 .. N /\ r \in Nat
    BY <1>1
  <2>2. CASE r <= m
    <3>1. r \in 1 .. m /\ filled[r] = s[r]
      BY <2>1, <2>2
    <3> QED
      BY <1>3, <3>1
  <2>3. CASE ~ (r <= m)
    <3>1. filled[r] = Unfilled
      BY <2>1, <2>3
    <3>2. Cardinality(Among(m, v)) <= m /\ Cardinality(Among(m, v)) \in Nat
      <4>1. IsFiniteSet(1 .. m) /\ Cardinality(1 .. m) = m /\ Among(m, v) \in SUBSET (1 .. m)
        BY <1>1, FS_Interval DEF Among
      <4> QED
        BY <4>1, FS_Subset, FS_CardinalityType
    <3>3. ~ (r <= Cardinality(Among(m, v)))
      BY <1>1, <2>1, <2>3, <3>2
    <3>4. ~AtMost(Unfilled, v)
      BY EntryTypes
    <3> QED
      BY <3>1, <3>3, <3>4
  <2> QED
    BY <2>2, <2>3
<1>6. ASSUME NEW r \in 1 .. TopK PROVE e[r] = IF r <= m THEN s[r] ELSE Unfilled
  <2>1. r \in 1 .. N /\ r \in Nat
    BY <1>1
  <2>2. filled[r] \in T /\ filled[r] = IF r <= m THEN s[r] ELSE Unfilled
    BY <1>1, <1>3, <2>1
  <2>3. e[r] \in T
    BY <1>4, <2>1
  <2> HIDE DEF filled
  <2>4. e[r] = filled[r]
    BY <1>1, <1>4, <1>5, <2>2, <2>3, NearestUnique
  <2> QED
    BY <2>2, <2>4
<1>7. PICK c \in 0 .. N : /\ \A i \in 1 .. N : e[i] # Unfilled <=> i <= c
                          /\ WithNodes(e) = SubSeq(e, 1, c)
  BY <1>1, <1>4, NodesLead
<1>8. PICK d \in 0 .. m : /\ \A i \in 1 .. m : s[i] # Unfilled <=> i <= d
                          /\ WithNodes(s) = SubSeq(s, 1, d)
  BY <1>1, <1>3, NodesLead
<1>9. /\ Prefix(WithNodes(e), TopK) = [i \in 1 .. LesserOf(TopK, c) |-> e[i]]
      /\ Prefix(WithNodes(s), TopK) = [i \in 1 .. LesserOf(TopK, d) |-> s[i]]
  <2>1. Prefix(SubSeq(e, 1, c), TopK) = [i \in 1 .. LesserOf(TopK, c) |-> e[i]]
    <3>1. N \in Nat /\ e \in [1 .. N -> T] /\ c \in 0 .. N
      BY <1>1, <1>4
    <3> HIDE DEF N
    <3> QED
      BY <3>1, PrefixOfBeginning, Zenon
  <2>2. Prefix(SubSeq(s, 1, d), TopK) = [i \in 1 .. LesserOf(TopK, d) |-> s[i]]
    <3>1. m \in Nat /\ s \in [1 .. m -> T] /\ d \in 0 .. m
      BY <1>1, <1>3
    <3> HIDE DEF N
    <3> QED
      BY <3>1, PrefixOfBeginning, Zenon
  <2> QED
    BY <1>7, <1>8, <2>1, <2>2
<1>10. ASSUME NEW r \in 1 .. TopK PROVE r <= c <=> r <= d
  <2>1. r \in 1 .. N /\ r \in Nat
    BY <1>1
  <2>2. r <= c <=> e[r] # Unfilled
    BY <1>7, <2>1
  <2>3. CASE r <= m
    <3>1. r \in 1 .. m
      BY <2>1, <2>3
    <3>2. r <= d <=> s[r] # Unfilled
      BY <1>8, <3>1
    <3> QED
      BY <1>6, <2>2, <2>3, <3>2
  <2>4. CASE ~ (r <= m)
    <3>1. ~ (r <= d)
      BY <1>1, <2>1, <2>4
    <3> QED
      BY <1>6, <2>2, <2>4, <3>1
  <2> QED
    BY <2>3, <2>4
<1>11. LesserOf(TopK, c) = LesserOf(TopK, d) /\ LesserOf(TopK, d) \in 0 .. m
       /\ LesserOf(TopK, d) <= TopK
  <2>1. c \in Nat /\ d \in Nat /\ d <= m /\ TopK \in Nat
    BY <1>1
  <2>2. CASE c < TopK
    <3>1. ~ (c + 1 <= d)
      BY <1>10, <2>1, <2>2
    <3>2. c = 0 \/ c <= d
      BY <1>10, <2>1, <2>2
    <3> QED
      BY <1>1, <2>1, <2>2, <3>1, <3>2 DEF LesserOf
  <2>3. CASE ~ (c < TopK)
    <3>1. TopK <= d
      BY <1>1, <1>10, <2>1, <2>3
    <3> QED
      BY <1>1, <2>1, <2>3, <3>1 DEF LesserOf
  <2> QED
    BY <2>2, <2>3
<1>12. ASSUME NEW i \in 1 .. LesserOf(TopK, d) PROVE e[i] = s[i]
  <2>1. i \in 1 .. TopK /\ i <= m
    BY <1>1, <1>11
  <2> QED
    BY <1>6, <2>1
<1> QED
  BY <1>2, <1>9, <1>11, <1>12

(* The search for the recording ends once, behind a prefix.                *)
LEMMA AnsweredOnceHolds == Spec => []AnsweredOnce
<1>1. Init => AnsweredOnce
  BY DEF Init, AnsweredOnce
<1>2. RerankInvariant /\ AnsweredOnce /\ [Next]_vars => AnsweredOnce'
  <2> SUFFICES ASSUME RerankInvariant, AnsweredOnce, [Next]_vars PROVE AnsweredOnce'
    OBVIOUS
  <2>1. CASE ReadWindow
    BY <2>1 DEF ReadWindow, AnsweredOnce
  <2>2. CASE MergeWindow
    <3>1. /\ begin \in Nat /\ begin < Budget /\ Budget \in Nat /\ ~stop /\ OnSchedule
          /\ begin' = RankEnd /\ UNCHANGED <<replay, recorded>> /\ pc = "merge"
          /\ OfRequest
      BY <2>2, MergeFacts, Sizes DEF MergeWindow
    <3>2. CASE UseSchedule
      <4>1. RankEnd = next
        BY <3>2 DEF RankEnd
      <4>2. FirstPrefix \in Nat /\ FirstPrefix > 0
        <5>1. options.bootstrap \in Nat /\ options.bootstrap # 0 /\ Budget > 0
          BY <3>1, <3>2, RequestTypes DEF UseSchedule
        <5>2. FirstPrefix = LesserOf(Budget, options.bootstrap)
          BY <3>2 DEF FirstPrefix
        <5> QED
          BY <3>1, <5>1, <5>2 DEF LesserOf
      <4>3. CASE begin = 0
        BY <3>1, <3>2, <4>1, <4>2, <4>3 DEF OnSchedule, AnsweredOnce
      <4>4. CASE begin > 0
        <5>1. begin <= RankEnd /\ RankEnd \in Nat
          BY <2>2, MergeFacts
        <5> QED
          BY <3>1, <4>4, <5>1 DEF AnsweredOnce
      <4> QED
        BY <3>1, <4>3, <4>4
    <3>3. CASE ~UseSchedule
      <4>1. RankEnd = LesserOf(Budget, begin + options.tile)
        BY <3>3 DEF RankEnd
      <4>2. options.tile \in Nat \ {0}
        BY <3>1, RequestTypes
      <4>3. RankEnd > 0
        BY <3>1, <4>1, <4>2 DEF LesserOf
      <4> QED
        BY <3>1, <4>3 DEF AnsweredOnce
    <3> QED
      BY <3>2, <3>3
  <2>3. CASE Finish
    BY <2>3 DEF Finish, AnsweredOnce
  <2>4. CASE StartReplay
    <3>1. recorded.prefix # 0
      BY <2>4, OrderAssumption DEF StartReplay, Refused
    <3> QED
      BY <2>4, <3>1 DEF StartReplay, AnsweredOnce
  <2>5. CASE UNCHANGED vars
    BY <2>5 DEF vars, AnsweredOnce
  <2> QED
    BY <2>1, <2>2, <2>3, <2>4, <2>5 DEF Next
<1> QED
  BY <1>1, <1>2, InvariantHolds, PTL DEF Spec

(* A search in windows, pruned and stopped, implements the plain rerank of *)
(* its query: it answers once, with the top_k nearest of all candidates    *)
(* before the rank where it stopped, and of all candidates if it had no    *)
(* stop rule (persistent_bam_rerank_kernel_float32_dim).                   *)
THEOREM PersistentImplementsRerank == Spec => ImplementsRerank
<1> DEFINE depths == <<IF UseEarlyStop \/ UseSchedule THEN 1 .. Budget ELSE {Budget}>>
           answered == IF recorded.prefix # 0 THEN {1} ELSE {}
           answer == <<recorded.answer>>
<1>1. Init => Baseline!Init
  <2> SUFFICES ASSUME Init PROVE Baseline!Init
    OBVIOUS
  <2>1. PICK r \in Requests : list = r.list /\ lower = LowerBounds(r) /\ options = r.options
    BY DEF Init
  <2>2. list \in [1 .. Budget -> NodeOrNone]
    BY <2>1, PersistentAssumption
  <2>3. <<list>> \in [{1} -> [1 .. Budget -> NodeOrNone]]
    BY <2>2
  <2>4. depths \in [{1} -> (SUBSET Nat) \ {{}}]
    <3> DEFINE D == IF UseEarlyStop \/ UseSchedule THEN 1 .. Budget ELSE {Budget}
    <3>1. Budget \in Nat /\ 1 \in 1 .. Budget
      BY PersistentAssumption
    <3>2. D \in SUBSET Nat
      BY <3>1
    <3>3. D # {}
      BY <3>1
    <3>4. depths = <<D>>
      OBVIOUS
    <3> HIDE DEF D, depths
    <3> DEFINE T == (SUBSET Nat) \ {{}}
    <3>5. D \in T
      BY <3>2, <3>3
    <3> HIDE DEF T
    <3>6. <<D>> \in [{1} -> T]
      BY <3>5
    <3> QED
      BY <3>4, <3>6 DEF T
  <2>5. answered = {} /\ answer = [q \in {1} |-> <<>>]
    BY DEF Init
  <2> QED
    BY <2>3, <2>4, <2>5 DEF Baseline!Init
<1>2. ASSUME RerankInvariant, RerankInvariant', AnsweredOnce, [Next]_vars
      PROVE  [Baseline!AnswerQueries]_(Baseline!vars)
  <2>1. CASE UNCHANGED <<list, options, recorded>>
    <3>1. UNCHANGED <<<<list>>, depths, answered, answer>>
      BY <2>1 DEF UseEarlyStop, UseSchedule, UseLearnedStop, NumStages, Stages
    <3> QED
      BY <3>1 DEF Baseline!vars
  <2>2. CASE Finish /\ replay = 0
    <3>1. /\ UNCHANGED <<list, options>> /\ pc = "read" /\ (begin >= Budget \/ stop)
          /\ recorded' = [prefix |-> stopPrefix, answer |-> Answer]
      BY <2>2 DEF Finish, request
    <3>2. /\ OfRequest /\ BestOf(best, begin) /\ begin \in 0 .. Budget /\ Budget \in Nat \ {0}
          /\ stopPrefix = IF stop THEN begin ELSE Budget
      BY <1>2, Sizes DEF RerankInvariant, Progress
    <3>3. stopPrefix = begin /\ begin \in 1 .. Budget
      BY <1>2, <3>1, <3>2 DEF AnsweredOnce
    <3>4. recorded = [prefix |-> 0, answer |-> <<>>]
      BY <1>2, <2>2, <3>1 DEF AnsweredOnce
    <3>5. Answer = NearestOf(Exact, Prefix(list, begin))
      <4>1. Answer = Prefix(WithNodes(best), TopK)
        BY DEF Answer, WithNodes
      <4> QED
        BY <3>2, <4>1, AnswerIsNearest
    <3>6. begin \in depths[1]
      <4>1. CASE UseEarlyStop \/ UseSchedule
        BY <3>3, <4>1
      <4>2. CASE ~UseEarlyStop /\ ~UseSchedule
        <5>1. StableMeans /\ options.patience \in Nat \ {0} /\ stable \in Nat
          BY <1>2, <3>2, RequestTypes DEF RerankInvariant, Progress
        <5>2. stable = 0
          BY <2>2, <4>2, <5>1 DEF StableMeans
        <5>3. ~stop
          BY <2>2, <4>2, <5>1, <5>2 DEF StableMeans
        <5> QED
          BY <3>2, <3>3, <4>2, <5>3
      <4> QED
        BY <4>1, <4>2
    <3>7. answered = {} /\ answered' = {1} /\ answer'[1] = NearestOf(Exact, Prefix(list, begin))
      BY <3>1, <3>3, <3>4, <3>5
    <3>8. answer' = [q \in {1} |-> answer'[q]]
      OBVIOUS
    <3>9. UNCHANGED <<<<list>>, depths>>
      BY <3>1 DEF UseEarlyStop, UseSchedule, UseLearnedStop, NumStages, Stages
    <3>10. Baseline!AnswerOf(1, begin) = NearestOf(Exact, Prefix(list, begin))
      <4>1. <<Exact>>[1] = Exact /\ <<list>>[1] = list
        OBVIOUS
      <4>2. Baseline!AnswerOf(1, begin) = Baseline!NearestOf(Exact, Baseline!Prefix(list, begin))
        BY <4>1 DEF Baseline!AnswerOf
      <4>3. Baseline!Prefix(list, begin) = Prefix(list, begin)
        BY DEF Baseline!Prefix, Prefix, Baseline!LesserOf, LesserOf
      <4>4. Baseline!NearestOf(Exact, Prefix(list, begin)) = NearestOf(Exact, Prefix(list, begin))
        <5>1. ASSUME NEW x PROVE Baseline!Sorted(x) = Sorted(x)
          BY DEF Baseline!Sorted, Sorted, Baseline!EntryLess, EntryLess, Baseline!Cardinality,
                 Cardinality
        <5>2. ASSUME NEW x PROVE Baseline!WithNodes(x) = WithNodes(x)
          BY DEF Baseline!WithNodes, WithNodes, Baseline!HasNode, HasNode, Baseline!Cardinality,
                 Cardinality
        <5>3. ASSUME NEW x PROVE Baseline!Prefix(x, TopK) = Prefix(x, TopK)
          BY DEF Baseline!Prefix, Prefix, Baseline!LesserOf, LesserOf
        <5>4. ASSUME NEW n PROVE Baseline!Scored(Exact, n) = Scored(Exact, n)
          BY DEF Baseline!Scored, Scored, Baseline!Unfilled, Unfilled
        <5> DEFINE nodes == Prefix(list, begin)
                   a == [i \in DOMAIN nodes |-> Scored(Exact, nodes[i])]
        <5>5. [i \in DOMAIN nodes |-> Baseline!Scored(Exact, nodes[i])] = a
          BY <5>4
        <5> HIDE DEF nodes, a
        <5>6. Baseline!NearestOf(Exact, nodes)
                = Baseline!Prefix(Baseline!WithNodes(Baseline!Sorted(a)), TopK)
          BY <5>5 DEF Baseline!NearestOf
        <5>7. NearestOf(Exact, nodes) = Prefix(WithNodes(Sorted(a)), TopK)
          BY DEF NearestOf, a
        <5> QED
          BY <5>1, <5>2, <5>3, <5>6, <5>7 DEF nodes
      <4> QED
        BY <4>2, <4>3, <4>4
    <3>11. \E depth \in depths[1] : answer'[1] = Baseline!AnswerOf(1, depth)
      BY <3>6, <3>7, <3>10
    <3> HIDE DEF depths, answered, answer
    <3>12. \E now \in (SUBSET ({1} \ answered)) \ {{}} :
             /\ answered' = answered \cup now
             /\ answer' = [q \in {1} |-> answer'[q]]
             /\ \A q \in now : \E depth \in depths[q] : answer'[q] = Baseline!AnswerOf(q, depth)
             /\ \A q \in {1} \ now : answer'[q] = answer[q]
             /\ UNCHANGED <<<<list>>, depths>>
      <4>1. {1} \in (SUBSET ({1} \ answered)) \ {{}} /\ answered' = answered \cup {1}
        BY <3>7
      <4> QED
        BY <3>8, <3>9, <3>11, <4>1
    <3> QED
      BY <3>12 DEF Baseline!AnswerQueries, depths, answered, answer
  <2>3. CASE ReadWindow \/ MergeWindow \/ StartReplay \/ UNCHANGED vars
    <3>1. UNCHANGED <<list, options, recorded>>
      BY <2>3 DEF ReadWindow, MergeWindow, StartReplay, vars, request
    <3> QED
      BY <2>1, <3>1
  <2>4. CASE Finish /\ replay # 0
    <3>1. UNCHANGED <<list, options, recorded>>
      BY <2>4 DEF Finish, request
    <3> QED
      BY <2>1, <3>1
  <2> QED
    BY <1>2, <2>2, <2>3, <2>4 DEF Next
<1> QED
  BY <1>1, <1>2, InvariantHolds, AnsweredOnceHolds, PTL DEF Spec, ImplementsRerank, Baseline!Safety
=============================================================================
