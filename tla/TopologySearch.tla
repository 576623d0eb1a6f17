---------------------------- MODULE TopologySearch ----------------------------
(***************************************************************************)
(* One query's traversal of the topology: the thread block that runs       *)
(* topology_traversal_kernel (or its high-L and microbatched variants) in  *)
(* src/src/search/topology_search_kernel.cu.  The threads of the block     *)
(* meet at barriers, so a step of the model is what the block does between *)
(* two decisions; what its threads do to the visited filter in between is  *)
(* a choice over their interleavings (AdmittedSlots).                      *)
(***************************************************************************)
EXTENDS CandidateList, Sequences

CONSTANTS
  Degree,          \* neighbours per topology row
  Width,           \* search_width
  Warps,           \* warps of the block: kTopologyBlockThreads / kWarpSize
  WordBits,        \* bits of a word of unexpanded_bits
  MaxExpansions,   \* max_expansions
  Launches,        \* options a launch may be given
  LearnedTopK,     \* top_k of the learned stop
  Graphs,          \* topologies to search
  EntryLists,      \* entry id lists of a query
  StaleRows        \* what staged_neighbors may hold before it is written

Row == [1 .. Degree -> NodeOrNone]

(* The options of a launch:                                                *)
(*   prefix         candidate_stop_prefix, 0 when unused                   *)
(*   use_expanded   candidate_stop_use_expanded                            *)
(*   stages         stage_prefixes of the learned stop, <<>> when disabled *)
(*   shadow         shadow_mode of the learned stop                        *)
(*   stage_reads    stage_topology_reads                                   *)
(*   test_then_add  the microbatched kernels: all tests, a barrier, all    *)
(*                  adds                                                   *)
(*   high_l         the high-L kernel, which merges by output positions    *)
LaunchOptions ==
  [prefix : Nat, use_expanded : BOOLEAN, stages : Seq(Nat \ {0}),
   shadow : BOOLEAN, stage_reads : BOOLEAN, test_then_add : BOOLEAN,
   high_l : BOOLEAN]

ASSUME ParametersAssumption ==
  /\ Degree \in Nat \ {0} /\ Width \in Nat \ {0} /\ Slots = Width * Degree
  /\ Warps \in Nat \ {0} /\ WordBits \in Nat \ {0}
  /\ MaxExpansions \in Nat
  /\ Launches \subseteq LaunchOptions /\ LearnedTopK \in Nat

ASSUME InputsAssumption ==
  /\ Graphs \subseteq [Nodes -> Row]
  /\ EntryLists \subseteq Seq(NodeOrNone)
  /\ StaleRows \subseteq Row

VARIABLES
  graph,      \* the topology rows, on the host, in the cache or on the SSD
  entries,    \* entry_ids of this query
  launch,     \* the options of the launch
  batch,      \* entry batches merged so far
  pc,         \* where the block is: "seed", "check", "expand" or "done"
  list,       \* candidates
  valid,      \* stats.valid_candidates
  unexpanded, \* ranks whose bit is set in unexpanded_bits
  hash,       \* bits set in visited_hash
  merges,     \* hash_iteration_shared: merges since the last rebuild
  expanded,   \* stats.expanded_nodes
  stage,      \* next stage of the learned stop, counted from 1
  selected,   \* selected_nodes
  count,      \* selected_count
  staged,     \* staged_neighbors, one row per selected node
  trace,      \* expanded_trace; a history where the launch keeps none
  given,      \* history: nodes whose bits the filter was given since its rebuild
  hidden      \* history: nodes the filter refused last without being given them

input == <<graph, entries, launch>>
queue == <<list, valid, unexpanded, hash, merges, given, hidden>>
vars  == <<input, batch, pc, queue, expanded, stage, selected,
           count, staged, trace>>
-----------------------------------------------------------------------------
(* The visited filter.  The threads of a block test and then set the bits  *)
(* of their slots with no barrier in between: a node that is already in    *)
(* the filter is refused, and one that is not may be refused only because  *)
(* another slot that passed has set its bits first.                        *)
SlotBits(offered, slots) == UNION {HashBits[offered[s]] : s \in slots}

AdmittedSlots(offered) ==
  LET fresh == {s \in Admitted(offered) : ~VisitedTest(offered[s], hash)}
  IN  IF launch.test_then_add THEN {fresh}
      ELSE {slots \in SUBSET fresh :
              \A s \in fresh \ slots :
                VisitedTest(offered[s], hash \cup SlotBits(offered, slots))}

FrontierOf(offered, slots) ==
  [s \in 1 .. Slots |-> IF s \in slots THEN offered[s] ELSE NoNode]

RebuildInterval == 3

(* Sort and merge a frontier, then RebuildPrefixState: the bits of the     *)
(* unexpanded prefix every time, the visited filter every third time.      *)
AbsorbFrontier(frontier) ==
  LET rebuild == merges + 1 >= RebuildInterval
  IN  /\ list' = MergeFrontier(list, valid, frontier, launch.high_l)
      /\ valid' = NewValidCount(valid, frontier)
      /\ unexpanded' = UnexpandedRanks(list', valid')
      /\ hash' = IF rebuild THEN PrefixHash(list', valid')
                 ELSE hash \cup SlotBits(frontier, Admitted(frontier))
      /\ merges' = IF rebuild THEN 0 ELSE merges + 1

(* What the filter was given, and what it hides: a node that is offered    *)
(* and refused, although the filter was not given it, because all its bits *)
(* are bits of other nodes.  The block keeps neither.                      *)
BitsOf(nodes) == UNION {HashBits[n] : n \in nodes}

PrefixIds == {list[i].id : i \in PrefixRanks(valid)}

RecordOffer(offered, slots) ==
  LET admitted == {offered[s] : s \in slots}
      known    == given \cup admitted
      refused  == {offered[s] : s \in Admitted(offered)} \ known
  IN  /\ given' = IF merges + 1 >= RebuildInterval THEN PrefixIds' ELSE known
      /\ hidden' = (hidden \ admitted) \cup
                     {m \in refused : HashBits[m] \subseteq BitsOf(known)}

Absorb(offered) ==
  \E slots \in AdmittedSlots(offered) :
    /\ AbsorbFrontier(FrontierOf(offered, slots))
    /\ RecordOffer(offered, slots)
-----------------------------------------------------------------------------
(* Entry batches: frontier_slots entry ids at a time.                      *)
EntryBatches == (Len(entries) + Slots - 1) \div Slots

EntryFrontier ==
  [s \in 1 .. Slots |-> IF batch * Slots + s <= Len(entries)
                        THEN entries[batch * Slots + s] ELSE NoNode]

SeedBatch ==
  /\ pc = "seed"
  /\ batch < EntryBatches
  /\ Absorb(EntryFrontier)
  /\ batch' = batch + 1
  /\ UNCHANGED <<input, pc, expanded, stage, selected, count,
                 staged, trace>>

FinishSeeding ==
  /\ pc = "seed"
  /\ batch >= EntryBatches
  /\ pc' = "check"
  /\ UNCHANGED <<input, batch, queue, expanded, stage, selected,
                 count, staged, trace>>
-----------------------------------------------------------------------------
(* The learned stop.  What the model of a stage computes is not modelled:  *)
(* a stage whose features are ready fires or not.  A stage that does not   *)
(* fire is passed for good; in shadow mode a stage that fires only ends    *)
(* the evaluation.                                                         *)
StagePrefixes == launch.stages

StageUsable(i) == StagePrefixes[i] < TopL /\ StagePrefixes[i] >= LearnedTopK

StageReadyBeforeFull(i) ==
  valid >= StagePrefixes[i] /\ expanded >= StagePrefixes[i]

StageReady(i) ==
  /\ valid >= TopL
  /\ expanded >= StagePrefixes[i]

NoStage == Len(StagePrefixes) + 1

Reached(i) == \A j \in stage .. i - 1 : StageUsable(j) => StageReady(j)

NextStages ==
  LET reached == {i \in stage .. NoStage : Reached(i)}
      waiting == {i \in reached : i = NoStage \/ (StageUsable(i) /\ ~StageReady(i))}
      firing  == {i \in reached \ {NoStage} : StageUsable(i) /\ StageReady(i)}
  IN  {[stage |-> i, stop |-> FALSE] : i \in waiting} \cup
      {[stage |-> IF launch.shadow THEN NoStage ELSE i, stop |-> ~launch.shadow] : i \in firing}

(* The candidate stop looks at whole words of unexpanded_bits.             *)
StopPrefix      == launch.prefix
StopUseExpanded == launch.use_expanded
UsePrefixStop   == StopPrefix # 0 /\ StopPrefix < TopL

ActiveRanksRoundedDown ==
  IF UsePrefixStop /\ valid >= StopPrefix
  THEN 1 .. (StopPrefix \div WordBits) * WordBits
  ELSE 1 .. TopL - 1

ActiveRanks ==
  IF UsePrefixStop /\ valid >= StopPrefix
  THEN 1 .. ((StopPrefix + WordBits - 1) \div WordBits) * WordBits
  ELSE 1 .. TopL

CandidateStop ==
  IF UsePrefixStop /\ StopUseExpanded
  THEN valid >= TopL /\ expanded >= StopPrefix
  ELSE unexpanded \cap ActiveRanks = {}

MayContinueOnceMore == pc = "check" /\ expanded <= MaxExpansions /\ valid # 0

MayContinue == pc = "check" /\ expanded < MaxExpansions /\ valid # 0

StopAtLimit ==
  /\ pc = "check"
  /\ expanded >= MaxExpansions \/ valid = 0
  /\ pc' = "done"
  /\ UNCHANGED <<input, batch, queue, expanded, stage, selected,
                 count, staged, trace>>

StopLearned ==
  /\ MayContinue
  /\ \E next \in NextStages : next.stop /\ stage' = next.stage
  /\ pc' = "done"
  /\ UNCHANGED <<input, batch, queue, expanded, selected, count,
                 staged, trace>>

StopSettled ==
  /\ MayContinue
  /\ \E next \in NextStages : ~next.stop /\ stage' = next.stage
  /\ CandidateStop
  /\ pc' = "done"
  /\ UNCHANGED <<input, batch, queue, expanded, selected, count,
                 staged, trace>>
-----------------------------------------------------------------------------
(* Select up to search_width unexpanded ranks, best first, and mark them.  *)
(* With candidate_stop_use_expanded there may be none; the loop then ends. *)
Selectable ==
  {i \in unexpanded : i <= SmallerOf(valid, TopL)
                      /\ IsValid(list[i]) /\ ~list[i].expanded}

Chosen == FirstRanks(Selectable, Width)

ChosenAt(k) == {i \in Chosen : PlaceOf(Chosen, i) = k}

ScannedRanks ==
  IF Cardinality(Chosen) < Width THEN unexpanded
  ELSE {i \in unexpanded : \E j \in Chosen : i <= j}

SelectNodes ==
  /\ MayContinue
  /\ \E next \in NextStages : ~next.stop /\ stage' = next.stage
  /\ ~CandidateStop
  /\ count' = Cardinality(Chosen)
  /\ selected' = [k \in 1 .. Width |->
                    IF ChosenAt(k) = {} THEN selected[k]
                    ELSE list[CHOOSE i \in ChosenAt(k) : TRUE].id]
  /\ list' = [i \in 1 .. Capacity |->
                IF i \in Chosen THEN [list[i] EXCEPT !.expanded = TRUE]
                ELSE list[i]]
  /\ unexpanded' = unexpanded \ ScannedRanks
  /\ expanded' = expanded + count'
  /\ trace' = [e \in 1 .. MaxExpansions |->
                 IF e - expanded \in 1 .. count' THEN selected'[e - expanded]
                 ELSE trace[e]]
  /\ pc' = IF Chosen = {} THEN "done" ELSE "expand"
  /\ UNCHANGED <<input, batch, valid, hash, merges, given, hidden, staged>>
-----------------------------------------------------------------------------
(* Warp k of the block stages the row of selected node k, so only as many  *)
(* rows as there are warps are read; the frontier is then built from       *)
(* staged_neighbors, whoever wrote it.                                     *)
SelectedIndex(s) == ((s - 1) \div Degree) + 1
NeighborIndex(s) == ((s - 1) % Degree) + 1

Neighbors(k) == IF launch.stage_reads THEN staged'[k] ELSE graph[selected[k]]

OfferedWithoutLast ==
  [s \in 1 .. Slots |->
     IF SelectedIndex(s) < count
     THEN Neighbors(SelectedIndex(s))[NeighborIndex(s)] ELSE NoNode]

OfferedNeighbors ==
  [s \in 1 .. Slots |->
     IF SelectedIndex(s) <= count
     THEN Neighbors(SelectedIndex(s))[NeighborIndex(s)] ELSE NoNode]

ExpandSelected ==
  /\ pc = "expand"
  /\ staged' = [k \in 1 .. Width |->
                  IF launch.stage_reads /\ k <= count /\ k <= Warps
                  THEN graph[selected[k]] ELSE staged[k]]
  /\ Absorb(OfferedNeighbors)
  /\ pc' = "check"
  /\ UNCHANGED <<input, batch, expanded, stage, selected, count,
                 trace>>
-----------------------------------------------------------------------------
Init ==
  /\ graph \in Graphs
  /\ entries \in EntryLists
  /\ launch \in Launches
  /\ batch = 0
  /\ pc = "seed"
  /\ list = EmptyList
  /\ valid = 0
  /\ unexpanded = {}
  /\ hash = {}
  /\ merges = 0
  /\ expanded = 0
  /\ stage = 1
  /\ selected = [k \in 1 .. Width |-> NoNode]
  /\ count = 0
  /\ staged \in [1 .. Width -> StaleRows]
  /\ trace = [e \in 1 .. MaxExpansions |-> NoNode]
  /\ given = {} /\ hidden = {}

Next ==
  \/ SeedBatch
  \/ FinishSeeding
  \/ StopAtLimit
  \/ StopLearned
  \/ StopSettled
  \/ SelectNodes
  \/ ExpandSelected

(* A block that has been launched runs to its end.                         *)
Spec == Init /\ [][Next]_vars /\ WF_vars(Next)
-----------------------------------------------------------------------------
(* What the host makes of the candidates of a block, of which it copies    *)
(* all: the valid ones up to the size of the queue, and the first top_k of *)
(* those (MaterializeTopologyResults).                                     *)
FirstOf(sequence, limit) == SubSeq(sequence, 1, SmallerOf(limit, Len(sequence)))

ValidRanks == {i \in 1 .. Capacity : IsValid(list[i])}

BuildSortedCandidates(candidate_limit) ==
  [k \in 1 .. SmallerOf(candidate_limit, Cardinality(ValidRanks)) |->
     list[CHOOSE i \in ValidRanks : PlaceOf(ValidRanks, i) = k]]

BuildTopK(sorted_candidates, top_k) == FirstOf(sorted_candidates, top_k)

MaterializeTopologyResults(candidate_limit, top_k) ==
  LET sorted_candidates == BuildSortedCandidates(candidate_limit)
  IN  [sorted_candidates |-> sorted_candidates,
       topk              |-> BuildTopK(sorted_candidates, top_k),
       expanded_nodes    |-> expanded]

(* Types, and the shape of the candidate array: valid entries in front.    *)
TypeOK ==
  /\ graph \in Graphs /\ entries \in EntryLists /\ launch \in Launches
  /\ batch \in Nat
  /\ pc \in {"seed", "check", "expand", "done"}
  /\ list \in CandidateArray /\ valid \in 0 .. Capacity
  /\ unexpanded \subseteq PrefixRanks(valid)
  /\ hash \subseteq Nat
  /\ merges \in 0 .. RebuildInterval - 1
  /\ expanded \in Nat
  /\ stage \in 1 .. NoStage
  /\ selected \in [1 .. Width -> NodeOrNone] /\ count \in 0 .. Width
  /\ staged \in [1 .. Width -> Row]
  /\ trace \in [1 .. MaxExpansions -> NodeOrNone]
  /\ given \subseteq NodeOrNone /\ hidden \subseteq Nodes

(* The first `valid' candidates hold nodes, in order, and the rest of the  *)
(* array is invalid: what the back-to-front merge and the acceptance loop  *)
(* of MergeFrontierIntoCandidates take for granted.                        *)
ListOrdered ==
  /\ \A i \in 1 .. Capacity : IsValid(list[i]) <=> i <= valid
  /\ \A i, j \in 1 .. valid : i < j => ~CandidateLess(list[j].id, list[i].id)

(* So the caller, whose top-k is cut from the array without another sort,  *)
(* gets the nearest nodes of the list, however much longer than top_l the  *)
(* array is (MaterializeTopologyResults).                                  *)
SortedList ==
  /\ ListOrdered
  /\ \A k \in 1 .. TopL :
       LET topk == MaterializeTopologyResults(Capacity, k).topk
       IN  \A c \in {list[i] : i \in 1 .. valid} :
             \/ \E i \in DOMAIN topk : topk[i] = c
             \/ Len(topk) = k /\ ~CandidateLess(c.id, topk[k].id)

(* The filter never forgets a node of the prefix, although it is cleared   *)
(* and rebuilt every third merge: so no node of the prefix is admitted and *)
(* scored again (RebuildPrefixState).                                      *)
PrefixInHash ==
  \A i \in PrefixRanks(valid) :
    IsValid(list[i]) => VisitedTest(list[i].id, hash)

(* Nothing nearer is ever given up: from one step to the next, the key at  *)
(* a rank does not grow and the list does not shrink, whatever the merges  *)
(* push out at its end.                                                    *)
RankMonotone ==
  [][ /\ valid' >= valid
      /\ \A i \in 1 .. Capacity : ~CandidateLess(list[i].id, list'[i].id) ]_vars

(* The budget of expansions is exceeded by less than one round: the loop   *)
(* tests it once, and then selects up to search_width nodes.               *)
ExpansionBudget ==
  expanded <= IF MaxExpansions = 0 THEN 0 ELSE MaxExpansions + Width - 1

OutEdges(n) == {graph[n][j] : j \in 1 .. Degree} \ {NoNode}

Expansions == {trace[e] : e \in 1 .. SmallerOf(expanded, MaxExpansions)}

InPrefix(n) == \E i \in PrefixRanks(valid) : list[i].id = n

(* A search that ends with its whole prefix expanded is at a local         *)
(* minimum: each neighbour of a node it expanded is in the prefix, or the  *)
(* prefix is full of nodes that are no worse, or the filter refused the    *)
(* neighbour, when it was last offered, without having been given it.  A   *)
(* rebuilt filter forgets nodes, and a full list refuses them: nothing is  *)
(* lost but to collisions of filter bits, and to those for no longer than  *)
(* until the node is offered to a filter without the collision.            *)
LocalMinimum ==
  (pc = "done" /\ UnexpandedRanks(list, valid) = {}) =>
    \A n \in Expansions : \A m \in OutEdges(n) :
      \/ InPrefix(m)
      \/ valid >= TopL /\ ~CandidateLess(m, list[TopL].id)
      \/ m \in hidden

StoppedByStage == stage # NoStage /\ StageUsable(stage) /\ StageReady(stage)

(* A search without a prefix stop that ends below its budget, and not by   *)
(* the learned stop, has expanded its whole prefix; with one, at least the *)
(* first StopPrefix ranks, once there are that many.  A learned stop in    *)
(* shadow mode changes nothing.                                            *)
EarlyStopSettled ==
  (/\ pc = "done" /\ expanded < MaxExpansions
   /\ ~StoppedByStage
   /\ ~(UsePrefixStop /\ StopUseExpanded)) =>
     \A i \in PrefixRanks(valid) :
       list[i].expanded \/ (UsePrefixStop /\ valid >= StopPrefix /\ i > StopPrefix)

(* The learned stop cuts no search too early.  A stage it has passed had   *)
(* its turn: the list was full, and as many nodes expanded as the stage's  *)
(* prefix.  And a search that ends below its budget with a part of its     *)
(* prefix unexpanded that no prefix stop allows was not in shadow mode,    *)
(* fills its list, and has expanded the prefix of some stage between top_k *)
(* and top_l.                                                              *)
Unsettled ==
  \E i \in PrefixRanks(valid) :
    ~list[i].expanded /\ ~(UsePrefixStop /\ valid >= StopPrefix /\ i > StopPrefix)

StageHadItsTurn(i) == valid >= TopL /\ expanded >= StagePrefixes[i]

LearnedStopEarned ==
  /\ ~launch.shadow =>
       \A i \in 1 .. stage - 1 : StageUsable(i) => StageHadItsTurn(i)
  /\ (/\ pc = "done" /\ expanded < MaxExpansions /\ Unsettled
      /\ ~(UsePrefixStop /\ StopUseExpanded)) =>
        /\ ~launch.shadow
        /\ \E i \in 1 .. NoStage - 1 : StageUsable(i) /\ StageHadItsTurn(i)

(* No node occurs twice in the prefix, and so none twice in the top-k the  *)
(* caller gets.                                                            *)
PrefixDistinct ==
  \A i, j \in PrefixRanks(valid) : i # j => list[i].id # list[j].id

(* The same of the whole list.  A rerank deeper than top_l reads the ranks *)
(* behind the prefix too; the tests' reference never admits a node twice.  *)
ListDistinct ==
  \A i, j \in 1 .. valid : i # j => list[i].id # list[j].id

(* No node is expanded twice, although the filter forgets the nodes that   *)
(* have dropped out of the prefix and lets them in again.                  *)
ExpandedOnce ==
  \A e, f \in 1 .. SmallerOf(expanded, MaxExpansions) :
    e # f => trace[e] # trace[f]

(* The budget as the CPU reference of the tests keeps it, whose round stops *)
(* in the middle when it is spent (test_topology_search_gpu.cpp), and as    *)
(* the tool that writes the trace of expanded nodes expects it, which has a *)
(* place for each node of the budget (topoanns_overlap_pipeline_eval.cpp).  *)
WithinBudget == expanded <= MaxExpansions

(* The frontier of a round is built from the rows of the nodes selected in *)
(* it, for every search width the launch accepts.                          *)
RowsOfSelection ==
  (pc = "check" /\ launch.stage_reads) => \A k \in 1 .. count : staged[k] = graph[selected[k]]

-----------------------------------------------------------------------------
(* With search width 1 and rows without repeated neighbours, the traversal *)
(* with its lossy, rebuilt filter implements the best-first search, which  *)
(* has none, and loses only what the filter hides.                         *)
EntrySet(sequence) == {sequence[i] : i \in DOMAIN sequence} \ {NoNode}

ExpandedIds ==
  {list[i].id : i \in {j \in PrefixRanks(valid) : list[j].expanded}}

PendingEntries ==
  IF pc # "seed" THEN {}
  ELSE EntrySet(SubSeq(entries, batch * Slots + 1, Len(entries)))

(* A selected node is marked at once, and expanded by the end of its round. *)
RoundsDone == ExpandedIds \ (IF pc = "expand" THEN {selected[1]} ELSE {})
RoundsSpent == IF pc = "expand" THEN expanded - count ELSE expanded

SearchOutcome ==
  IF pc # "done" THEN "searching"
  ELSE IF PrefixIds \subseteq ExpandedIds THEN "converged" ELSE "cut"

(* Launches that may stop before their prefix is expanded.                 *)
StopsEarly == UsePrefixStop \/ (StagePrefixes # <<>> /\ ~launch.shadow)

BestFirst == INSTANCE BestFirstSearch WITH
  Closer     <- CandidateLess,
  Limit      <- TopL,
  Budget     <- MaxExpansions,
  Successors <- LAMBDA g, n : {g[n][j] : j \in 1 .. Degree} \ {NoNode},
  EntrySets  <- {EntrySet(e) : e \in EntryLists},
  early      <- StopsEarly,
  pending    <- PendingEntries,
  best       <- PrefixIds,
  done       <- RoundsDone,
  lost       <- hidden,
  spent      <- RoundsSpent,
  outcome    <- SearchOutcome

(* The traversal refines the best-first search, whatever bits the nodes    *)
(* have in the filter, and with or without the early stops.                *)
ImplementsBestFirst == BestFirst!Spec
=============================================================================
