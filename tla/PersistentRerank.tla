--------------------------- MODULE PersistentRerank ---------------------------
(***************************************************************************)
(* The block that reranks one query in                                     *)
(* persistent_bam_rerank_kernel_float32_dim (src/src/io/                   *)
(* bam_vector_provider.cu): it goes through the candidates window after    *)
(* window, prunes with the distance of the k-th nearest so far, and stops  *)
(* when its stop rule says so.  A window is read by all warps between two  *)
(* barriers and merged by one thread before the next, so these are the     *)
(* steps.  Where a distance comes from, the reuse cache or the page of the *)
(* vector, makes no difference to it.                                      *)
(*                                                                         *)
(* A search may record where each query stopped and a later one replay it. *)
(***************************************************************************)
EXTENDS RerankOrder

CONSTANTS
  Budget,   \* budget_top_n
  HeadProbe, \* kRerankLearnedStopHeadProbeCount
  Exact,    \* exact distance of each node
  Requests  \* queries to rerank, with the parameters of the launch

(* A request has a candidate list, invalid candidates included, the lower  *)
(* bound of the distance of each node, and options:                        *)
(*   tile        rank_tile_size                                            *)
(*   filter      kUseBoundFilter                                           *)
(*   early, min_prefix, patience    use_early_stop and its parameters      *)
(*   learned, bootstrap, stages     use_learned_stop, bootstrap_prefix and *)
(*                                  stage_prefixes                         *)
(*   record      the stop prefix is recorded and then replayed             *)

(* LoadRerankLearnedStopConfigFromFile keeps the stages of the model that  *)
(* are in the budget, and expects them in order.                           *)
InBudget(prefix) == 0 < prefix /\ prefix <= Budget
StagesOf(launch) == SelectSeq(launch.stages, InBudget)

ASSUME PersistentAssumption ==
  /\ Budget \in Nat \ {0} /\ TopK <= Budget /\ HeadProbe \in Nat \ {0}
  /\ Exact \in [Nodes -> 0 .. Infinity - 1]
  /\ \A r \in Requests :
       /\ r.list \in [1 .. Budget -> NodeOrNone]
       /\ r.bounds \in [Nodes -> Nat] /\ \A n \in Nodes : r.bounds[n] <= Exact[n]
       /\ r.options.tile \in 1 .. 128
       /\ {r.options.filter, r.options.early, r.options.learned, r.options.record}
            \subseteq BOOLEAN
       /\ r.options.record => r.options.learned
       /\ r.options.learned => r.options.filter
       /\ r.options.min_prefix \in Nat /\ r.options.patience \in Nat \ {0}
       /\ r.options.bootstrap \in Nat
       /\ LET stages == StagesOf(r.options)
          IN  /\ stages \in Seq(1 .. Budget)
              /\ \A i, j \in DOMAIN stages : i < j => stages[i] <= stages[j]

VARIABLES
  list, options, \* of the request
  lower,    \* precomputed_lower_bounds of the query
  begin,    \* rank_begin: the candidates before it have been processed
  pc,       \* "read", "merge" or "done"
  window,   \* shared_tile_distances and shared_tile_node_ids
  best,     \* out_distances and out_node_ids
  stage,    \* shared_stage_index
  next,     \* shared_next_prefix
  stable,   \* shared_stable_tiles
  probe,    \* what the last checkpoint saw of the window after its own
  stop, stopPrefix,
  replay,   \* replay_stop_prefixes of the query, or 0
  recorded  \* what the recording search stopped with

request == <<list, lower, options>>
vars == <<request, begin, pc, window, best, stage, next, stable, probe, stop,
          stopPrefix, replay, recorded>>

UseEarlyStop   == options.early
UseLearnedStop == options.learned

ResultTopN == IF UseLearnedStop THEN TopK ELSE Budget

LowerBounds(r) ==
  [i \in 1 .. Budget |-> IF r.list[i] = NoNode THEN Infinity ELSE r.bounds[r.list[i]]]

Stages    == StagesOf(options)
NumStages == Len(Stages)
Passed(prefix) == Cardinality({i \in 1 .. NumStages : Stages[i] <= prefix})

UseSchedule == UseLearnedStop /\ NumStages # 0 /\ options.bootstrap # 0
Evaluate    == UseSchedule /\ replay = 0

Empty       == [i \in 1 .. ResultTopN |-> Unfilled]
NoProbe     == [first |-> 0, end |-> 0, live |-> {}]
FirstStage  == IF UseLearnedStop THEN Passed(options.bootstrap) ELSE 0
FirstPrefix == LesserOf(Budget, IF UseSchedule THEN options.bootstrap ELSE options.tile)
-----------------------------------------------------------------------------
RankEnd == IF UseSchedule THEN next ELSE LesserOf(Budget, begin + options.tile)

Kth(entries) == entries[TopK].distance

KeptOnlyBelow(i) ==
  options.filter /\ Kth(best) # Infinity => lower[i] < Kth(best)

Kept(i) == options.filter /\ Kth(best) # Infinity => lower[i] <= Kth(best)

ReadWindow ==
  /\ pc = "read" /\ begin < Budget /\ ~stop
  /\ window' = [i \in 1 .. RankEnd - begin |->
       IF list[begin + i] # NoNode /\ Kept(begin + i)
       THEN Scored(Exact, list[begin + i]) ELSE Unfilled]
  /\ pc' = "merge"
  /\ UNCHANGED <<request, begin, best, stage, next, stable, probe, stop,
                 stopPrefix, replay, recorded>>

(* Insertion puts an entry behind the smaller ones and the equal ones that *)
(* came before it.  One without a node is not inserted: it would end up    *)
(* behind the last.                                                        *)
Place(entries, i) ==
  Cardinality({j \in DOMAIN entries :
                 \/ EntryLess(entries[j], entries[i])
                 \/ entries[j] = entries[i] /\ j <= i})

Inserted(entries, length) ==
  [r \in 1 .. length |->
     entries[CHOOSE i \in DOMAIN entries : Place(entries, i) = r]]

MergedBest == Inserted(best \o window, ResultTopN)

CheckpointDue ==
  /\ Evaluate /\ Kth(best') # Infinity
  /\ stage < NumStages /\ RankEnd >= Stages[stage + 1]

NextPrefixOfLast(i) ==
  LesserOf(Budget, IF i < NumStages THEN Stages[i + 1] ELSE RankEnd)

NextPrefix(i) ==
  LesserOf(Budget, IF i < NumStages THEN Stages[i + 1] ELSE RankEnd + options.tile)

(* Of the first candidates of the window after the checkpoint's own, those *)
(* with a bound at most the k-th distance are live.                        *)
Probe(first, end) ==
  [first |-> first, end |-> end,
   live |-> {i \in first + 1 .. end : lower[i] <= Kth(best')}]

ProbedOfThisStage == Probe(RankEnd, LesserOf(NextPrefix(stage), RankEnd + HeadProbe))

Probed == Probe(RankEnd, LesserOf(NextPrefix(stage + 1), RankEnd + HeadProbe))

(* The checkpoint of a stage: what its model makes of the probe, the k-th  *)
(* distance and its gains is a free choice.                                *)
Checkpoint ==
  /\ CheckpointDue
  /\ probe' = Probed
  /\ stop' \in BOOLEAN
  /\ stage' = stage + 1
  /\ UNCHANGED stable

ReplayPassed == RankEnd > replay

ReplayReached == RankEnd >= replay

ReplayStop ==
  /\ ~CheckpointDue /\ replay # 0
  /\ stop' = ReplayReached
  /\ stage' = IF Passed(RankEnd) > stage THEN Passed(RankEnd) ELSE stage
  /\ UNCHANGED <<stable, probe>>

EarlyStopDue == UseEarlyStop /\ RankEnd >= options.min_prefix /\ Kth(best') # Infinity

StableKeptOnGain == stable + 1

StableWindows == IF Kth(best') < Kth(best) THEN 0 ELSE stable + 1

EarlyStop ==
  /\ ~CheckpointDue /\ replay = 0 /\ EarlyStopDue
  /\ stable' = StableWindows
  /\ stop' = (stable' >= options.patience)
  /\ UNCHANGED <<stage, probe>>

NoStopRule ==
  /\ ~CheckpointDue /\ replay = 0 /\ ~EarlyStopDue
  /\ UNCHANGED <<stage, stable, probe, stop>>

MergeWindow ==
  /\ pc = "merge"
  /\ best' = MergedBest
  /\ Checkpoint \/ ReplayStop \/ EarlyStop \/ NoStopRule
  /\ stopPrefix' = IF stop' THEN RankEnd ELSE stopPrefix
  /\ next' = IF UseSchedule /\ ~stop' THEN NextPrefix(stage') ELSE next
  /\ begin' = RankEnd
  /\ pc' = "read"
  /\ UNCHANGED <<request, window, replay, recorded>>

Answer == Prefix(WithNodes(best), TopK)

Finish ==
  /\ pc = "read" /\ (begin >= Budget \/ stop)
  /\ pc' = "done"
  /\ recorded' = IF replay = 0 THEN [prefix |-> stopPrefix, answer |-> Answer]
                 ELSE recorded
  /\ UNCHANGED <<request, begin, window, best, stage, next, stable, probe,
                 stop, stopPrefix, replay>>

(* The replaying search refuses a prefix below top_k or above the budget.  *)
Refused == ~ (TopK <= recorded.prefix /\ recorded.prefix <= Budget)

StartReplay ==
  /\ pc = "done" /\ replay = 0 /\ options.record /\ ~Refused
  /\ begin' = 0 /\ pc' = "read" /\ window' = <<>> /\ best' = Empty
  /\ stage' = FirstStage /\ next' = FirstPrefix /\ stable' = 0 /\ probe' = NoProbe
  /\ stop' = FALSE /\ stopPrefix' = Budget /\ replay' = recorded.prefix
  /\ UNCHANGED <<request, recorded>>

Init ==
  /\ \E r \in Requests :
       list = r.list /\ lower = LowerBounds(r) /\ options = r.options
  /\ begin = 0 /\ pc = "read" /\ window = <<>> /\ best = Empty
  /\ stage = FirstStage /\ next = FirstPrefix /\ stable = 0 /\ probe = NoProbe
  /\ stop = FALSE /\ stopPrefix = Budget /\ replay = 0
  /\ recorded = [prefix |-> 0, answer |-> <<>>]

Next == ReadWindow \/ MergeWindow \/ Finish \/ StartReplay

(* A block that was launched runs on.                                      *)
Spec == Init /\ [][Next]_vars /\ WF_vars(Next)
-----------------------------------------------------------------------------

(* An early stop is one after options.patience windows that left the k-th  *)
(* distance where it was.  (A replay stops by the record instead.)         *)
KthOfPrefix(length) ==
  KthDistance([i \in 1 .. length |-> Scored(Exact, list[i])])

EarlyStopStable ==
  (stop /\ replay = 0 /\ ~UseSchedule) =>
    /\ stopPrefix >= options.min_prefix
    /\ stopPrefix < Budget =>
         KthOfPrefix(stopPrefix - options.patience * options.tile) = KthOfPrefix(stopPrefix)

(* What a checkpoint saw before it went on is the head of the window that  *)
(* is read next, and its live candidates are those that window will read:  *)
(* the stage counter moves on between the two.                             *)
HeadOfWindow ==
  LET end == LesserOf(RankEnd, begin + HeadProbe)
  IN  [first |-> begin, end |-> end,
       live |-> {i \in begin + 1 .. end : list[i] # NoNode /\ Kept(i)}]

ProbedIsReadNext ==
  [][(pc = "merge" /\ Evaluate /\ stage' # stage /\ ~stop' /\ begin' < Budget)
       => probe' = HeadOfWindow']_vars

(* A replay stops where the recording stopped, with its answer.            *)
ReplayReproduces ==
  (pc = "done" /\ replay # 0) =>
    begin = recorded.prefix /\ Answer = recorded.answer

(* A query whose candidates up to the first stage after the bootstrap are  *)
(* too few for a k-th distance: the stage is then never due, and the next  *)
(* window ends where the last one ended.                                   *)
Starved ==
  /\ UseSchedule /\ FirstStage < NumStages /\ Stages[FirstStage + 1] < Budget
  /\ Cardinality({i \in 1 .. Stages[FirstStage + 1] : list[i] # NoNode}) < TopK

(* The block of a query ends, and with it the launch that waits for it,    *)
(* unless the query is starved by the schedule of the learned stop: such a *)
(* block reads empty windows for ever.                                     *)
Terminates ==
  \/ ~Starved /\ <>[](pc = "done")
  \/ Starved /\ [](pc # "done")

(* The search of a query, before any replay, implements the plain rerank:  *)
(* without a stop rule it answers from all candidates, with one from those *)
(* before some rank.  (Terminates says which searches get that far.)       *)
Baseline == INSTANCE ExactRerank WITH
  Queries        <- {1},
  Exact          <- <<Exact>>,
  CandidateLists <- [{1} -> [1 .. Budget -> NodeOrNone]],
  candidates     <- <<list>>,
  depths         <- <<IF UseEarlyStop \/ UseSchedule THEN 1 .. Budget ELSE {Budget}>>,
  answered       <- IF recorded.prefix # 0 THEN {1} ELSE {},
  answer         <- <<recorded.answer>>

ImplementsRerank == Baseline!Safety
=============================================================================
