# TopoANNS in TLA+

TopoANNS is an approximate nearest-neighbour search system that keeps its graph
index on NVMe SSDs and lets the GPU issue the reads. A batch of queries goes
through three steps: entry nodes for every query, a traversal of the topology
with product-quantised (PQ) distances, and a rerank of the candidates with
exact distances. This directory holds TLA+ modules for the parts of that
pipeline in which an order of events, a bound or a reused buffer decides
whether the answer is right, TLC configurations that check them on small
instances, and proofs, checked by TLAPS, of what holds for every size.

The reference is the code. Paths below are those of the repository: `kernel.cu`
is `src/search/topology_search_kernel.cu`, `rerank` is
`src/search/rerank_exact.cu`, `provider` is `src/io/bam_vector_provider.cu`,
`page_cache.h` is `third_party/bam/include/page_cache.h`, and `pipeline` is
`tools/topoanns_overlap_pipeline_eval.cpp`.

## 1. The system

### Components

| Component | State | Operations | Modules |
|---|---|---|---|
| Topology traversal (`topology_traversal_kernel`, one block per query) | candidate array, unexpanded bits, visited filter, staged rows, counters | launch, seed, evaluate stop rules, select, read rows, admit, compute distances, sort and merge, rebuild | `TopologyLaunch`, `CandidateList`, `TopologySearch`, `FrontierDistances`, `WarpReduce`, `BestFirstSearch` |
| Microbatched traversal (`RunTopologySearchKernelBatchDeviceMicrobatched`) | slots with phase, buffers, counters, events; one stream per slot and one I/O stream | activate, init, select, read, resume, poll, recycle | `MicrobatchPipeline`, `QueryRounds` |
| Exact reuse table (`InsertExactReuse`, `LookupExactReuse`) | ids and distances of an open-addressing table per query | compare-and-swap insert, store, probe | `ExactReuse` |
| GPU page cache of BaM (`page_cache.h`) | state word per page, lock and translation per slot, ticket; range table | pin, load, hit, find_slot (claim, lock, mark, clear), release; add ranges, reset, release states | `PageCache`, `SharedCache` |
| NVMe queue pairs of BaM (`nvm_parallel_queue.h`) | tickets, turns, heads, tails, marks of the rings, command ids | submit, move the tail, poll, dequeue, move the head, flush | `NvmQueue`, `ReadService` |
| Rank-tiled rerank (`RunBatchFloat32FromDeviceTopologyRankTiled`) | tile buffers, final arrays, thresholds | prepare, compact, score, scatter, threshold, finalize | `RankTiledRerank`, `RerankSort`, `RerankOrder`, `ExactRerank` |
| Persistent rerank (`persistent_bam_rerank_kernel_float32_dim`) | window, best list, stage, stop prefix, head probe; traces of stop prefixes | read a window, merge, probe, stop early, stop by the learned model, record, replay | `PersistentRerank`, `RerankOrder`, `ExactRerank` |
| Host rerank (`RunBatchImpl`), linear mode and the entry points of all modes | none between runs of a sweep but the traversal's lists | check, refine, choose a mode, score, sort | `RerankBatch`, `ProductQuantizer`, `WarpReduce` |
| PQ2, residual and hybrid refinement | tables per query and per pair of centers | distances by codes, bounds, refined lists | `ProductQuantizer`, `RerankBatch` |
| Search orchestration (`topoanns_search.cpp`, `topology_search.cpp`) | none | check, traverse once, rerank once per parameter set | partly: `RerankBatch`, `TopologyLaunch` |
| Search resources (`search_resources.cpp`) | loaded indexes, tables made from two of them, attached providers | load, replace, attach, clear | `SearchResources` |
| Entry providers, `legacy_rvq` | posting lists, rows of entries per query | name a cluster, gather its list, cut the rows of a batch | partly: `EntryPoints`, `PipelineTool` |
| Host stop condition, PQ oracle | none | pure functions | partly: `ProductQuantizer` |
| Index formats and layouts | files | parsing, address arithmetic | partly: `TopologyFile`, `ProductQuantizer`, `SharedCache` |
| Pinned topology | host allocation, position in the file | check the header, map, copy in pieces | `TopologyFile`, `PipelineTool` |
| Overlapped evaluation pipeline (`topoanns_overlap_pipeline_eval.cpp`) | two stage threads, a bounded queue with condition variables, outcomes, the first exception; the launch gate; the provider in use | push, pop, close, fail, join, rethrow, finalize; announce, submit, cancel; load, sweep, switch files, run | `BatchPlan`, `OverlapPipeline`, `SerialExperiment`, `LaunchGate`, `PipelineTool` |
| Tools that write the device (`topoanns_bam_write_*.cpp`) | the pages of the SSD | write a payload in chunks | `SharedCache` |
| Other tools, evaluation, dataset preparation | the topology file | extract a topology; the rest are command-line programs | partly: `TopologyFile` |
| BaM control plane, driver, admin queue | vendored | set-up | not modelled |

### How they interact

* `topoanns_search.cpp` calls the traversal with a list that is at least as long
  as the rerank is deep (67-72), hands the device buffers of its candidates to
  one of the rerank modes, and gives each mode the bounds it prunes with.
* The threads of a traversal block meet at barriers, but test and set bits of
  the visited filter with none in between. The microbatched variant puts all
  tests before all adds.
* A microbatch slot is driven by the host and runs on its own stream. All slots
  share one I/O stream, and events are what orders the read kernel with the
  select and resume kernels of its slot.
* A read kernel pins pages of the page cache with all threads of a block, meets
  at a barrier, copies, meets again and unpins. Blocks share the cache and
  nothing else.
* The traversal leaves exact distances in the reuse table, and the persistent
  rerank takes them from there instead of reading a page.
* A missing page is read through one of the queue pairs, which all threads of
  the grid share; a thread may do its neighbour's work there (move the tail or
  the head over entries that others have marked).
* The pipeline tool has one page cache and reads several files through it in
  turn. Between runs it resets the cache's ranges and hands the numbers to other
  files; stage A tells stage B how to take a record from a page.
* The tools that wrote those files used the same cache as a staging area.
* A recorded search leaves a stop prefix per query in a trace, and a later
  search replays it.
* The overlapped pipeline runs the traversal of one batch while another thread
  reranks an earlier one. What the first has made travels through a bounded
  queue, and a failure of either thread has to reach the other and the caller.

### What is hard

Concurrency is mostly on the device: threads of a block between barriers, warps
with compare-and-swap loops, blocks that share the page cache, streams ordered
only by events. On the host it is the two threads of the overlapped pipeline and those of the
launch gate, each of which may fail at any call. Nothing is persisted and no messages are lost, so there is no
recovery to model. The other hard parts are state that is forgotten on purpose
(the filter is cleared and rebuilt from a prefix of the list), state that is
reused (slots, staged rows, tables), decisions taken with old knowledge (the
threshold of the tile before, the state word read before), boundaries (a budget
tested once a round, bits counted in words, bounds equal to a threshold), and
loops without a bound of their own (`find_slot`, the windows of the learned
rerank). `PROJECT.json` lists each hazard at its line, with the properties that
would catch it going wrong.

Of these hazards the code has too, but no property is about them:

* the learned stop's configuration is one `__constant__` symbol that every launch
  overwrites (`topology_search_kernel.cu:4118`); the tools have one traversal at a
  time, and a property would be about a client the repository does not have;
* the exact-reuse tables are filled on the default stream and used on
  non-blocking ones (4038), ordered by nothing but what the host does in between;
* a window of the learned schedule is as long as the gap between two stages
  (`bam_vector_provider.cu:859`), and the loader does not check that the stages
  of the model file are sorted; `PersistentRerank` assumes that they are;
* `LoadPqIndex` keeps tables built from the index before
  (`search_resources.cpp:119`), and nothing compares the number of points of the
  base and the residual codes (52-93); `TablesOfInstalledCodes` claims neither, and
  the tools load once, files of one data set;
* with `top_n = 0` the fused search indexes a result without queries
  (`topoanns_search.cpp:215`); `RerankBatch` takes `top_n` from 1;
* the page translations of a new cache are never initialised
  (`page_cache.h:805`), which matters only where new memory is not zero;
* a thread whose flush command was sent by another can publish more than its
  command covers (`nvm_parallel_queue.h:300`), and tickets start again after 2^32
  commands (184).

### What makes each part correct

* Traversal: the list is sorted, its prefix never
  forgotten by the filter; no node is expanded twice; ranks only get
  better; a search that is not cut ends at a local minimum, but for what the
  filter hides behind bits of other nodes; every stop rule cuts only what it may,
  and no earlier. At width 1 it is a best-first search.
* Microbatches: each query goes through the rounds it would go through alone;
  buffers are used by one round at a time; the run-time checks never fire.
* Exact reuse: one slot per node, what was stored is found, and a hit is right.
* Page cache: a page that is pinned stays where its holder was told it is; a
  valid page is where its entry says; every request is served, unless every slot
  holds a pinned page for good.
* Overlapped pipeline: the caller gets what the serial experiment gives, or the
  exception that was the cause; both threads end; device memory is bounded.
* Frontier distances: every node gets the sum of its terms, each once, in every
  mode and however late a tile of the table lands, but for two kinds of nodes that
  the property names.
* Queue pairs: a thread gets the answer to its own command, and every read lands
  once, before its call returns, and does return, as long as no thread that polls
  is lapped by the others.
* Session of the tool: every record read is the one asked for, although range
  numbers change their file, and every query starts at the entries of its own
  cluster; the pinned topology is the graph that was built; tables belong to the codes they were made from; a
  measurement is reported only of two kernels that were in flight together.
* Rerank: the answer is the top k of all candidates, whatever is pruned or
  tiled; with a stop rule, the top k of a prefix; a replay reproduces. A query is
  answered unless the learned schedule starves it.

## 2. Modules

    CandidateList ── TopologySearch ──implements──> BestFirstSearch
                          │   └── instances from TopologyLaunch
                          └── TopologySearch_proofs

    WarpReduce ── FrontierDistances

    MicrobatchPipeline ──implements──> QueryRounds
         └── MicrobatchPipeline_proofs

    ExactReuse ── ExactReuse_proofs

    PageCache ── PageCache_proofs

    NvmQueue ──implements──> ReadService

    BatchPlan ── SerialExperiment (abstract)
           └──── OverlapPipeline ──implements──> SerialExperiment
                      └── OverlapPipeline_proofs

    SearchResources ─────────────┐
    SharedCache ── LaunchGate ───┼─ PipelineTool ── PipelineTool_proofs
    TopologyFile ── EntryPoints ─┘

    RerankOrder ── ExactRerank (abstract)
              ├─── PersistentRerank ──implements──> ExactRerank
              │         └── PersistentRerank_proofs
              └─── RerankSort ──────┬─ RankTiledRerank ── RerankBatch
    WarpReduce ── ProductQuantizer ─┘                        │  └──implements──> ExactRerank
                                                    RerankBatch_proofs

Every `MC...` module extends one of these with the small sets of a run and
declares nothing else.

### CandidateList and TopologySearch

`CandidateList` holds the operators of the candidate array: the order of
candidates (distance, then id), ranks that are unexpanded, the filter's test,
and `MergeFrontier`, which is what sorting a frontier and
`MergeFrontierIntoCandidates` compute: the ranks of accepted entries, the
shift of the others, and what falls off at the capacity.

`TopologySearch` is one block. A step is what the block does between two
decisions: `SeedBatch` (a batch of entry ids), `FinishSeeding`,
`StopAtLimit`/`StopLearned`/`StopSettled` (the exits at the head of the loop,
in the order of the code), `SelectNodes` (the scan over the unexpanded bits)
and `ExpandSelected` (read the rows, admit, sort, merge, `RebuildPrefixState`).
`AdmittedSlots` gives every set of frontier slots that some interleaving of the
threads' tests and adds can admit. What a launch can be configured with is the
variable `launch`, fixed by `Init` to a member of the constant `Launches`: the
prefix of the candidate stop and how its words are read, the stages of the
learned stop and whether it only records, how many rows a round stages, and
`test_then_add`, the microbatched variant, in which one outcome of the
admission is possible, and `high_l`, the kernel for long lists, which merges by
output positions: `EntriesAhead` is where the two merges differ, a new entry
going in front of an equal one or behind it. `given` and `hidden` are histories
that the block does not keep: the nodes whose bits the filter was given since its
last rebuild, and the nodes that it refused, when they were last offered, although
it was not given them (`RecordOffer`). The properties need them to say what
collisions of the filter cost. The learned stop is modelled up to its
logit: `NextStages` says which stages are passed and which may fire. PQ
distances are a constant `Dist`, which may have ties. Hash functions are the
constant `HashBits`: the bits of each node.

`TopologyLaunch` is the host side of a launch: from the parameters of a search,
what the resources have and the environment, `LaunchRefused` and
`MicrobatchRefused` say whether it throws and `Options` what the kernel runs
with. `MCTopologySearch` takes its launches from there, so that a stop prefix or
a schedule that no launch can have is not among them.

`BestFirstSearch` is the abstract search at width 1: a set of the nearest nodes
met so far, no filter, no array, and no memory of what was dropped. It may lose a
node when it meets it, which is on record until the node is met again and taken in
(`Meet`), and may stop early if it was told so. Its refinement mapping, at the end
of `TopologySearch`, takes `hidden` for the nodes that are lost.

### FrontierDistances and WarpReduce

`FrontierDistances` is `ComputeFrontierDistances` for a block of warps. Without
staging a warp's share is one step (`ComputeUnstaged`), whose sums are those of
`WarpReduce`: lanes first, then halves by `__shfl_down_sync`. With staging
(`gustann` mode, `TOPOANNS_GUSTANN_LUT_TILE_CHUNKS`) the steps are the copies a
warp issues (`BeginPass`, `PrefetchNext`), each copy's landing at some later time
(`Land`), the wait and the barrier, the sum over a tile (`ComputeTile`) and the
store. A thread's code of a chunk may lie in the part of the tile that any warp
has copied, which is what `copiers` ranges over. In `bang` mode shuffles under
the full mask that some groups of a warp skip have an undefined result
(`Scrambled`).

### MicrobatchPipeline and QueryRounds

The host's scan over the slots (`PassSlot`, `IssueRound`, `EndRound`,
`Synchronize`), the operations it enqueues (`SelectOperations`,
`ResumeOperations`, `ReadOperations`) and their execution at the head of a
stream are separate actions, so all orders the events allow are explored. A row
is a pair of a query and the number of the expansion it belongs to, so a row of
another round or query is recognised. The read kernel answers requests in any
order. `QueryRounds` is the promise to a query: select, then merge exactly the
rows that were selected, as if there were no other query.

### ExactReuse

Warps insert nodes; a step is one compare-and-swap or the store of the distance
after it. `LookedUp` is the probe of `LookupExactReuse`. A distance is
represented by the node it belongs to.

### PageCache

A step is one atomic operation on a state word, or the plain accesses after it.
`Pin`, `TryLoad`, `Hit`, `SeeBusy`, `Reload` are `acquire_page`; `SkipSlot`,
`ClaimFree`, `LockSlot`, `Examine`, `Mark`, `Unmark`, `Clear` are `find_slot`;
`Read`, `Publish`, `Enable` are the load; `CopyRecords`, `Release`, `NextTile`
are the read kernel between its barriers. A thread stands for the lanes of a
warp that `coalesce_page` combines. The page numbers a 32-bit address can tell
apart are the constant `AddressSpan`.

### NvmQueue and ReadService

A queue pair and the threads that read through it. `TakeTicket`, `WriteCommand`,
`MarkSlot`, `SeeSlot`, `MoveTail`, `RingSq`, `StoreTail` and `PassTurn` are
`sq_enqueue`; `LoadHead` and `Scan` `cq_poll`; `MarkEntry`, `SeeEntry`,
`MoveHead`, `RingCq`, `StoreHead`, `HeadPassed` `cq_dequeue`; `LoadFlushHead` to
`Publish` the flush command of `enqueue_second`. The device (`Fetch`, `Complete`)
is external: it takes commands in order and answers in any order, in the phase of
the lap. Counters are 32-bit in the code and `CounterSpan` wide here.
`ReadService` is the promise: a call asks, the page lands once, the call returns.
`lapped` is a history: a poller has scanned from a head that it loaded more than a
lap of freed entries ago (`Freed`). One phase bit tells it one lap from the next
and no more, so both properties end there.

### SearchResources, SharedCache, LaunchGate, TopologyFile, EntryPoints, PipelineTool

`SearchResources` has one action per load, attachment and release, with the steps
that can throw. `SharedCache` begins with the SSD after the write tools: payloads
in chunks as long as the cache, zeros behind the last one (`WriteChunk`). Then it
is the cache over several files: `AddRanges`, `ResetRanges`, `ReleaseAllBut`, and an
access as one step, the reads and evictions of `PageCache` taken together.
`LaunchGate` is `RunConcurrentMeasurement` with two threads, the three flags, the
notifications outside the mutex and spurious wake-ups. `TopologyFile` is the file of the topology: the tool that extracts it writes it
node by node and may do so again while a search has it open (`StartBuild`,
`WriteRow`), and a search checks the header, allocates, and copies it from the
start or in pieces. `EntryPoints` has the two ways to the entries of a query, the
lists of the host and the rows of the device, of which the tool cuts the slice of
a batch; which cluster the quantiser names is a choice. `PipelineTool` composes
them into `main` of the pipeline tool: loads, plan of the cache sweep, switches
between files, runs of stage A and B as the records they read, and the trace
benchmark. Any call may fail. One of its clients is not the tool but a program
that loads indexes in any order.

### BatchPlan, OverlapPipeline, SerialExperiment

`BatchPlan` is `BuildBatchPlan` with its merged tail. In `OverlapPipeline` a
step is one call of a stage, or one critical section of `BoundedQueue` or of
`set_worker_error`. `wait` with a false predicate puts a thread into `asleep`,
a notification or a spurious wake-up takes it out, and it tests the predicate
again; a notification that is missing is therefore a thread that sleeps on.
`CallFails` is an exception of any call, `SetWorkerError` and `Close` are the
two steps of the catch block in their order. `SerialExperiment` is
`RunSerialExperiment`, the one-threaded mode of the same tool.

### RerankOrder, ExactRerank, RankTiledRerank, PersistentRerank

`ExactRerank` answers each query once, with the top k of the candidates up to a
depth it may choose from `depths`; without a stop rule there is one depth.
`RankTiledRerank` has the prepare kernel's threads append in any order
(`PrepareCandidate`) and models allocated memory as arbitrary (`Uninitialised`).
`RerankSort` has the bitonic network with its padding and the host's exchange
sort, and `ProductQuantizer` and `WarpReduce` the distances: the
records of a page, the sums of lanes, the query tables, cross terms, residual and
hybrid codes and the error bound that the filter trusts, on integers.
`RerankBatch` is the batch as a whole: the checks of
`RunBatchFloat32FromDeviceTopology`, the refinement of the lists, and one run
after the other of a sweep, with `RankTiledRerank` as the steps of the tiled
modes and the other modes as one step each. Its property is that every run
answers what the plain rerank answers of the list it is meant to work on.
`PersistentRerank` goes window by window, and a checkpoint probes the head of
the next window before the stage has moved on (`Probe`); stop rules are alternatives of
`MergeWindow` in the order of the code, and `StartReplay` runs the same query
again with its recorded stop prefix. The logit of its learned stop is free.

## 3. Runs

| Run | Instance | Checks |
|---|---|---|
| `search_width1` | width 1, five nodes, every topology with rows of two distinct neighbours (one row fixed, by symmetry of its role), `top_l` 2, capacity 4, budget 4, filter bits shared by neighbouring nodes; the launches of `search_width2` | `ExpandedOnce`, `ImplementsBestFirst` |
| `search_width2` | width 2, four nodes with ties, rows with padding, repeated and invalid entries, `top_l` 3, capacity 4, budget 3, shared filter bits, bits of ranks in words of two; five launches: without stop rules, the high-L kernel with a prefix stop and unstaged reads, and three microbatched ones, with the prefix stop that counts expansions and with learned stages, alone or in shadow mode over a prefix stop; five more requests that are refused; all interleavings of test and add | `SortedList`, `PrefixInHash`, `ExpansionBudget`, `LocalMinimum`, `EarlyStopSettled`, `LearnedStopEarned`, `RankMonotone` |
| `frontier_distances` | two warps of four lanes, five chunks, two rounds of frontiers with invalid entries, shorter and longer than the block; one or two warps at work, groups of two lanes with nodes or without, a thread per node, the table in one, two and three tiles | `RightDistances` |
| `microbatch` | five queries in microbatches of two and two slots, so that slots are reused and the last microbatch is short; width 1, budget 1 | `NeverThrows`, `BuffersExclusive`, `ImplementsRounds` |
| `exact_reuse` | three warps, five nodes, three of them with one home slot, tables of one, two and four slots (the default) | `OneSlotPerNode`, `StoredIsFound`, `HitIsRight`, `DefaultSuffices` |
| `page_cache` | a block of two threads with one tile and a block of one with two, three pages, two slots | `PinnedPageStable`, `ValidIsCached`, `EveryTileServed` |
| `nvm_queue` | two threads, four submission slots and four completion entries, two command ids, one thread reads four times and the other once | `OwnAnswer`, `ImplementsService` |
| `session` | three files of one, two and three pages, two slots, two ranges; ten command lines and a library client; up to five reads a run; a topology of three nodes of degree two that is rebuilt once; four clusters with lists of up to three of which two are kept, and batches of three queries in microbatches of two | `ReadsExpected`, `PinnedAsBuilt`, `TranslationsAlive`, `MeasuredTogether`, `TablesOfInstalledCodes`, `ToolEnds` |
| `rerank_batch` | two queries over six vectors in three dimensions, lists of no to five nodes, one or two reruns in every mode, refined or not, with refusals after a run that succeeds | `ThresholdIsKth`, `ImplementsRerank` |
| `rerank_persistent` | lists of no to five candidates, `top_k` 2, a head probe of 2: no stop rule, the early stop, the learned stop recorded and replayed | `EarlyStopStable`, `ProbedIsReadNext`, `ReplayReproduces`, `ImplementsRerank`, `Terminates` |
| `overlap` | up to six queries in batches of up to three, tail merged or not, a ring of no, one or two places, any call may fail | `BuffersBounded`, `CauseReported`, `ImplementsSerial`, `Ends` |
| `rerank_tiled_holes` | unfiltered lists with invalid candidates | `AnswersBaseline`, violated |

### Bounds, and why they are enough

* The traversal. A node has to be dropped from the prefix and the filter be
  rebuilt (every third merge) before it is offered again: a `top_l` of 2 or 3,
  four or five nodes and a budget of 3 or 4 expansions after up to two entry
  batches reach that. Every topology of the stated shape is an initial state,
  so no graph is singled out. The capacity exceeds `top_l` in both runs, which
  gives the list a tail outside the filter. Two bits for each node, each shared
  with one neighbour, are the least with which a node can be refused for the bits
  of two others, none of them its own.
* Microbatches. A slot is reused for a third microbatch that is shorter than
  the others; two slots are what it takes for one to read while another
  computes, and the I/O stream is shared. Budget 1 already gives the longest
  chain of events: a round with a read, a round that ends the query.
* Page cache. Three pages for two slots force evictions; three requests reach a
  stale reload and an eviction after it. The threads of the first block hold their
  pins until both have a page, so the block takes the whole cache, and a second
  copy of one of its pages leaves it none: the states in which nobody can go on
  are reached in either way.
* Rerank. Tiles and windows do not divide the lists, lists have ties between
  distances and between bound and threshold, and top k is smaller than a list,
  equal to one, and (in `rerank_batch`) larger. The
  codes of `MCRankTiledRerank` miss two of the six vectors by a distance their error
  bounds state, so that the filter prunes with bounds that are not tight, and a
  list of five is longer than the device sorts.
* Frontier distances. Four lanes and five chunks make a second, partial group of
  chunks; tiles of two, three and five make an odd number, an even number and
  one, each with frontiers of one pass and of two; a second round begins with what the first has left in the buffers. Node
  `n` has `n * 10^c` for chunk `c`, so a sum shows which terms it has.
* Queue pairs. Five reads and their flush commands are ten completions in a queue
  of four: it goes round more than twice, and a poller can be lapped, which is what
  the history `lapped` records. Command ids and submission slots are used again as
  well. Two more instances hold: three threads with three command ids, one read each
  (`MCOnce`) and queues of two and two, 1,033,417 states; and two threads with five
  reads each (`MCLong`) in queues of two and counters of eight, 1,898,681 states.
* Session. Two slots make every run evict; two ranges are what the provider with
  the most files needs; the sweeps switch from one file to two and back. A run of
  five reads covers both stages after each switch. One rebuild is enough for a
  copy that began with the old file to end with the new one; one list is longer
  than what is kept of it, one is empty, and one query has no cluster.
* Overlapped pipeline. A ring of one and two places with up to six batches fills
  and empties several times; a ring of none, which the command line accepts,
  shows that safety does not depend on it, and is what `Ends` excludes.
* Exact reuse. Three nodes collide in one slot and wrap around the end of the
  table; a table of one or two slots overflows.

Counters have no caps of their own: budgets, tiles and list lengths end every
behaviour, so `CHECK_DEADLOCK FALSE` is set because the programs end.

### Fairness

* `TopologySearch`, `RankTiledRerank`, `PersistentRerank`: `WF(Next)`. A block
  that was launched, and a host thread in sequential code, runs on.
* `MicrobatchPipeline`: the host thread polls without blocking, each stream
  executes what is enqueued, and the I/O stream does too: weak fairness for
  each of them separately.
* `PageCache`: weak fairness for each thread and each block's barrier. The spin
  loops of `find_slot` and `acquire_page` already rely on this: a thread that
  spins waits for another one of the same grid.
* `NvmQueue`: weak fairness for each thread and for the device, which fetches
  what is announced and answers what it fetched.
* `PipelineTool`: weak fairness for the tool and for each thread of the gate; as
  in the overlapped pipeline no failure is assumed to come.
* `RerankBatch`: the host goes on from run to run until the batch has ended. It
  is stated as `[]<>Ended \/ []<><<BatchNext>>_allVars`, which is weak fairness of
  its next step with the guard of that step named.
* `OverlapPipeline`: weak fairness for either thread and for the caller. The
  operating system runs a thread that can run; no failure and no spurious
  wake-up is assumed to come.

No strong fairness is assumed.

## 4. Proofs

Each of the eight theorem modules is about the module it is named after, for all
values of the constants: `TopologySearch_proofs`, `MicrobatchPipeline_proofs`,
`ExactReuse_proofs`, `PageCache_proofs`, `PersistentRerank_proofs`,
`RerankBatch_proofs`, `OverlapPipeline_proofs` and `PipelineTool_proofs`.

### The traversal

`TopologySearch_proofs` begins with lemmas about the merge and the selection. The
inductive invariant of `TypeCorrect`, `PrefixStaysInHash` and `BudgetKept` is

    FilterInvariant == TypeOK /\ SelectedNodes /\ TailInvalid /\ PrefixInHash

`PrefixInHash` alone is not inductive. A merge keeps it only if every node of
the new prefix was in the old prefix or passed admission, which the merge lemma
gives, and if what lies behind the valid candidates is invalid (`TailInvalid`), so
that the entries that move into the prefix are accounted for; `SelectedNodes` says
that the selected places hold nodes, which keeps the rows that are read within
types. There is one step per action, and a case for a merge that rebuilds the
filter and for one that does not. `BudgetKept` needs that a round selects at most
`Width` nodes and starts below the budget.

`ListStaysOrdered` and `RanksOnlyImprove` extend it by `ListOrdered`. The merge is
stated by output positions, and the lemmas show that these make a sorted list: the
accepted slots above a place are the first of the sorted frontier (`AboveRanks`),
so they are counted by a rank, and the entry that is shifted to a place without a
new one was in the list (`MergedEntry`), belongs between the new entries around it
(`OldFitsBetween`) and keeps its order among the old ones (`OldKeepOrder`). From
these come `MergeInOrder` and `MergeNearer`. `TopKIsNearest` adds what the host
cuts from the array.

`EarlyStopsSettle` adds `BitsRebuilt`: whenever a stop rule is evaluated,
`unexpanded_bits` are those of the unexpanded ranks of the prefix. It needs the
rounding up to words (`WordsCoverPrefix`), and that a selection that finds nothing
can only follow a stop by the number of expanded nodes.

`LearnedStopsAreEarned` goes with it. The list never shrinks and expansions only
grow, so a stage that had its turn has had it for good; and a search that ends with
work left was stopped at its limit or by a stage that was usable and ready.

Three theorems have hypotheses, because the code does not keep them without
(section 5 has the instances that show it). None is about the filter: any number
of nodes may share its bits.

* `EndsAtLocalMinimum` assumes `Width <= Warps`, every selected row is staged. Its
  invariant, `MinimumInvariant`, is about nodes that are *settled*: in the prefix,
  or so far that the prefix is full without them. Settled is stable under a merge.
  A node the filter was given since its rebuild is settled (`HashCovered`), so what
  the filter refuses is settled or hidden (`RefusedIsHidden`), what a full list drops
  is settled, and all neighbours of the nodes expanded before the round are
  accounted for in this way (`TraceSettled`, with `RoundInTrace` for the nodes the
  round is about to expand). A hidden node stays hidden until it is offered and
  passes, and is then settled by the merge.
* `EachNodeExpandedOnce` assumes `SingleFile`: width 1, rows and entry lists that
  name no node twice. `OnceInvariant` says that the
  prefix holds no node twice (`PrefixDistinct`), and that an expanded node is in it
  with its flag set, or is out of it for good (`TraceRetired`): a node the rebuilt
  filter lets in again is farther than a full prefix.
* `TraversalIsBestFirst` assumes the same. The set of `BestFirstSearch` is what the
  prefix holds; a merge is one of its steps because the nearest of all nodes that
  were not lost are those in front of the list, whatever the filter refused
  (`SearchInvariant`, `FilterKnows`). Exits at the limit and by stop rules are its
  steps that cut the search.

### Microbatches

`HostChecksNeverFire` and `RowsUsedByOneRound` are from

    PoolInvariant == PoolTypes /\ SlotsInOrder /\ (\A s \in PoolSlots : InRound(s))
                       /\ ReadsAwaited /\ NeverThrows

A stream is never anything but a suffix of the operations of a round, and
`InRound` ties that suffix to the slot's phase and to its events: once the event
that the host waits for is complete, the stream is empty. `ReadsAwaited` says that
a slot has at most one read and one signal in the I/O stream, in this order, and
that its own stream is then at the wait in front of the resume kernel. That the
host's checks never fire is a counting argument, in `RoundsBounded`: a query that
is still active after `r` rounds has expanded a node in each of them, so no query
selects in a round that begins after `MaxExpansions`, and the count of active
queries that the round before has copied to the host was not zero only below the
budget. The bound on the requests is that of a set of pairs of a place and an
index below the width (`RequestsFit`).

`MicrobatchIsRounds` is the refinement of `QueryRounds`, step by step, if
`Width <= Warps`: a row without a warp is never asked for. `RoundsInvariant` says,
for the slot that a query belongs to and each point of its stream, that the query
has merged the rows of all nodes it expanded but those it selected last
(`InItsRound`), and that each of those rows is in its place or will be put there
by a request that is not served yet, ahead of the merge (`Arrived`, `Coming`). So
the merge is a step of `QueryRounds`, the selection another, and everything else
that streams, events and the host do shows nothing.

### Exact reuse

`ReuseTypes`, `NodeHasOneSlot`, `StoredStaysFound` and `HitsAreRight` are from

    TableInvariant == TypeOK /\ Reachable /\ PassedSlots /\ ClaimedSlots
                        /\ StoredInTable /\ DistanceOfId

`Reachable` is the invariant of open addressing: on the probe sequence of each
node in the table, no slot before its own is free or its own. `PassedSlots` is
the concurrent part: the slots a warp has already probed past hold other nodes,
and since ids are never removed this stays true while other warps insert.
`ClaimedSlots` holds a warp's slot between its compare-and-swap and its store.
The hash function is arbitrary, so the proof covers any collision pattern, and
the numbers of warps and slots are arbitrary as well.

`DefaultCapacitySuffices` adds a count. A warp that gives up has passed every slot,
so the table is full; but the slots that are taken and the warps that may still
take one are no more than the expansions so far (`ExpansionsCover`), and these pass
the budget by less than a round. The table has a power of two of slots, and that
`2 ^ i` is a number above `i` is `PowersAssumption`, for which the provers have no
rule.

### Page cache

`CacheTypes`, `PinnedStaysInSlot` and `ValidStaysCached` hold for every number of
pages, slots, threads, blocks and tiles, under the hypothesis
`PageCount <= AddressSpan`: without it the second is false (section 5). The
invariant has eleven parts:

    CacheInvariant == TypeOK /\ PageOfPlace /\ CountIsPins /\ LocksExclude
                        /\ KeepersExclude /\ EvictsAnother /\ FilledSlot /\ HeldSlot
                        /\ ValidCached /\ SeenCached /\ ClearsUnused

BUSY has two uses, a load and an eviction, and `KeepersExclude` says that at most
one thread at a time is in either of them for a page; with `LocksExclude` that
makes a slot and the page in it the matter of one thread. `ClearsUnused` is the
argument of the eviction protocol: the count was zero when BUSY was set
(`CountIsPins`), so whoever has pinned the page since then has seen BUSY and is
still retrying. `SeenCached` carries a hit over the time between its read of the
state word and its read of the offset: VALID may be cleared by the exclusive or of
a second load in between, but the page stays where the offset says as long as
the pin lasts. Second loads are in the model, so the proof shows that they cost
slots and never content.

### Reranks

`PersistentRerank_proofs` proves `EarlyStopsAreStable`, `ReplaysReproduce`,
`ProbedIsRead` and `AnswersAreNearest` from

    RerankInvariant == OfRequest /\ Progress /\ BestOf(best, begin) /\ WindowRead
                         /\ OnSchedule /\ StableMeans /\ Recorded

with no hypothesis beyond the assumptions on the requests. `BestOf` is the pruning
argument: the list of the nearest begins with the `top_k` nearest of *all*
candidates before the window. A candidate that the bound left out is behind the
k-th when it is left out, and the k-th only comes nearer, so it would never have
entered. `OnSchedule` says where windows can end: at the bootstrap prefix, at the
stages after it, and in steps of a tile from the last of them. That set does not
depend on what the search has seen, and so a replay, whose windows are cut at the
recorded prefix, lands on it (`Recorded`). `StableMeans` counts the patience of the
early stop in windows of that grid.

`PersistentImplementsRerank` takes that to the end: the nodes that a finished search
hands out are those the plain rerank of `ExactRerank` answers with, so the search
starts where the plain rerank starts and each of its steps answers one query or
stutters. Between the list of the nearest and the answer lie a sort and a cut, whose
sequence operators the provers do not see into; `RerankOrder` therefore has both by
what they do, a sorted list by ranks (`Sorted`) and the nodes of a list that are
nodes by their places (`WithNodes`). Two lists that agree on their first `top_k`
ranks give the same nodes.

`RerankBatch_proofs` proves `ThresholdsAreKth` for the batch as a whole, from the
checks that refuse a run over the refinement of its list to the tiles. Its
`BatchInvariant` says that a run that filters is one that refines, with the
residual codes that the error bounds are for (`FiltersRefined`), so that the
candidates it reranks carry distances whose bounds hold (`Bounded`); and that
between the kernels of a tile (`TileInvariant`) a rank of the result arrays has
what its candidate scores, or is clear and the candidate is farther than the
threshold (`Pruned`). `BoundPrunes` is the arithmetic of the bound, and
`RecordIsVector` that of pages and slots: what the kernel finds for a node is its
vector, for every page size and dimension. The theorem has two hypotheses.
`WarpsAdd` says that the sum of a warp, lanes first and then by shuffles, is the
sum, and `SortsKeepEntries` that the bitonic network gives back the entries it
gets: both are about folds over as many places as there are, and are true of the
instances the runs check (`rerank_batch` and `frontier_distances` fail where one
is broken).

### Pipeline tool and overlapped experiment

`MeasurementsAreConcurrent` is about the launch gate:

    GateInvariant == GateTypes /\ FlagsMean /\ WorkerUndecided /\ CallerInOrder
                       /\ MeasuredTogether

The flags stand for events of the history (`FlagsMean`), the worker has not
decided while it may still submit (`WorkerUndecided`), and the caller passes its
wait after that decision (`CallerInOrder`); a lost or spurious wake-up changes none
of them. `TablesFollowTheCodes` is inductive as it stands: a load of other residual
codes drops the old tables when it installs the codes, before the steps that can
throw, and the new ones come after the comparison of dimensions and chunks with the
base codes and of the bounds with the residual codes' own points.

`PinnedTopologyIsGraph` says that a pinned topology is the graph of the index, in
whatever pieces it was copied, and although the file may be rewritten meanwhile.
What has been copied up to the position is right (`PinnedInvariant`); a rebuild
writes the same rows, and a file that is short is refused or makes the read fail.

`TranslationsStayAlive` and `ProvidersReadOwnPages` are about the one page cache.
While providers serve, each of them has its range number to itself, a page they
hold cached is in a slot registered under that number, and the number of a slot
always leads to the page states of one of them (`CacheInvariant` of this module):
the ranges are reset and the slots emptied before numbers are given out again.
Their hypothesis `NewCache` is that the memory of a new cache is zero, which the
code takes for granted, and that there are ranges enough; the second theorem also
has `WrittenUpwards`, that the files were written from the lowest place upwards,
and carries what the write tools left on the device (`ImageInvariant`).

`ReadsAreExpected` is what the tool needs all of this for: a run reads the records
and the entries it asks for, for every command line, index, batch plan and order of
steps, under the same two hypotheses. Its invariant is about the runs that are left:

    RunInvariant == the phases fit (ScriptFits), the providers of a run are of the
                    files it reads (ProvidersFit), the entries are those of clusters
                    the quantiser named (EntriesOf), the trace holds a provider of
                    combined nodes, and ReadsExpected

`ScriptFits` is what the plan of the providers rests on. Every phase has a provider
the tool has a place on the device for, so none is refused; and a phase without a
provider of its own comes behind one that reads the vectors, so that what it keeps
is what it needs. With `ProvidersReadOwnPages` the page is the right one, and the
page layout, which is chosen apart from the provider, is that of the provider's file
(`RecordComes`). The entries are arithmetic of places: lists laid one behind the
other are found again where they begin (`JoinedAt`, `CutOut`), rows of one length by
division (`PlaceInRows`), and a row that is padded seeds with what it was filled
with (`UnpaddedIsFront`). So the lists the library joins (`JoinedSeeds`) and the rows
the tool gathers, slices and hands to a batch (`SliceSeeds`) start a query where the
host would.

`OverlapPipeline_proofs` proves `OverlapTypes`, `CauseIsReported`,
`RingBoundsMemory` and `OutcomesFollowPlan`. The key to the second is in
`ErrorsKept`: while stage A runs, a closed queue implies a stored exception
(`closed => pc["stage_a"] = "done" \/ worker_error # NoError`), because stage B
stores before it closes; so the exception of a `Push` on the closed queue always
comes second. The fourth needs `InOrder`, which accounts for every batch that
stage A has handed over: outcomes, then the task in stage B's hands, then the
queue, in the order of the plan, as long as stage B has not dropped its task.
`OverlapImplementsSerial` is the refinement that the run `overlap` checks, all of
it, since the serial experiment promises safety only.

### Assumptions, and what is only model-checked

The named assumptions of the modules say that constants have their types, that
each node has an entry in the tables, that the frontier has `Width * Degree` slots,
as the launch code makes it, and what the command line and the loaders make sure
of. TLC evaluates them in every run. The hypotheses of single theorems hold in the
runs that check the same property: `SingleFile` in `search_width1`, `Width <= Warps`
in `search_width2`,
`Width <= Warps` in `microbatch`, `PageCount <= AddressSpan` in `page_cache`,
`NewCache` and `WrittenUpwards` in `session`.

Only model-checked:

* every liveness property, and the liveness part of the refinements
  `ImplementsBestFirst` and `ImplementsRounds`, of which the proofs have the safety
  part;
* `OwnAnswer` and `ImplementsService` of the queue pairs, as long as no poller is
  lapped;
* `RightDistances` of `FrontierDistances`, whose sums are folds;
* `ImplementsRerank` of the batch rerank: its list is sorted by the network, about
  which `ThresholdsAreKth` has a hypothesis. That theorem is what comes before the
  list.

What folds over lanes or sequences compute (`FoldLeft`, `MapThenSumSet`, the
bitonic network) would take induction over data. Induction over the naturals was
possible where it takes the form of a least counterexample (`LeastElement`).

## 5. Where code and descriptions disagree

One run ends in a counterexample, for a statement of the repository that the code
does not keep.

* `rerank_tiled_holes`. Without the bound filter a tile has holes for invalid
  candidates, but distances are computed for as many places as there are valid
  ones, counted from the front (`rerank:2083`). The tests say that the tiled mode
  returns what the plain one returns.

More instances reproduce disagreements and surprises and are not among the runs
above. Each is a configuration of a run with the constants changed as stated, and
with the named property alone, which fails:

* `TopologySearchWidth2.cfg`, `WithinBudget`. The budget is tested once a round
  (`kernel.cu:2414`), so a search of width 2 can expand one node more than
  `max_expansions`. The trace of expanded nodes has `max_expansions` places
  (`kernel.cu:3233`), and the tool that writes it throws "expanded trace
  overflow." when the counter is larger (`pipeline:1811-1813`). `ExpansionBudget`
  is what the code keeps.
* `PageCache.cfg`, `LoadEnablesPage`. A thread that sets BUSY on the word
  it read before another thread's load ended (`page_cache.h:1185`) loads the page
  again and clears VALID by its exclusive or (1219), whose operand is called
  `DISABLE_BUSY_ENABLE_VALID`. Its second slot cannot be reused while the page
  is pinned; enough of these fill the cache, and `find_slot` has no way out. So do
  the pages of one block if they are more than the slots (`provider:1704`). In both
  cases every slot holds a page that stays pinned, the exception that
  `EveryTileServed` makes; without it the property fails in the run.
* `Persistent.cfg`, that every query is answered (`<>[](pc = "done")`). The learned
  rerank moves its stage on only at a checkpoint, and a checkpoint needs `top_k`
  distances; on a list with fewer valid candidates the window becomes empty and the
  loop does not end (`provider:980`, `1133-1137`). The code that reads the result
  expects short lists (`rerank:1331-1333`). `Terminates` states both sides: the
  queries that are `Starved` never end, and all others do.
* `FrontierDistances.cfg`, `RightDistances` without `Overrun`. A pass over the
  frontier ends without a barrier, and the next pass copies the first tile into
  buffer 0 at once (`kernel.cu:1203`). With an odd number of tiles, three or more,
  that is the buffer of the last tile, which a slower warp may still be reading. It
  takes a frontier longer than the block (`search_width * degree` above 128) in
  `gustann` mode with staged tiles.
* `FrontierDistances.cfg`, `RightDistances` without `Scrambled`. In `bang` mode a
  group without a valid node skips shuffles whose mask names the whole warp
  (`kernel.cu:1162`), and the sums of the other groups of the warp are undefined.
* `TopologySearchWidth1.cfg`, `ListDistinct`: a node that was pushed behind
  `top_l` is forgotten by the next rebuild (`kernel.cu:2642`) and may enter the
  list again, so the list behind the prefix can hold a node twice. The tests'
  reference search admits every node once. It matters only for a rerank deeper
  than `top_l`.
* `TopologySearchWidth2.cfg`, `PrefixDistinct`: two threads that are
  offered the same node in one round may both pass the filter's test
  (`kernel.cu:2558`), and the prefix then has the node twice.
* `TopologySearchWidth2.cfg` with `Warps = 1`, `RowsOfSelection` and `LocalMinimum`:
  a block stages one row per warp (`kernel.cu:2527`), while a launch accepts wider
  searches; the remaining rows are what an earlier round left, and the neighbours
  of those nodes are never offered.
* `PageCache.cfg` with `AddressSpan = 2`, `PinnedPageStable`: `find_slot` keeps 32 bits of the
  address of the page in a slot (`page_cache.h:1832`), so with more pages than
  that the pins of another page are looked at, and a pinned page can be evicted.
* `NvmQueue.cfg` with `Threads = {t1, t2, t3}`, `Cids = 3`, `CqSize = 2` and
  `Reads <- MCOnce`, `FlushedFirst`: a thread whose flush command was sent by
  another can read the flush position anew and publish more than its command
  covers. No document promises the order.
* `PipelineTool.cfg` with `FreshTranslations <- MCOldData` and three reads,
  `TranslationsAlive`: the translations of a new cache
  are never initialised (`page_cache.h:805`), and the first flush follows them;
  the run takes fresh memory to be zero.
* `PipelineTool.cfg` with `WriteOrders <- MCAnyOrder`, `ReadsExpected`: the zeros behind a payload
  cover the first pages of a file that was written before and lies above it
  (`provider:2862`).

* `NvmQueue.cfg`, `OwnAnswer` without its premise `~lapped`: a poller that keeps an
  old head while the device goes around the queue twice takes a completion of its id
  from the wrong lap (`nvm_parallel_queue.h:385`). And `ImplementsService` without
  `lapped`: such a poller takes the entry of its own read for that of the flush
  command after it, and waits for ever to see it consumed.
* `NvmQueue.cfg` with `Threads = {t1}`, `Reads <- MCLong` and `CounterSpan = 8`,
  `ImplementsService`: after the wrap of the ticket counter, 2^32 commands in the
  program, a turn number never comes.

## 6. Not modelled

* Floating point: distances and tables are integers, so that an order of sums
  makes no difference. Logits of the learned models are free choices.
* Parsing of index files, allocation, driver and admin queue: no protocol state.
* Several threads that write back dirty pages (`flush_cache`): no search writes,
  and the write tools are one kernel at a time, which `SharedCache` has.
* The search of the coarse quantiser (`legacy_rvq`): numerical code from another
  project. Which cluster it names is a choice in `EntryPoints`, and the lists a
  traversal starts from are the constant `EntryLists`.
* The tools that evaluate, convert or build data sets, but for the one that
  extracts the topology: sequential code around the library.
* Two traversals at once, which would share the `__constant__` configurations:
  nothing in the repository starts them.
* Memory weaker than sequential consistency, in the cache and the queue pairs.
* Profiling counters, recorded states and log output.

## 7. Plan

In order of what matters most; the first fourteen are done.

1. `CandidateList`, `TopologySearch`, `BestFirstSearch`, and the proof of the
   filter's invariant.
2. `PageCache`.
3. `MicrobatchPipeline` with `QueryRounds`.
4. `RankTiledRerank` and `PersistentRerank` with `ExactRerank`.
5. `ExactReuse` and the proof of its table.
6. The stop rules of the traversal.
7. `BatchPlan`, `OverlapPipeline` and `SerialExperiment`, and their proofs.
8. `NvmQueue` with `ReadService`.
9. `SearchResources`, `SharedCache`, `LaunchGate`, `PipelineTool`.
10. `RerankSort`, `ProductQuantizer`, `RerankBatch`; the probe of
    `PersistentRerank`.
11. `TopologyLaunch` and `FrontierDistances`.
12. `PageCache_proofs`, `MicrobatchPipeline_proofs` and `PipelineTool_proofs`; the
    order of the merged list and the early stops in `TopologySearch_proofs`.
13. `TopologyFile` and `EntryPoints`.
14. The rest of `TopologySearch_proofs` (top k, local minimum, best-first search),
    the default capacity of the reuse table, the serial experiment, the providers'
    pages and the pinned topology, the rounds of a microbatched query,
    `PersistentRerank_proofs` with the refinement of the plain rerank,
    `RerankBatch_proofs`, and the records and entries a run reads.
15. Invariants of the queue pairs, from which `OwnAnswer` follows until a poller is
    lapped.
16. The stage traces of the learned stop over several batches.
