---------------------------- MODULE PipelineTool -----------------------------
(***************************************************************************)
(* main of tools/topoanns_overlap_pipeline_eval.cpp, from the loads to the *)
(* last run, over SearchResources, the pinned topology, the entry points,  *)
(* the page cache its providers share and, in the trace benchmark, the     *)
(* launch gate.  What a run does with what it reads is in TopologySearch,  *)
(* OverlapPipeline and PersistentRerank; here a run is its reads: stage A  *)
(* the entries of queries and the neighbours of nodes that are not in      *)
(* pinned memory, stage B exact vectors, in any order.  Any call may fail, *)
(* and a failure ends the tool.                                            *)
(*                                                                         *)
(* client "library" is not the tool: it loads indexes in any order and     *)
(* goes on after a load that threw.                                        *)
(***************************************************************************)
EXTENDS SearchResources, SharedCache, LaunchGate, TopologyFile, EntryPoints

Plans == INSTANCE BatchPlan

CONSTANTS
  PerPage,     \* records of a page of each file
  CommandLines,\* what the tool is started with
  Assignments, \* the clusters the quantiser may name for the queries
  WriteOrders, \* the orders in which the files are written to the device
  Reads,       \* bound: accesses of a run
  Repeats      \* measured_runs + warmup_runs

ASSUME ToolAssumption ==
  /\ Reads \in Nat /\ Repeats \in Nat
  /\ Files = {"vectors", "topology", "combined"}
  /\ PerPage \in [Files -> Nat \ {0}]
  /\ \A f \in Files : FilePages[f] * PerPage[f] >= NodeCount
  /\ None \notin [file : Files, range : Nat, buffer : Nat]               \* nullptr is no provider
  /\ None \notin [provider : [file : Files, range : Nat, buffer : Nat]]  \* and no store
  /\ Assignments \subseteq Seq(-1 .. ClusterCount - 1)
  /\ \A line \in CommandLines :
       /\ line.sweep \in Seq(0 .. NodeCount) /\ line.sweep # <<>>
       /\ {line.reuse, line.ab} \subseteq BOOLEAN
       /\ line.plan \in Plans!ExperimentOptions
       /\ \A clusters \in Assignments : Len(clusters) = line.plan.num_queries

VARIABLES
  args,     \* the command line
  pc,       \* where the tool is
  script,   \* the runs that are left
  active,   \* has_active_data_provider
  held,     \* io_provider of the trace benchmark
  entries,  \* full_entry_batch, and the clusters it is from
  reads,    \* accesses of this run
  read      \* the record asked for and the record that came

toolvars == <<args, pc, script, active, held, entries, reads, read>>
vars == <<toolvars, tables, providers, cache, measurement, imagevars, topologyvars>>

NoRead == [wanted |-> None, came |-> None]

Goto(place) ==
  pc' = place /\ UNCHANGED <<args, script, active, held, entries, reads, read>>
-----------------------------------------------------------------------------
(* The runs of a point of the topology sweep, with the provider that is    *)
(* activated before each: none if the one before it serves.                *)
Partial(cached) == cached < NodeCount

Phase(provider, cached, reuse) == [provider |-> provider, cached |-> cached, reuse |-> reuse]

Phases(cached) ==
  IF Partial(cached)
  THEN <<Phase("topology", cached, FALSE), Phase("combined", cached, TRUE),
         Phase("topology", cached, FALSE)>>
  ELSE <<Phase("vector", cached, FALSE), Phase("same", cached, TRUE), Phase("same", cached, FALSE)>>

PhaseOf(cached) ==
  Phase(IF ~Partial(cached) THEN "vector" ELSE IF args.reuse THEN "combined" ELSE "topology",
        cached, args.reuse)

(* An A/B sequence has one point of the sweep.                             *)
Script ==
  IF args.ab THEN Phases(args.sweep[1])
  ELSE [i \in DOMAIN args.sweep |-> PhaseOf(args.sweep[i])]

Run == Head(script)

(* ParseArgs and the checks of main that concern the choice of providers;  *)
(* the header of the topology file is read once more.                      *)
(* offsets: the files the command line gives a place on the device for.    *)
AnyPartial == \E i \in DOMAIN args.sweep : Partial(args.sweep[i])

Options ==
  {"vector"}
    \cup (IF AnyPartial /\ args.reuse THEN {"combined"} ELSE {})
    \cup (IF AnyPartial /\ (args.reuse => args.ab) THEN {"topology"} ELSE {})

Accepted ==
  /\ args.ab => args.reuse /\ Len(args.sweep) = 1
  /\ args.trace => /\ Len(args.sweep) = 1 /\ ~AnyPartial
                   /\ "combined" \in args.offsets
  /\ "topology" \in Options => HeaderAccepted
  /\ Options \subseteq args.offsets \cup {"vector"}
-----------------------------------------------------------------------------
(* The loads, of the topology first.                                       *)
OpenTopology ==
  /\ pc = "topology"
  /\ \/ Allocate /\ Goto("load")
     \/ UNCHANGED topologyvars /\ Goto("failed")
  /\ UNCHANGED <<tables, providers, cache, measurement>>

LoadTopology ==
  /\ pc = "load"
  /\ \/ ReadPiece /\ Goto("load")
     \/ ReadAll /\ position' = 0 /\ UNCHANGED <<topology_file, rebuilds, pinned>> /\ Goto("pq")
     \/ Release /\ Goto("failed")
  /\ UNCHANGED <<tables, providers, cache, measurement>>

Loaded(ok, next) ==
  Goto(IF ok THEN next ELSE "failed") /\ UNCHANGED <<cache, measurement>>

LoadBase ==
  pc = "pq" /\ \E ok \in BOOLEAN : LoadPqIndex(args.pq, ok) /\ Loaded(ok, "pq2")

SkipPq2 == args.trace \/ args.hpq \/ args.pq2 = None

LoadRefine ==
  \/ /\ pc = "pq2" /\ ~SkipPq2
     /\ \E ok \in BOOLEAN : LoadPq2Index(args.pq2, args.bounds, ok) /\ Loaded(ok, "hpq")
  \/ pc = "pq2" /\ SkipPq2 /\ Goto("hpq") /\ UNCHANGED <<tables, providers, cache, measurement>>

LoadHybrid ==
  \/ /\ pc = "hpq" /\ args.hpq
     /\ \E ok \in BOOLEAN, i, j \in Indexes : LoadHpqIndex(i, j, ok) /\ Loaded(ok, "store")
  \/ pc = "hpq" /\ ~args.hpq /\ Goto("store") /\ UNCHANGED <<tables, providers, cache, measurement>>

LoadStore == pc = "store" /\ \E ok \in BOOLEAN : LoadVectorStore(ok) /\ Loaded(ok, "plan")

Plan ==
  /\ pc = "plan"
  /\ pc' = IF Accepted THEN "entries" ELSE "failed"
  /\ script' = Script
  /\ UNCHANGED <<args, entries, active, held, reads, read, tables, providers, cache, measurement>>

(* The quantiser is loaded, searched and gone before the first run.        *)
ComputeEntries ==
  /\ pc = "entries"
  /\ \E clusters \in Assignments :
       entries' = [clusters |-> clusters, batch |-> DeviceEntryBatch(clusters)]
  /\ pc' = IF args.trace THEN "open_trace" ELSE "switch"
  /\ UNCHANGED <<args, script, active, held, reads, read, tables, providers, cache, measurement>>
-----------------------------------------------------------------------------
(* clear_data_providers and the three activate_..._provider.               *)
Served == script # <<>> /\ Run.provider = "same"

Keep ==
  /\ pc = "switch" /\ Served
  /\ Goto("run")
  /\ UNCHANGED <<tables, providers, cache, measurement>>

(* The flush writes dirty pages back; pages are only read, so it changes   *)
(* nothing, but it looks up the page state of every slot.                  *)
Clear ==
  /\ pc = "switch" /\ script # <<>> /\ ~Served
  /\ IF active /\ Run.provider \in Options THEN ResetRanges ELSE UNCHANGED cache
  /\ Goto(IF Run.provider \in Options THEN "clear" ELSE "refused")
  /\ UNCHANGED <<tables, providers, measurement>>

Drop ==
  /\ pc = "clear"
  /\ ClearCombined /\ ClearTopology /\ ClearVector
  /\ ReleaseAllBut({})
  /\ pc' = "activate" /\ active' = FALSE
  /\ UNCHANGED <<args, entries, script, held, reads, read, tables, measurement>>

FilesOf(provider) ==
  CASE provider = "vector"   -> <<"vectors">>
    [] provider = "topology" -> <<"vectors", "topology">>
    [] provider = "combined" -> <<"combined">>

Activate ==
  /\ pc = "activate"
  /\ LET files == FilesOf(Run.provider)
     IN  /\ AddRanges(files)
         /\ AttachVector(Provider(files[1], 1))
         /\ IF Run.provider = "topology" THEN AttachTopology(Provider(files[2], 2))
            ELSE UNCHANGED topology
         /\ IF Run.provider = "combined" THEN AttachCombined(Provider(files[1], 1))
            ELSE UNCHANGED combined
  /\ pc' = "run" /\ active' = TRUE
  /\ UNCHANGED <<args, entries, script, held, reads, read, tables, measurement>>
-----------------------------------------------------------------------------
(* Where a record is: its page, its place in the page, and what a reader   *)
(* that counts perPage records in a page takes from there.                 *)
PageOf(n, perPage)  == n \div perPage
PlaceOf(n, perPage) == n % perPage

Record(page, place, perPage) ==
  IF page # Zeros /\ PerPage[page[1]] = perPage
  THEN <<page[1], page[2] * perPage + place>> ELSE <<"bytes of other records">>

ReadRecord(provider, perPage, n, wanted) ==
  LET p == PageOf(n, perPage)
  IN  /\ p \in DOMAIN buffers[provider.buffer]
      /\ Access(provider, p)
      /\ read' = [wanted |-> wanted,
                  came |-> Record(image[Delivered(provider, p)], PlaceOf(n, perPage), perPage)]

(* RunStageA and the traversal's launch: the neighbours of an uncached     *)
(* node are read from the combined node, with its vector, if exact reuse   *)
(* is on and the cache partial, else from the topology pages.              *)
Reuses == Run.reuse /\ Partial(Run.cached)

(* A batch of the plan: its queries, known by their clusters, and entries. *)
BatchOf(slice) ==
  [queries |-> SliceHostQueries(entries.clusters, slice.query_offset, slice.num_queries),
   batch   |-> SliceDeviceEntryBatch(entries.batch, slice.query_offset, slice.num_queries)]

BatchesOfRun ==
  LET plan == Plans!BuildBatchPlan(args.plan) IN {BatchOf(plan[b]) : b \in DOMAIN plan}

StageARefuses ==
  \/ Partial(Run.cached) /\ (IF Reuses THEN combined ELSE topology) = None
  \/ \E b \in BatchesOfRun : RunBatchRefused(b.batch, b.queries)

StageASeeds ==
  /\ pc = "run" /\ reads < Reads /\ ~StageARefuses
  /\ \E b \in BatchesOfRun : \E q \in DOMAIN b.queries :
       read' = [wanted |-> <<"entries", First(HostEntries(b.queries[q]), PostingLimit)>>,
                came   |-> <<"entries", Seeds(b.batch, q - 1)>>]
  /\ reads' = reads + 1
  /\ UNCHANGED <<args, entries, pc, script, active, held, tables, providers, cache, measurement>>

StageAReads ==
  /\ pc = "run" /\ reads < Reads /\ Partial(Run.cached) /\ ~StageARefuses
  /\ \E n \in {m \in Nodes : m >= Run.cached} :
       LET file == IF Reuses THEN "combined" ELSE "topology"
       IN  ReadRecord(IF Reuses THEN combined ELSE topology, PerPage[file], n, <<file, n>>)
  /\ reads' = reads + 1
  /\ UNCHANGED <<args, entries, pc, script, active, held, tables, providers, measurement>>

(* RunStageB: stage A tells the records of a page if it reused, else the   *)
(* layout of the vector store counts.                                      *)
OverrideIfReuse == Run.reuse
Override == Run.reuse /\ Partial(Run.cached)

RecordsPerPage == IF Override THEN PerPage["combined"] ELSE PerPage["vectors"]

StageBReads ==
  /\ pc = "run" /\ reads < Reads /\ vector_page_provider # None
  /\ \E n \in Nodes :
       ReadRecord(vector_page_provider, RecordsPerPage, n,
                  <<IF Reuses THEN "combined" ELSE "vectors", n>>)
  /\ reads' = reads + 1
  /\ UNCHANGED <<args, entries, pc, script, active, held, tables, providers, measurement>>

RunRefused == StageARefuses \/ vector_page_provider = None

EndRun ==
  /\ pc = "run"
  /\ script' = Tail(script)
  /\ pc' = IF RunRefused THEN "refused" ELSE "switch"
  /\ reads' = 0 /\ read' = NoRead
  /\ UNCHANGED <<args, entries, active, held, tables, providers, cache, measurement>>

Done ==
  /\ pc = "switch" /\ script = <<>>
  /\ Goto("done")
  /\ UNCHANGED <<tables, providers, cache, measurement>>
-----------------------------------------------------------------------------
(* RunTopologyIoConcurrencyBenchmark: a provider of its own, and in every  *)
(* repeat the traversal alone, the I/O alone and both together.            *)
OpenTrace ==
  /\ pc = "open_trace"
  /\ held' = Provider("combined", 1)
  /\ AddRanges(<<"combined">>)
  /\ pc' = "alone"
  /\ UNCHANGED <<args, entries, script, active, reads, read, tables, providers, measurement>>

ReadTrace ==
  \E p \in 0 .. FilePages["combined"] - 1 :
    LET n == p * PerPage["combined"]
    IN  ReadRecord(held, PerPage["combined"], n, <<"combined", n>>)

Alone ==
  /\ pc = "alone" /\ caller = "idle" /\ reads < Repeats
  /\ ReadTrace
  /\ StartMeasurement
  /\ pc' = "together"
  /\ UNCHANGED <<args, entries, script, active, held, reads, tables, providers>>

Together ==
  /\ pc = "together"
  /\ \/ CallerStep /\ UNCHANGED <<cache, read>>
     \/ WorkerStep /\ (IF worker = "finish" THEN ReadTrace ELSE UNCHANGED <<cache, read>>)
     \/ SpuriousWakeUp /\ UNCHANGED <<cache, read>>
  /\ UNCHANGED <<args, entries, pc, script, active, held, reads, tables, providers, imagevars, topologyvars>>

Repeat ==
  /\ pc = "together" /\ caller \in {"measured", "io", "topology"}
  /\ pc' = IF caller = "measured" THEN "alone" ELSE "failed"
  /\ reads' = reads + 1
  /\ EndMeasurement
  /\ UNCHANGED <<args, entries, script, active, held, read, tables, providers, cache>>

EndTrace ==
  /\ pc = "alone" /\ reads = Repeats
  /\ Goto("done")
  /\ UNCHANGED <<tables, providers, cache, measurement>>
-----------------------------------------------------------------------------
(* A call fails; main reports it and returns.                              *)
Ended == pc \in {"done", "failed", "refused"}

CallFails ==
  /\ pc \in {"entries", "switch", "clear", "activate", "run", "open_trace", "alone"}
  /\ Goto("failed")
  /\ UNCHANGED <<tables, providers, cache, measurement, imagevars, topologyvars>>

LibraryLoads ==
  /\ pc = "library"
  /\ \/ /\ \E i, j \in Indexes, ok \in BOOLEAN, bounds \in {Points[k] : k \in Indexes} \cup {None} :
             \/ LoadPqIndex(i, ok) \/ LoadPq2Index(i, bounds, ok) \/ LoadHpqIndex(i, j, ok)
        /\ UNCHANGED topologyvars
     \/ /\ \E most \in {Degree, Degree + 1} : FromDataset([n \in Nodes |-> First(Adjacency[n], most)])
        /\ UNCHANGED <<tables, providers>>
  /\ UNCHANGED <<toolvars, cache, measurement, imagevars>>

(* RvqEntryProvider makes a list for each query; the launch joins them.    *)
LibrarySearch ==
  /\ pc = "library"
  /\ \E clusters \in Assignments : \E q \in DOMAIN clusters :
       LET lists == [i \in DOMAIN clusters |-> HostEntries(clusters[i])]
       IN  read' = [wanted |-> <<"entries", lists[q]>>,
                    came   |-> <<"entries", Seeds(JoinedLists(lists), q - 1)>>]
  /\ UNCHANGED <<args, pc, script, active, held, entries, reads, tables, providers, cache,
                 measurement, imagevars, topologyvars>>

Init ==
  /\ \/ pc = "topology" /\ args \in CommandLines /\ (\E order \in WriteOrders : InitImage(order))
     \/ pc = "library" /\ args = None /\ InitImage(<<>>) /\ topology_file = 0
  /\ script = <<>> /\ active = FALSE /\ held = None /\ entries = None /\ reads = 0 /\ read = NoRead
  /\ NoResources /\ InitCache /\ NoMeasurement /\ InitTopology

Terminated == Ended /\ UNCHANGED vars

(* The files are on the device before the tool starts.  Two of the tools   *)
(* that write them read the header of the topology file, and refuse one    *)
(* that is not complete.                                                   *)
WriteRefused == Head(unwritten) \in {"topology", "combined"} /\ ~HeaderAccepted

Write ==
  /\ pc = "topology" /\ unwritten # <<>> /\ ~WriteRefused
  /\ WriteChunk \/ WriteFails
  /\ UNCHANGED <<toolvars, tables, providers, cache, measurement, topologyvars>>

(* A build goes on as long as the file is not loaded, and one may start    *)
(* again beside the load.                                                  *)
Build ==
  /\ pc \in {"topology", "load"}
  /\ WriteRow \/ (unwritten = <<>> /\ StartBuild)
  /\ UNCHANGED <<toolvars, tables, providers, cache, measurement, imagevars>>

ToolStep ==
  /\ unwritten = <<>> /\ UNCHANGED imagevars
  /\ \/ OpenTopology \/ LoadTopology
     \/ /\ UNCHANGED topologyvars
        /\ \/ LoadBase \/ LoadRefine \/ LoadHybrid \/ LoadStore \/ Plan \/ ComputeEntries
           \/ Keep \/ Clear \/ Drop \/ Activate
           \/ StageASeeds \/ StageAReads \/ StageBReads \/ EndRun \/ Done
           \/ OpenTrace \/ Alone \/ Repeat \/ EndTrace

Next == Build \/ Write \/ ToolStep \/ Together \/ CallFails \/ LibraryLoads \/ LibrarySearch \/ Terminated

(* The tool's thread and the I/O thread are scheduled fairly; nothing has  *)
(* to fail, wake up spuriously, or read once more in a run.                *)
Fairness ==
  /\ WF_vars(ToolStep)
  /\ WF_vars(pc = "together" /\ CallerStep /\ UNCHANGED <<cache, toolvars, tables, providers, imagevars, topologyvars>>)
  /\ WF_vars(Together /\ WorkerStep)

Spec == Init /\ [][Next]_vars /\ Fairness
-----------------------------------------------------------------------------
(* A run finds the providers it needs.  A record that is read by its       *)
(* number through whatever provider, page layout and cached page is that   *)
(* record: also after the cache has served other files under the same      *)
(* range numbers, and whether a stage reads vectors, topology or both.     *)
(* And a query of a batch starts where the host's entry provider would     *)
(* start it, up to the limit of a posting list on the device.              *)
ReadsExpected == pc # "refused" /\ read.came = read.wanted

(* Once it is loaded, the topology in pinned memory is the graph, a row    *)
(* for each node, wherever a build of the file was when the load began and *)
(* whatever it did to the file since; a load that failed leaves nothing.   *)
PinnedAsBuilt ==
  pc # "load" =>
    IF pinned = NoMemory THEN pc \in {"topology", "failed", "library"} ELSE HoldsGraph

(* As long as providers are in use, the translation of every slot leads to *)
(* the page states of one of them: that is what an eviction and the flush  *)
(* write to and read.  The range table is never overrun.                   *)
Serving == pc \in {"switch", "run", "alone", "together"} /\ (active \/ held # None)

TranslationsAlive ==
  /\ n_ranges <= MaxRanges
  /\ Serving => \A s \in Slots : Alive(slots[s])

(* The tool ends, whatever fails and whoever of the two threads of the     *)
(* trace benchmark waits for the other.                                    *)
ToolEnds == (pc = "topology" /\ unwritten = <<>>) ~> Ended
=============================================================================
