-------------------------- MODULE MicrobatchPipeline --------------------------
(***************************************************************************)
(* RunTopologySearchKernelBatchDeviceMicrobatched of                       *)
(* src/src/search/topology_search_kernel.cu: a host thread drives a pool   *)
(* of slots, each with a CUDA stream of its own and one microbatch of      *)
(* queries at a time, through rounds of select, read and resume.  The      *)
(* reads of every slot go to one shared I/O stream; events order the       *)
(* streams.  Operations of a stream execute one at a time and in order,    *)
(* those of different streams in any order.                                *)
(*                                                                         *)
(* A query's e-th expanded node, and the row of that node, is the pair of  *)
(* the query and e; the traversal itself is TopologySearch.                *)
(***************************************************************************)
EXTENDS Naturals, Sequences, SequencesExt, FiniteSets

CONSTANTS
  NumQueries,       \* entry_batch.num_queries
  MicrobatchQueries,\* microbatch_queries
  ContextDepth,     \* context_depth
  Width,            \* search_width
  Warps,            \* warps of a block: one stages the row of one node
  MaxExpansions     \* max_expansions

ASSUME PipelineAssumption ==
  /\ NumQueries \in Nat \ {0} /\ MicrobatchQueries \in Nat \ {0}
  /\ ContextDepth \in Nat \ {0} /\ Width \in Nat \ {0}
  /\ Warps \in Nat \ {0} /\ MaxExpansions \in Nat

LesserOf(a, b) == IF a <= b THEN a ELSE b

Microbatches == (NumQueries + MicrobatchQueries - 1) \div MicrobatchQueries
SlotCount == LesserOf(ContextDepth, Microbatches)
PoolSlots == 1 .. SlotCount
Queries   == 1 .. NumQueries
Places    == 1 .. MicrobatchQueries     \* local_query_id + 1
Capacity  == MicrobatchQueries * Width  \* requests.size()
NoRow     == <<0, 0>>

VARIABLES
  host,        \* "starting", "polling", "done" or "failed"
  cursor,      \* slot the host loop looks at
  next,        \* next_query_offset
  activeSlots, \* active_slots
  slot,        \* per slot: phase, offset, size, rounds and host_counts
  compute,     \* compute_stream of each slot: operations still to execute
  io,          \* io_stream: operations still to execute
  event,       \* per slot and event: "unrecorded", "pending" or "complete"
  requests,    \* per slot: request_count and the requests that fitted
  served,      \* requests the running read kernel has answered
  activeCount, \* per slot: active_count
  state,       \* per slot and place: active and selected_count of query_states
  response,    \* per slot, place and selected node: response_neighbors
  expanded,    \* per query: stats.expanded_nodes
  merged       \* per query: the rows merged into its candidates

hostVars   == <<host, cursor, next, activeSlots, slot>>
streams    == <<compute, io, event>>
buffers    == <<requests, served, activeCount, state, response>>
results    == <<expanded, merged>>
vars       == <<hostVars, streams, buffers, results>>
-----------------------------------------------------------------------------
(* What the host enqueues.                                                 *)
SelectOperations == <<"clear", "select", "select ready">>
UnorderedResume  == <<"resume", "copy", "round done">>
ResumeOperations == <<"wait", "resume", "copy", "round done">>

ReadOperations(s) ==
  <<[kind |-> "read", slot |-> s], [kind |-> "io end", slot |-> s]>>

BatchSize(offset) == LesserOf(MicrobatchQueries, NumQueries - offset)

(* activate_slot and, at its end, launch_select.                           *)
ActivateSlot(s) ==
  /\ slot' = [slot EXCEPT ![s].phase = "select pending", ![s].offset = next,
                          ![s].size = BatchSize(next), ![s].rounds = 0]
  /\ next' = next + BatchSize(next)
  /\ compute' = [compute EXCEPT ![s] = @ \o <<"init">> \o SelectOperations]
  /\ event' = [event EXCEPT ![s].select = "pending"]

StartSlot ==
  /\ host = "starting"
  /\ ActivateSlot(cursor)
  /\ activeSlots' = activeSlots + 1
  /\ cursor' = (cursor % SlotCount) + 1
  /\ host' = IF cursor = SlotCount THEN "polling" ELSE "starting"
  /\ UNCHANGED <<io, buffers, results>>

(* The scan of the slots.  The loop condition is looked at once a scan.    *)
Polls(s) == host = "polling" /\ cursor = s /\ (s = 1 => activeSlots # 0)

Advance(s) == cursor' = (s % SlotCount) + 1

PassSlot(s) ==
  /\ Polls(s)
  /\ \/ slot[s].phase = "idle"
     \/ slot[s].phase = "select pending" /\ event[s].select = "pending"
     \/ slot[s].phase = "round pending" /\ event[s].round = "pending"
  /\ Advance(s)
  /\ UNCHANGED <<host, next, activeSlots, slot, streams, buffers, results>>

IssueRound(s) ==
  /\ Polls(s)
  /\ slot[s].phase = "select pending" /\ event[s].select # "pending"
  /\ io' = io \o ReadOperations(s)
  /\ compute' = [compute EXCEPT ![s] = @ \o ResumeOperations]
  /\ event' = [event EXCEPT ![s].read = "pending", ![s].round = "pending"]
  /\ slot' = [slot EXCEPT ![s].phase = "round pending"]
  /\ Advance(s)
  /\ UNCHANGED <<host, next, activeSlots, buffers, results>>

TightRoundGuard == MaxExpansions
RoundGuard == MaxExpansions + 2

Throws(s) ==
  slot[s].counts.requests > Capacity \/ slot[s].rounds + 1 > RoundGuard

EndRound(s) ==
  /\ Polls(s)
  /\ slot[s].phase = "round pending" /\ event[s].round # "pending"
  /\ Advance(s)
  /\ IF Throws(s)
     THEN host' = "failed" /\ UNCHANGED <<next, activeSlots, slot, compute, event>>
     ELSE /\ host' = host
          /\ \/ /\ slot[s].counts.active # 0
                /\ compute' = [compute EXCEPT ![s] = @ \o SelectOperations]
                /\ event' = [event EXCEPT ![s].select = "pending"]
                /\ slot' = [slot EXCEPT ![s].phase = "select pending",
                                        ![s].rounds = @ + 1]
                /\ UNCHANGED <<next, activeSlots>>
             \/ /\ slot[s].counts.active = 0 /\ next < NumQueries
                /\ ActivateSlot(s)
                /\ UNCHANGED activeSlots
             \/ /\ slot[s].counts.active = 0 /\ next >= NumQueries
                /\ slot' = [slot EXCEPT ![s].phase = "idle",
                                        ![s].rounds = @ + 1]
                /\ activeSlots' = activeSlots - 1
                /\ UNCHANGED <<next, compute, event>>
  /\ UNCHANGED <<io, buffers, results>>

(* cudaDeviceSynchronize, then the results are the caller's.               *)
Synchronize ==
  /\ host = "polling" /\ cursor = 1 /\ activeSlots = 0
  /\ io = <<>> /\ \A s \in PoolSlots : compute[s] = <<>>
  /\ host' = "done"
  /\ UNCHANGED <<cursor, next, activeSlots, slot, streams, buffers, results>>
-----------------------------------------------------------------------------
(* What the streams execute.                                               *)
AtHead(s, operation) == compute[s] # <<>> /\ Head(compute[s]) = operation

Consume(s) == compute' = [compute EXCEPT ![s] = Tail(@)]

QueryAt(s, i) == slot[s].offset + i

Batch(s) == 1 .. slot[s].size

Ended == [active |-> FALSE, selected |-> 0]

(* topology_microbatch_init_kernel: a query with no valid entry is over.   *)
InitKernel(s) ==
  /\ AtHead(s, "init")
  /\ \E seeded \in SUBSET Batch(s) :
       state' = [state EXCEPT ![s] =
                   [i \in Places |->
                      IF i \in Batch(s) THEN [active |-> i \in seeded, selected |-> 0]
                      ELSE @[i]]]
  /\ Consume(s)
  /\ UNCHANGED <<hostVars, io, event, requests, served, activeCount, response, results>>

ClearCounts(s) ==
  /\ AtHead(s, "clear")
  /\ requests' = [requests EXCEPT ![s] = [count |-> 0, list |-> <<>>]]
  /\ activeCount' = [activeCount EXCEPT ![s] = 0]
  /\ Consume(s)
  /\ UNCHANGED <<hostVars, io, event, served, state, response, results>>

(* Select: how many nodes a query selects, and which of their rows are not *)
(* in the cache, is the traversal's choice.                                *)
Counts(s, i) ==
  IF state[s][i].active /\ expanded[QueryAt(s, i)] < MaxExpansions
  THEN 0 .. Width ELSE {0}

Staged(count) == 1 .. LesserOf(count, Warps)

RowOf(s, i, k) == <<QueryAt(s, i), expanded[QueryAt(s, i)] + k>>

Append2(s, new) ==
  [count |-> requests[s].count + Len(new),
   list  |-> SubSeq(requests[s].list \o new, 1,
                    LesserOf(Capacity, Len(requests[s].list) + Len(new)))]

SelectKernel(s) ==
  /\ AtHead(s, "select")
  /\ \E selects \in {f \in [Batch(s) -> 0 .. Width] :
                       \A i \in Batch(s) : f[i] \in Counts(s, i)} :
       LET pairs == {p \in Batch(s) \X (1 .. Width) : p[2] \in Staged(selects[p[1]])}
       IN \E uncached \in SUBSET pairs :
            /\ requests' = [requests EXCEPT ![s] = Append2(s,
                 SetToSeq({[place |-> p[1], index |-> p[2], row |-> RowOf(s, p[1], p[2])]
                             : p \in uncached}))]
            /\ response' = [response EXCEPT ![s] =
                 [i \in Places |-> [k \in 1 .. Width |->
                    IF <<i, k>> \in pairs \ uncached THEN RowOf(s, i, k) ELSE @[i][k]]]]
            /\ state' = [state EXCEPT ![s] =
                 [i \in Places |->
                    IF i \in Batch(s)
                    THEN [active |-> selects[i] # 0, selected |-> selects[i]]
                    ELSE @[i]]]
            /\ activeCount' = [activeCount EXCEPT ![s] =
                 @ + Cardinality({i \in Batch(s) : selects[i] # 0})]
            /\ expanded' = [q \in Queries |->
                 IF q - slot[s].offset \in Batch(s)
                 THEN expanded[q] + selects[q - slot[s].offset] ELSE expanded[q]]
  /\ Consume(s)
  /\ UNCHANGED <<hostVars, io, event, served, merged>>

(* Resume merges the rows it finds in the response buffer.                 *)
Consumed(s, i) ==
  IF state[s][i].active
  THEN {response[s][i][k] : k \in 1 .. state[s][i].selected} ELSE {}

ResumeKernel(s) ==
  /\ AtHead(s, "resume")
  /\ merged' = [q \in Queries |->
       IF q - slot[s].offset \in Batch(s)
       THEN merged[q] \cup Consumed(s, q - slot[s].offset) ELSE merged[q]]
  /\ state' = [state EXCEPT ![s] =
       [i \in Places |-> IF i \in Batch(s) THEN [active |-> @[i].active, selected |-> 0]
                         ELSE @[i]]]
  /\ Consume(s)
  /\ UNCHANGED <<hostVars, io, event, requests, served, activeCount, response, expanded>>

CopyCounts(s) ==
  /\ AtHead(s, "copy")
  /\ slot' = [slot EXCEPT ![s].counts =
       [requests |-> requests[s].count, active |-> activeCount[s]]]
  /\ Consume(s)
  /\ UNCHANGED <<host, cursor, next, activeSlots, io, event, buffers, results>>

SignalSelect(s) ==
  /\ AtHead(s, "select ready")
  /\ event' = [event EXCEPT ![s].select = "complete"]
  /\ Consume(s)
  /\ UNCHANGED <<hostVars, io, buffers, results>>

WaitForRead(s) ==
  /\ AtHead(s, "wait") /\ event[s].read # "pending"
  /\ Consume(s)
  /\ UNCHANGED <<hostVars, io, event, buffers, results>>

SignalRound(s) ==
  /\ AtHead(s, "round done")
  /\ event' = [event EXCEPT ![s].round = "complete"]
  /\ Consume(s)
  /\ UNCHANGED <<hostVars, io, buffers, results>>

(* BamTopologyMicrobatchReadKernel, a request at a time and in any order.  *)
Reading(kind) == io # <<>> /\ Head(io).kind = kind

ReadRow ==
  /\ Reading("read")
  /\ LET s == Head(io).slot
     IN \E r \in DOMAIN requests[s].list \ served :
          LET request == requests[s].list[r]
          IN  /\ served' = served \cup {r}
              /\ response' = [response EXCEPT ![s][request.place][request.index] =
                                request.row]
  /\ UNCHANGED <<hostVars, streams, requests, activeCount, state, results>>

EndRead ==
  /\ Reading("read")
  /\ DOMAIN requests[Head(io).slot].list \subseteq served
  /\ served' = {}
  /\ io' = Tail(io)
  /\ UNCHANGED <<hostVars, compute, event, requests, activeCount, state, response, results>>

SignalRead ==
  /\ Reading("io end")
  /\ event' = [event EXCEPT ![Head(io).slot].read = "complete"]
  /\ io' = Tail(io)
  /\ UNCHANGED <<hostVars, compute, buffers, results>>
-----------------------------------------------------------------------------
Init ==
  /\ host = "starting" /\ cursor = 1 /\ next = 0 /\ activeSlots = 0
  /\ slot = [s \in PoolSlots |->
       [phase |-> "idle", offset |-> 0, size |-> 0, rounds |-> 0,
        counts |-> [requests |-> 0, active |-> 0]]]
  /\ compute = [s \in PoolSlots |-> <<>>] /\ io = <<>>
  /\ event = [s \in PoolSlots |->
       [select |-> "unrecorded", read |-> "unrecorded", round |-> "unrecorded"]]
  /\ requests = [s \in PoolSlots |-> [count |-> 0, list |-> <<>>]]
  /\ served = {}
  /\ activeCount = [s \in PoolSlots |-> 0]
  /\ state = [s \in PoolSlots |-> [i \in Places |-> Ended]]
  /\ response = [s \in PoolSlots |-> [i \in Places |-> [k \in 1 .. Width |-> NoRow]]]
  /\ expanded = [q \in Queries |-> 0]
  /\ merged = [q \in Queries |-> {}]

HostStep ==
  \/ StartSlot
  \/ \E s \in PoolSlots : PassSlot(s) \/ IssueRound(s) \/ EndRound(s)
  \/ Synchronize

StreamStep(s) ==
  \/ InitKernel(s) \/ ClearCounts(s) \/ SelectKernel(s) \/ SignalSelect(s)
  \/ WaitForRead(s) \/ ResumeKernel(s) \/ CopyCounts(s) \/ SignalRound(s)

IoStep == ReadRow \/ EndRead \/ SignalRead

Next == HostStep \/ (\E s \in PoolSlots : StreamStep(s)) \/ IoStep

(* The host loop runs on, and a stream executes what is enqueued in it.    *)
Fairness ==
  /\ WF_vars(HostStep)
  /\ \A s \in PoolSlots : WF_vars(StreamStep(s))
  /\ WF_vars(IoStep)

Spec == Init /\ [][Next]_vars /\ Fairness
-----------------------------------------------------------------------------
(* The row buffer of a slot is used by one round at a time: while a read   *)
(* of the slot is enqueued or running, nothing that rewrites its requests, *)
(* its query states or its rows is at the head of its stream.              *)
BuffersExclusive ==
  \A s \in PoolSlots :
    (\E n \in DOMAIN io : io[n] = [kind |-> "read", slot |-> s]) =>
      ~ \E operation \in {"init", "clear", "select", "resume"} : AtHead(s, operation)

(* The two run-time checks of the host loop never fire: a round selects at *)
(* most Width nodes of each query, and each round but the last expands at  *)
(* least one node of some query that still has budget.                     *)
NeverThrows == host # "failed"

(* Each query goes through its rounds as if it ran alone, and all end.     *)
Unseeded(s) == \E n \in DOMAIN compute[s] : compute[s][n] = "init"

PhaseOf(q) ==
  LET owners == {s \in PoolSlots : q - slot[s].offset \in Batch(s)}
  IN  IF q > next THEN "waiting"
      ELSE IF owners = {} THEN "ended"
      ELSE LET s == CHOOSE s \in owners : TRUE
               own == state[s][q - slot[s].offset]
           IN IF Unseeded(s) THEN "waiting"
              ELSE IF ~own.active THEN "ended"
              ELSE IF own.selected = 0 THEN "selecting" ELSE "merging"

Rounds == INSTANCE QueryRounds WITH
  query <- [q \in Queries |->
              [phase |-> PhaseOf(q), expanded |-> expanded[q],
               merged |-> {IF row[1] = q THEN row[2] ELSE 0 : row \in merged[q]}]]

ImplementsRounds == Rounds!Spec
=============================================================================
