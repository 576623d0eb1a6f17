---------------------- MODULE MicrobatchPipeline_proofs ----------------------
(***************************************************************************)
(* Proofs about MicrobatchPipeline for every number of queries, size of a  *)
(* microbatch, depth of the pool, width, number of warps and budget: the   *)
(* rows of a slot are never read from the device and rewritten by its      *)
(* stream at the same time, the run-time checks of the host loop never     *)
(* fire, and every query goes through the rounds of QueryRounds.           *)
(*                                                                         *)
(* The argument for the first: a slot has at most one read among those of  *)
(* the I/O stream, its event is pending while it has, and its own stream   *)
(* is at the wait for that event.  For the second: a query that is still   *)
(* active after r rounds of its slot has expanded a node in each of them,  *)
(* so no query is active after as many rounds as it may expand nodes.  For *)
(* the third: what a query has merged is the rows of all nodes it expanded *)
(* but those it selected last, and each of these is in its place or will   *)
(* be put there by a read that the merge waits for.                        *)
(***************************************************************************)
EXTENDS MicrobatchPipeline, FiniteSetTheorems, FunctionTheorems,
        SequenceTheorems, TLAPS

(* What is left of the operations of a round at each of its points.        *)
Fresh       == <<"init">> \o SelectOperations
Clearing    == SelectOperations
Selecting   == Tail(Clearing)
Selected    == Tail(Selecting)
Waiting     == ResumeOperations
Resuming    == Tail(Waiting)
Copying     == Tail(Resuming)
Signalling  == Tail(Copying)

SelectStreams == {Fresh, Clearing, Selecting, Selected}
ResumeStreams == {Waiting, Resuming, Copying, Signalling}

EventStates == {"unrecorded", "pending", "complete"}

SlotStates ==
  [phase : {"idle", "select pending", "round pending"},
   offset : Nat, size : Nat, rounds : Nat, counts : [requests : Nat, active : Nat]]

PoolTypes ==
  /\ next \in 0 .. NumQueries
  /\ slot \in [PoolSlots -> SlotStates]
  /\ compute \in [PoolSlots -> SelectStreams \cup ResumeStreams \cup {<<>>}]
  /\ io \in Seq([kind : {"read", "io end"}, slot : PoolSlots])
  /\ event \in [PoolSlots -> [select : EventStates, read : EventStates, round : EventStates]]
  /\ DOMAIN requests = PoolSlots /\ \A s \in PoolSlots : requests[s].count \in Nat
  /\ activeCount \in [PoolSlots -> Nat]
  /\ DOMAIN state = PoolSlots
  /\ expanded \in [Queries -> Nat]

(* A slot is idle until it is activated, and its batch is of the queries.  *)
SlotsInOrder ==
  /\ host = "starting" =>
       cursor \in PoolSlots /\ \A s \in PoolSlots : s >= cursor => slot[s].phase = "idle"
  /\ \A s \in PoolSlots :
       slot[s].size <= MicrobatchQueries /\ slot[s].offset + slot[s].size <= NumQueries

(* A stream has operations of the phase its slot is in, and none once the  *)
(* event that the host waits for is complete.                              *)
StreamInPhase(s) ==
  /\ slot[s].phase = "idle" => compute[s] = <<>>
  /\ slot[s].phase = "select pending" => compute[s] \in SelectStreams \cup {<<>>}
  /\ slot[s].phase = "round pending" => compute[s] \in ResumeStreams \cup {<<>>}
  /\ slot[s].phase = "select pending" /\ event[s].select # "pending" => compute[s] = <<>>
  /\ slot[s].phase = "round pending" /\ event[s].round # "pending" => compute[s] = <<>>

(* What the I/O stream has for a slot is one read and its end, and the     *)
(* slot's own stream waits until they are over.                            *)
Awaited(s) ==
  slot[s].phase = "round pending" /\ event[s].read = "pending" /\ compute[s] = Waiting

ReadsAwaited ==
  /\ \A n \in DOMAIN io : Awaited(io[n].slot)
  /\ \A m, n \in DOMAIN io : io[m].slot = io[n].slot /\ io[m].kind = "io end" => n <= m

(* How far a slot is in its round.                                         *)
BeforeSelect(s) == compute[s] \in {Clearing, Selecting}
AfterSelect(s) ==
  slot[s].phase # "idle" /\ compute[s] \in ResumeStreams \cup {Selected, <<>>}
Copied(s) == slot[s].phase = "round pending" /\ compute[s] \in {Signalling, <<>>}

(* Whoever is active has expanded a node in every round.                   *)
ActiveExpanded(s, rounds) ==
  \A i \in Batch(s) : state[s][i].active => expanded[QueryAt(s, i)] >= rounds

RoundsBounded(s) ==
  /\ slot[s].phase # "idle" => slot[s].rounds <= MaxExpansions
  /\ compute[s] = Fresh => slot[s].rounds = 0
  /\ BeforeSelect(s) => ActiveExpanded(s, slot[s].rounds)
  /\ compute[s] = Selecting => requests[s].count = 0 /\ activeCount[s] = 0
  /\ AfterSelect(s) =>
       /\ ActiveExpanded(s, slot[s].rounds + 1)
       /\ activeCount[s] # 0 => slot[s].rounds < MaxExpansions
       /\ requests[s].count <= Capacity
  /\ Copied(s) =>
       /\ slot[s].counts.active # 0 => slot[s].rounds < MaxExpansions
       /\ slot[s].counts.requests <= Capacity

InRound(s) == StreamInPhase(s) /\ RoundsBounded(s)

PoolInvariant ==
  /\ PoolTypes /\ SlotsInOrder /\ (\A s \in PoolSlots : InRound(s)) /\ ReadsAwaited
  /\ NeverThrows
-----------------------------------------------------------------------------
(* There is a slot, and a microbatch fits its buffers.                     *)
LEMMA SlotExists == SlotCount \in Nat \ {0}
<1> DEFINE n == NumQueries + MicrobatchQueries - 1
<1>1. n \in Nat /\ n >= MicrobatchQueries
  BY PipelineAssumption
<1>2. n \div MicrobatchQueries \in Nat \ {0}
  <2> HIDE DEF n
  <2> QED
    BY <1>1, PipelineAssumption, Z3
<1> QED
  BY <1>2, PipelineAssumption DEF SlotCount, Microbatches, LesserOf

LEMMA BatchFits ==
  ASSUME NEW offset \in 0 .. NumQueries
  PROVE  /\ BatchSize(offset) \in Nat /\ BatchSize(offset) <= MicrobatchQueries
         /\ offset + BatchSize(offset) <= NumQueries
BY PipelineAssumption DEF BatchSize, LesserOf

LEMMA CapacityType == Capacity \in Nat
BY PipelineAssumption DEF Capacity

LEMMA BatchSizeIs ==
  ASSUME NEW s \in PoolSlots, slot[s].size \in Nat
  PROVE  IsFiniteSet(Batch(s)) /\ Cardinality(Batch(s)) = slot[s].size
<1> DEFINE n == slot[s].size
<1>1. n \in Nat /\ Batch(s) = 1 .. n
  BY DEF Batch
<1> HIDE DEF n
<1>2. IsFiniteSet(1 .. n) /\ Cardinality(1 .. n) = n
  BY <1>1, FS_Interval
<1> QED
  BY <1>1, <1>2 DEF n

(* A round selects at most Width nodes of each query of the batch.         *)
LEMMA RequestsFit ==
  ASSUME PoolTypes, SlotsInOrder, NEW s \in PoolSlots,
         NEW uncached \in SUBSET (Batch(s) \X (1 .. Width))
  PROVE  Len(SetToSeq({[place |-> p[1], index |-> p[2], row |-> RowOf(s, p[1], p[2])]
                         : p \in uncached})) \in 0 .. Capacity
<1> DEFINE request(p) == [place |-> p[1], index |-> p[2], row |-> RowOf(s, p[1], p[2])]
           T == {request(p) : p \in uncached}
           places == Batch(s) \X (1 .. Width)
<1>1. slot[s].size \in Nat /\ slot[s].size <= MicrobatchQueries
  BY DEF PoolTypes, SlotStates, SlotsInOrder
<1>2. /\ IsFiniteSet(places) /\ Cardinality(places) = slot[s].size * Width
  <2>1. IsFiniteSet(Batch(s)) /\ Cardinality(Batch(s)) = slot[s].size
    BY <1>1, BatchSizeIs
  <2>2. IsFiniteSet(1 .. Width) /\ Cardinality(1 .. Width) = Width
    BY PipelineAssumption, FS_Interval
  <2> QED
    BY <2>1, <2>2, FS_Product
<1>3. slot[s].size * Width <= Capacity
  BY <1>1, PipelineAssumption DEF Capacity
<1>4. IsFiniteSet(uncached) /\ Cardinality(uncached) <= Cardinality(places)
  BY <1>2, FS_Subset
<1>5. IsFiniteSet(T) /\ Cardinality(T) <= Cardinality(uncached)
  <2> DEFINE f == [p \in uncached |-> request(p)]
  <2>1. f \in Surjection(uncached, T)
    BY DEF Surjection
  <2> QED
    BY <1>4, <2>1, FS_Surjection DEF ExistsSurjection
<1>6. Cardinality(T) \in Nat /\ ExistsBijection(1 .. Cardinality(T), T)
  BY <1>5, FS_CardinalityType
<1>7. SetToSeq(T) \in [1 .. Cardinality(T) -> T]
  <2>1. PICK f \in [1 .. Cardinality(T) -> T] : IsInjective(f)
    BY <1>6 DEF ExistsBijection, Bijection, Injection
  <2> QED
    BY <2>1 DEF SetToSeq
<1>8. Len(SetToSeq(T)) = Cardinality(T)
  BY <1>6, <1>7
<1>9. Cardinality(uncached) \in Nat /\ slot[s].size * Width \in Nat
  BY <1>1, <1>4, FS_CardinalityType, PipelineAssumption
<1> QED
  BY <1>2, <1>3, <1>4, <1>5, <1>6, <1>8, <1>9, CapacityType

LEMMA TailOfPrefixed ==
  ASSUME NEW S, NEW a \in S, NEW s \in Seq(S) PROVE Tail(<<a>> \o s) = s
<1> DEFINE t == <<a>> \o s
<1>1. t \in Seq(S) /\ t # <<>> /\ Len(t) = Len(s) + 1
  OBVIOUS
<1>2. \A i \in 1 .. Len(s) : t[i + 1] = s[i]
  OBVIOUS
<1> HIDE DEF t
<1>3. /\ Tail(t) \in Seq(S) /\ Len(Tail(t)) = Len(s)
      /\ \A i \in 1 .. Len(s) : Tail(t)[i] = t[i + 1]
  BY <1>1, HeadTailProperties
<1>4. Tail(t) = s
  BY <1>2, <1>3, SeqEqual
<1> QED
  BY <1>4 DEF t

(* The operations in the order in which a stream executes them.            *)
LEMMA Operations ==
  /\ Head(Fresh) = "init" /\ Tail(Fresh) = Clearing
  /\ Head(Clearing) = "clear" /\ Tail(Clearing) = Selecting
  /\ Head(Selecting) = "select" /\ Tail(Selecting) = Selected
  /\ Head(Selected) = "select ready" /\ Tail(Selected) = <<>>
  /\ Head(Waiting) = "wait" /\ Tail(Waiting) = Resuming
  /\ Head(Resuming) = "resume" /\ Tail(Resuming) = Copying
  /\ Head(Copying) = "copy" /\ Tail(Copying) = Signalling
  /\ Head(Signalling) = "round done" /\ Tail(Signalling) = <<>>
  /\ <<>> \notin SelectStreams \cup ResumeStreams
  /\ <<>> \o <<"init">> \o SelectOperations = Fresh
  /\ <<>> \o SelectOperations = Clearing /\ <<>> \o ResumeOperations = Waiting
<1> USE DEF Fresh, Clearing, Selecting, Selected, Waiting, Resuming, Copying, Signalling,
            SelectOperations, ResumeOperations
<1>1. /\ Head(Fresh) = "init" /\ Head(Clearing) = "clear"
      /\ Head(Selecting) = "select" /\ Head(Selected) = "select ready"
  OBVIOUS
<1>2. /\ Head(Waiting) = "wait" /\ Head(Resuming) = "resume"
      /\ Head(Copying) = "copy" /\ Head(Signalling) = "round done"
  OBVIOUS
<1>3. Tail(Fresh) = Clearing
  <2> DEFINE Operation == {"init", "clear", "select", "select ready"}
  <2>1. "init" \in Operation /\ SelectOperations \in Seq(Operation)
    OBVIOUS
  <2> HIDE DEF SelectOperations, Operation
  <2> QED
    BY <2>1, TailOfPrefixed
<1>4. Tail(Selected) = <<>> /\ Tail(Signalling) = <<>>
  OBVIOUS
<1>5. /\ Fresh # <<>> /\ Clearing # <<>> /\ Selecting # <<>> /\ Selected # <<>>
      /\ Waiting # <<>> /\ Resuming # <<>> /\ Copying # <<>> /\ Signalling # <<>>
  OBVIOUS
<1>6. <<>> \o <<"init">> \o SelectOperations = Fresh
  OBVIOUS
<1>7. <<>> \o SelectOperations = Clearing /\ <<>> \o ResumeOperations = Waiting
  OBVIOUS
<1>8. <<>> \notin SelectStreams \cup ResumeStreams
  <2> HIDE DEF Fresh, Clearing, Selecting, Selected, Waiting, Resuming, Copying, Signalling
  <2> QED
    BY <1>5 DEF SelectStreams, ResumeStreams
<1>9. Tail(Clearing) = Selecting /\ Tail(Selecting) = Selected
  OBVIOUS
<1>10. Tail(Waiting) = Resuming /\ Tail(Resuming) = Copying /\ Tail(Copying) = Signalling
  OBVIOUS
<1> HIDE DEF Fresh, Clearing, Selecting, Selected, Waiting, Resuming, Copying, Signalling,
             SelectOperations, ResumeOperations
<1> QED
  BY <1>1, <1>2, <1>3, <1>4, <1>6, <1>7, <1>8, <1>9, <1>10, Zenon

-----------------------------------------------------------------------------
(* The stages of a stream differ; the types of what a slot is made of.      *)
LEMMA Streams ==
  /\ <<>> \notin SelectStreams \cup ResumeStreams
  /\ Fresh \notin {Clearing, Selecting, Selected} /\ Clearing \notin {Selecting, Selected}
  /\ Selecting # Selected /\ SelectStreams \cap ResumeStreams = {}
  /\ Waiting \notin {Resuming, Copying, Signalling} /\ Resuming \notin {Copying, Signalling}
  /\ Copying # Signalling
<1>1. /\ Head(Fresh) = "init" /\ Head(Clearing) = "clear"
      /\ Head(Selecting) = "select" /\ Head(Selected) = "select ready"
      /\ Head(Waiting) = "wait" /\ Head(Resuming) = "resume"
      /\ Head(Copying) = "copy" /\ Head(Signalling) = "round done"
  BY Operations, Zenon
<1>2. <<>> \notin SelectStreams \cup ResumeStreams
  BY Operations, Zenon
<1>3. /\ Fresh \notin {Clearing, Selecting, Selected} /\ Clearing \notin {Selecting, Selected}
      /\ Selecting # Selected
      /\ Waiting \notin {Resuming, Copying, Signalling} /\ Resuming \notin {Copying, Signalling}
      /\ Copying # Signalling
  BY <1>1
<1>4. SelectStreams \cap ResumeStreams = {}
  BY <1>1 DEF SelectStreams, ResumeStreams
<1> QED
  BY <1>2, <1>3, <1>4, Zenon

LEMMA SlotTypes ==
  ASSUME PoolTypes, NEW s \in PoolSlots
  PROVE  /\ slot[s].phase \in {"idle", "select pending", "round pending"}
         /\ slot[s].offset \in Nat /\ slot[s].size \in Nat /\ slot[s].rounds \in Nat
         /\ slot[s].counts.requests \in Nat /\ slot[s].counts.active \in Nat
         /\ requests[s].count \in Nat /\ activeCount[s] \in Nat
BY DEF PoolTypes, SlotStates

LEMMA ReadTypes ==
  ASSUME PoolTypes, NEW n \in DOMAIN io
  PROVE  io[n].slot \in PoolSlots /\ io[n].kind \in {"read", "io end"}
<1> DEFINE Operation == [kind : {"read", "io end"}, slot : PoolSlots]
<1>1. io \in Seq(Operation)
  BY DEF PoolTypes
<1>2. io[n] \in Operation
  <2> HIDE DEF Operation
  <2> QED
    BY <1>1, ElementOfSeq, LenProperties
<1> QED
  BY <1>2

LEMMA ExpandedType ==
  ASSUME PoolTypes, NEW q \in Queries
  PROVE  expanded[q] \in Nat
BY DEF PoolTypes

LEMMA BatchOfQueries ==
  ASSUME PoolTypes, SlotsInOrder, NEW s \in PoolSlots, NEW i \in Batch(s)
  PROVE  QueryAt(s, i) \in Queries /\ i \in Places /\ i \in Nat
<1>1. i \in 1 .. slot[s].size /\ slot[s].size \in Nat /\ slot[s].offset \in Nat
  BY SlotTypes DEF Batch
<1>2. slot[s].size <= MicrobatchQueries /\ slot[s].offset + slot[s].size <= NumQueries
  BY DEF SlotsInOrder
<1> QED
  BY <1>1, <1>2, PipelineAssumption DEF QueryAt, Queries, Places

(* One slot is moved.                                                      *)
LEMMA SlotReplaced ==
  ASSUME PoolTypes, NEW s \in PoolSlots, NEW new \in SlotStates,
         slot' = [slot EXCEPT ![s] = new]
  PROVE  /\ slot' \in [PoolSlots -> SlotStates] /\ slot'[s] = new
         /\ \A u \in PoolSlots \ {s} : slot'[u] = slot[u]
<1>1. slot \in [PoolSlots -> SlotStates]
  BY DEF PoolTypes
<1> QED
  BY <1>1

LEMMA SlotMoves ==
  ASSUME PoolTypes, NEW s \in PoolSlots,
         NEW phase \in {"idle", "select pending", "round pending"}, NEW rounds \in Nat,
         slot' = [slot EXCEPT ![s] = [@ EXCEPT !.phase = phase, !.rounds = rounds]]
  PROVE  /\ slot' \in [PoolSlots -> SlotStates]
         /\ slot'[s].phase = phase /\ slot'[s].rounds = rounds
         /\ slot'[s].offset = slot[s].offset /\ slot'[s].size = slot[s].size
         /\ slot'[s].counts = slot[s].counts
         /\ \A u \in PoolSlots \ {s} : slot'[u] = slot[u]
<1> DEFINE new == [slot[s] EXCEPT !.phase = phase, !.rounds = rounds]
<1>1. slot[s] \in SlotStates
  BY DEF PoolTypes
<1>2. new \in SlotStates
  BY <1>1 DEF SlotStates
<1>3. /\ new.phase = phase /\ new.rounds = rounds
      /\ new.offset = slot[s].offset /\ new.size = slot[s].size /\ new.counts = slot[s].counts
  BY <1>1 DEF SlotStates
<1>4. slot' = [slot EXCEPT ![s] = new]
  OBVIOUS
<1> HIDE DEF new
<1> QED
  BY <1>2, <1>3, <1>4, SlotReplaced

LEMMA SlotCounts ==
  ASSUME PoolTypes, NEW s \in PoolSlots,
         slot' = [slot EXCEPT ![s].counts =
                    [requests |-> requests[s].count, active |-> activeCount[s]]]
  PROVE  /\ slot' \in [PoolSlots -> SlotStates]
         /\ slot'[s].phase = slot[s].phase /\ slot'[s].rounds = slot[s].rounds
         /\ slot'[s].offset = slot[s].offset /\ slot'[s].size = slot[s].size
         /\ slot'[s].counts.requests = requests[s].count
         /\ slot'[s].counts.active = activeCount[s]
         /\ \A u \in PoolSlots \ {s} : slot'[u] = slot[u]
<1> DEFINE counts == [requests |-> requests[s].count, active |-> activeCount[s]]
           new == [slot[s] EXCEPT !.counts = counts]
<1>1. slot[s] \in SlotStates /\ requests[s].count \in Nat /\ activeCount[s] \in Nat
  BY DEF PoolTypes
<1>2. new \in SlotStates
  BY <1>1 DEF SlotStates
<1>3. /\ new.phase = slot[s].phase /\ new.rounds = slot[s].rounds
      /\ new.offset = slot[s].offset /\ new.size = slot[s].size
      /\ new.counts.requests = requests[s].count /\ new.counts.active = activeCount[s]
  BY <1>1 DEF SlotStates
<1>4. slot' = [slot EXCEPT ![s] = new]
  OBVIOUS
<1> HIDE DEF new
<1> QED
  BY <1>2, <1>3, <1>4, SlotReplaced

(* Which operation a stream executes says where it is.                     *)
LEMMA Executes ==
  ASSUME PoolInvariant, NEW s \in PoolSlots, NEW operation,
         AtHead(s, operation), Consume(s)
  PROVE  LET moves(from, to) == compute[s] = from /\ compute' = [compute EXCEPT ![s] = to]
         IN  /\ operation = "init"         => moves(Fresh, Clearing)
             /\ operation = "clear"        => moves(Clearing, Selecting)
             /\ operation = "select"       => moves(Selecting, Selected)
             /\ operation = "select ready" => moves(Selected, <<>>)
             /\ operation = "wait"         => moves(Waiting, Resuming)
             /\ operation = "resume"       => moves(Resuming, Copying)
             /\ operation = "copy"         => moves(Copying, Signalling)
             /\ operation = "round done"   => moves(Signalling, <<>>)
             /\ compute[s] \in SelectStreams => slot[s].phase = "select pending"
             /\ compute[s] \in ResumeStreams => slot[s].phase = "round pending"
<1>1. compute[s] \in SelectStreams \cup ResumeStreams /\ compute[s] # <<>>
  BY DEF PoolInvariant, PoolTypes, AtHead
<1>2. slot[s].phase \in {"idle", "select pending", "round pending"} /\ StreamInPhase(s)
  BY SlotTypes DEF PoolInvariant, InRound
<1>3. Head(compute[s]) = operation /\ compute' = [compute EXCEPT ![s] = Tail(compute[s])]
  BY DEF AtHead, Consume
<1>4. /\ compute[s] \in SelectStreams => slot[s].phase = "select pending"
      /\ compute[s] \in ResumeStreams => slot[s].phase = "round pending"
  BY <1>1, <1>2, Streams DEF StreamInPhase
<1> QED
  <2>1. compute[s] \in {Fresh, Clearing, Selecting, Selected, Waiting, Resuming, Copying, Signalling}
    BY <1>1 DEF SelectStreams, ResumeStreams
  <2> QED
    BY <1>3, <1>4, <2>1, Operations

(* A step of one slot leaves the others as they are; the queries of the    *)
(* others may only have expanded more.                                     *)
Untouched(u) ==
  UNCHANGED <<slot[u], compute[u], event[u], requests[u], activeCount[u], state[u]>>

LEMMA OthersKept ==
  ASSUME PoolInvariant, PoolTypes', NEW u \in PoolSlots, Untouched(u),
         \A q \in Queries : expanded'[q] >= expanded[q]
  PROVE  InRound(u)'
<1>1. StreamInPhase(u)'
  BY DEF PoolInvariant, InRound, StreamInPhase, Untouched
<1>2. \A i \in Batch(u) : QueryAt(u, i) \in Queries
  BY BatchOfQueries DEF PoolInvariant
<1>3. ASSUME NEW r \in Nat, ActiveExpanded(u, r) PROVE ActiveExpanded(u, r)'
  <2>1. SUFFICES ASSUME NEW i \in Batch(u), state[u][i].active
                 PROVE  expanded'[QueryAt(u, i)] >= r
    BY DEF ActiveExpanded, Batch, QueryAt, Untouched
  <2>2. expanded[QueryAt(u, i)] >= r
    BY <1>3, <2>1 DEF ActiveExpanded
  <2>3. expanded[QueryAt(u, i)] \in Nat /\ expanded'[QueryAt(u, i)] \in Nat
    BY <1>2 DEF PoolInvariant, PoolTypes
  <2> QED
    BY <1>2, <2>2, <2>3
<1>4. slot[u].rounds \in Nat /\ slot[u].rounds + 1 \in Nat
  <2>1. PoolTypes
    BY DEF PoolInvariant
  <2>2. slot[u].rounds \in Nat
    BY <2>1, SlotTypes
  <2> QED
    BY <2>2
<1>5. RoundsBounded(u)'
  BY <1>3, <1>4
  DEF PoolInvariant, InRound, RoundsBounded, BeforeSelect, AfterSelect, Copied, Untouched
<1> QED
  BY <1>1, <1>5 DEF InRound

LEMMA ReadsStayAwaited ==
  ASSUME PoolInvariant, UNCHANGED io, NEW s \in PoolSlots, ~Awaited(s),
         \A u \in PoolSlots \ {s} : Untouched(u)
  PROVE  ReadsAwaited'
<1>1. \A n \in DOMAIN io : io[n].slot \in PoolSlots \ {s}
  <2>1. \A n \in DOMAIN io : io[n].slot \in PoolSlots
    BY ReadTypes DEF PoolInvariant
  <2> QED
    BY <2>1 DEF PoolInvariant, ReadsAwaited
<1>2. \A u \in PoolSlots \ {s} : Awaited(u) => Awaited(u)'
  BY DEF Awaited, Untouched
<1> QED
  BY <1>1, <1>2 DEF PoolInvariant, ReadsAwaited

LEMMA SlotStep ==
  ASSUME PoolInvariant, PoolTypes', SlotsInOrder', NeverThrows', UNCHANGED io,
         NEW s \in PoolSlots, ~Awaited(s), InRound(s)',
         \A u \in PoolSlots \ {s} : Untouched(u),
         \A q \in Queries : expanded'[q] >= expanded[q]
  PROVE  PoolInvariant'
BY OthersKept, ReadsStayAwaited DEF PoolInvariant

-----------------------------------------------------------------------------
(* The operations of a slot's own stream.                                  *)
LEMMA OperationStep ==
  ASSUME PoolInvariant, PoolTypes', NEW s \in PoolSlots, ~Awaited(s), InRound(s)',
         UNCHANGED <<host, cursor, io>>,
         \A u \in PoolSlots : /\ slot'[u].phase = slot[u].phase
                              /\ slot'[u].offset = slot[u].offset
                              /\ slot'[u].size = slot[u].size,
         \A u \in PoolSlots \ {s} : Untouched(u),
         \A q \in Queries : expanded'[q] >= expanded[q]
  PROVE  PoolInvariant'
<1>1. SlotsInOrder'
  BY DEF PoolInvariant, SlotsInOrder
<1> QED
  BY <1>1, SlotStep DEF PoolInvariant, NeverThrows

LEMMA KeptInitKernel ==
  ASSUME PoolInvariant, NEW s \in PoolSlots, InitKernel(s) PROVE PoolInvariant'
<1>1. /\ compute[s] = Fresh /\ compute' = [compute EXCEPT ![s] = Clearing]
      /\ slot[s].phase = "select pending"
  BY Executes DEF InitKernel, SelectStreams
<1>2. UNCHANGED <<host, cursor, next, slot, io, event, requests, activeCount, expanded>>
  BY DEF InitKernel, hostVars, buffers, results
<1>3. DOMAIN state' = DOMAIN state /\ \A u \in PoolSlots \ {s} : state'[u] = state[u]
  <2>1. DOMAIN state = PoolSlots
    BY DEF PoolInvariant, PoolTypes
  <2> QED
    BY <2>1 DEF InitKernel
<1>4. PoolTypes'
  BY <1>1, <1>2, <1>3 DEF PoolInvariant, PoolTypes, SelectStreams, ResumeStreams, EventStates
<1>5. compute'[s] = Clearing /\ InRound(s)
  BY <1>1 DEF PoolInvariant, PoolTypes
<1>6. StreamInPhase(s)'
  BY <1>1, <1>2, <1>3, <1>5, Streams DEF InRound, StreamInPhase, SelectStreams, ResumeStreams
<1>7. RoundsBounded(s)'
  <2>1. slot[s].rounds = 0
    BY <1>1, <1>5 DEF InRound, RoundsBounded
  <2>2. ActiveExpanded(s, 0)'
    <3>1. SUFFICES ASSUME NEW i \in Batch(s) PROVE expanded[QueryAt(s, i)] >= 0
      BY <1>2 DEF ActiveExpanded, Batch, QueryAt
    <3>2. expanded[QueryAt(s, i)] \in Nat
      BY BatchOfQueries, ExpandedType DEF PoolInvariant
    <3> QED
      BY <3>2
  <2>3. ~AfterSelect(s)' /\ ~Copied(s)' /\ Clearing \notin {Fresh, Selecting}
    BY <1>2, <1>5, Streams DEF AfterSelect, Copied, SelectStreams, ResumeStreams
  <2> QED
    BY <1>2, <1>5, <2>1, <2>2, <2>3, PipelineAssumption DEF RoundsBounded
<1>8. /\ \A u \in PoolSlots \ {s} : Untouched(u)
      /\ \A u \in PoolSlots : slot'[u].phase = slot[u].phase /\ slot'[u].offset = slot[u].offset
                              /\ slot'[u].size = slot[u].size
  BY <1>1, <1>2, <1>3 DEF PoolInvariant, PoolTypes, Untouched
<1>9. ~Awaited(s)
  BY <1>1, Streams DEF Awaited, SelectStreams, ResumeStreams
<1>10. \A q \in Queries : expanded'[q] >= expanded[q]
  BY <1>2, ExpandedType DEF PoolInvariant
<1> QED
  BY <1>2, <1>4, <1>5, <1>6, <1>7, <1>8, <1>9, <1>10, OperationStep DEF InRound

LEMMA KeptClearCounts ==
  ASSUME PoolInvariant, NEW s \in PoolSlots, ClearCounts(s) PROVE PoolInvariant'
<1>1. /\ compute[s] = Clearing /\ compute' = [compute EXCEPT ![s] = Selecting]
      /\ slot[s].phase = "select pending"
  BY Executes DEF ClearCounts, SelectStreams
<1>2. UNCHANGED <<host, cursor, next, slot, io, event, state, expanded>>
  BY DEF ClearCounts, hostVars, buffers, results
<1>3. /\ requests' = [requests EXCEPT ![s] = [count |-> 0, list |-> <<>>]]
      /\ activeCount' = [activeCount EXCEPT ![s] = 0]
      /\ DOMAIN requests = PoolSlots /\ DOMAIN activeCount = PoolSlots
  BY DEF ClearCounts, PoolInvariant, PoolTypes
<1>4. PoolTypes'
  BY <1>1, <1>2, <1>3 DEF PoolInvariant, PoolTypes, SelectStreams, ResumeStreams, EventStates
<1>5. compute'[s] = Selecting /\ InRound(s)
  BY <1>1 DEF PoolInvariant, PoolTypes
<1>6. StreamInPhase(s)'
  BY <1>1, <1>2, <1>3, <1>5, Streams DEF InRound, StreamInPhase, SelectStreams, ResumeStreams
<1>7. RoundsBounded(s)'
  BY <1>1, <1>2, <1>3, <1>5, Streams
  DEF InRound, RoundsBounded, BeforeSelect, AfterSelect, Copied, ActiveExpanded, Batch, QueryAt,
      SelectStreams, ResumeStreams
<1>8. /\ \A u \in PoolSlots \ {s} : Untouched(u)
      /\ \A u \in PoolSlots : slot'[u].phase = slot[u].phase /\ slot'[u].offset = slot[u].offset
                              /\ slot'[u].size = slot[u].size
  BY <1>1, <1>2, <1>3 DEF PoolInvariant, PoolTypes, Untouched
<1>9. ~Awaited(s)
  BY <1>1, Streams DEF Awaited, SelectStreams, ResumeStreams
<1>10. \A q \in Queries : expanded'[q] >= expanded[q]
  BY <1>2, ExpandedType DEF PoolInvariant
<1> QED
  BY <1>2, <1>4, <1>5, <1>6, <1>7, <1>8, <1>9, <1>10, OperationStep DEF InRound

LEMMA KeptSignalSelect ==
  ASSUME PoolInvariant, NEW s \in PoolSlots, SignalSelect(s) PROVE PoolInvariant'
<1>1. /\ compute[s] = Selected /\ compute' = [compute EXCEPT ![s] = <<>>]
      /\ slot[s].phase = "select pending"
  BY Executes DEF SignalSelect, SelectStreams
<1>2. UNCHANGED <<host, cursor, next, slot, io, requests, activeCount, state, expanded>>
  BY DEF SignalSelect, hostVars, buffers, results
<1>3. /\ event' = [event EXCEPT ![s].select = "complete"]
      /\ DOMAIN event = PoolSlots
  BY DEF SignalSelect, PoolInvariant, PoolTypes
<1>4. PoolTypes'
  BY <1>1, <1>2, <1>3 DEF PoolInvariant, PoolTypes, SelectStreams, ResumeStreams, EventStates
<1>5. compute'[s] = <<>> /\ InRound(s)
  BY <1>1 DEF PoolInvariant, PoolTypes
<1>6. StreamInPhase(s)'
  BY <1>1, <1>2, <1>3, <1>5, Streams DEF InRound, StreamInPhase, SelectStreams, ResumeStreams
<1>7. RoundsBounded(s)'
  BY <1>1, <1>2, <1>3, <1>5, Streams
  DEF InRound, RoundsBounded, BeforeSelect, AfterSelect, Copied, ActiveExpanded, Batch, QueryAt,
      SelectStreams, ResumeStreams
<1>8. /\ \A u \in PoolSlots \ {s} : Untouched(u)
      /\ \A u \in PoolSlots : slot'[u].phase = slot[u].phase /\ slot'[u].offset = slot[u].offset
                              /\ slot'[u].size = slot[u].size
  BY <1>1, <1>2, <1>3 DEF PoolInvariant, PoolTypes, Untouched
<1>9. ~Awaited(s)
  BY <1>1, Streams DEF Awaited, SelectStreams, ResumeStreams
<1>10. \A q \in Queries : expanded'[q] >= expanded[q]
  BY <1>2, ExpandedType DEF PoolInvariant
<1> QED
  BY <1>2, <1>4, <1>5, <1>6, <1>7, <1>8, <1>9, <1>10, OperationStep DEF InRound

LEMMA KeptResumeKernel ==
  ASSUME PoolInvariant, NEW s \in PoolSlots, ResumeKernel(s) PROVE PoolInvariant'
<1>1. /\ compute[s] = Resuming /\ compute' = [compute EXCEPT ![s] = Copying]
      /\ slot[s].phase = "round pending"
  BY Executes DEF ResumeKernel, ResumeStreams
<1>2. UNCHANGED <<host, cursor, next, slot, io, event, requests, activeCount, expanded>>
  BY DEF ResumeKernel, hostVars, buffers, results
<1>3. /\ DOMAIN state = PoolSlots /\ DOMAIN state' = PoolSlots
      /\ \A u \in PoolSlots \ {s} : state'[u] = state[u]
      /\ \A i \in Batch(s) : state'[s][i].active = state[s][i].active
  <2>1. DOMAIN state = PoolSlots
    BY DEF PoolInvariant, PoolTypes
  <2>2. \A i \in Batch(s) : i \in Places
    BY BatchOfQueries DEF PoolInvariant
  <2> QED
    BY <2>1, <2>2 DEF ResumeKernel
<1>4. PoolTypes'
  BY <1>1, <1>2, <1>3 DEF PoolInvariant, PoolTypes, SelectStreams, ResumeStreams, EventStates
<1>5. compute'[s] = Copying /\ InRound(s)
  BY <1>1 DEF PoolInvariant, PoolTypes
<1>6. StreamInPhase(s)'
  BY <1>1, <1>2, <1>3, <1>5, Streams DEF InRound, StreamInPhase, SelectStreams, ResumeStreams
<1>7. RoundsBounded(s)'
  BY <1>1, <1>2, <1>3, <1>5, Streams
  DEF InRound, RoundsBounded, BeforeSelect, AfterSelect, Copied, ActiveExpanded, Batch, QueryAt,
      SelectStreams, ResumeStreams
<1>8. /\ \A u \in PoolSlots \ {s} : Untouched(u)
      /\ \A u \in PoolSlots : slot'[u].phase = slot[u].phase /\ slot'[u].offset = slot[u].offset
                              /\ slot'[u].size = slot[u].size
  BY <1>1, <1>2, <1>3 DEF PoolInvariant, PoolTypes, Untouched
<1>9. ~Awaited(s)
  BY <1>1, Streams DEF Awaited, SelectStreams, ResumeStreams
<1>10. \A q \in Queries : expanded'[q] >= expanded[q]
  BY <1>2, ExpandedType DEF PoolInvariant
<1> QED
  BY <1>2, <1>4, <1>5, <1>6, <1>7, <1>8, <1>9, <1>10, OperationStep DEF InRound

LEMMA KeptCopyCounts ==
  ASSUME PoolInvariant, NEW s \in PoolSlots, CopyCounts(s) PROVE PoolInvariant'
<1>1. /\ compute[s] = Copying /\ compute' = [compute EXCEPT ![s] = Signalling]
      /\ slot[s].phase = "round pending"
  BY Executes DEF CopyCounts, ResumeStreams
<1>2. UNCHANGED <<host, cursor, next, io, event, requests, activeCount, state, expanded>>
  BY DEF CopyCounts, hostVars, buffers, results
<1>3. /\ slot' = [slot EXCEPT ![s].counts =
                      [requests |-> requests[s].count, active |-> activeCount[s]]]
      /\ requests[s].count \in Nat /\ activeCount[s] \in Nat
  BY DEF CopyCounts, PoolInvariant, PoolTypes
<1>4. /\ slot' \in [PoolSlots -> SlotStates]
      /\ slot'[s].phase = slot[s].phase /\ slot'[s].rounds = slot[s].rounds
      /\ slot'[s].offset = slot[s].offset /\ slot'[s].size = slot[s].size
      /\ slot'[s].counts.requests = requests[s].count
      /\ slot'[s].counts.active = activeCount[s]
      /\ \A u \in PoolSlots \ {s} : slot'[u] = slot[u]
  BY <1>3, SlotCounts DEF PoolInvariant
<1>5. PoolTypes'
  BY <1>1, <1>2, <1>4 DEF PoolInvariant, PoolTypes, ResumeStreams
<1>6. compute'[s] = Signalling /\ InRound(s) /\ DOMAIN compute = PoolSlots
  BY <1>1 DEF PoolInvariant, PoolTypes
<1>7. StreamInPhase(s)'
  BY <1>1, <1>2, <1>4, <1>6, Streams DEF InRound, StreamInPhase, SelectStreams, ResumeStreams
<1>8. RoundsBounded(s)'
  BY <1>1, <1>2, <1>4, <1>6, Streams
  DEF InRound, RoundsBounded, BeforeSelect, AfterSelect, Copied, ActiveExpanded, Batch, QueryAt,
      SelectStreams, ResumeStreams
<1>9. /\ \A u \in PoolSlots \ {s} : Untouched(u)
      /\ \A u \in PoolSlots : slot'[u].phase = slot[u].phase /\ slot'[u].offset = slot[u].offset
                              /\ slot'[u].size = slot[u].size
  BY <1>1, <1>2, <1>4, <1>6 DEF Untouched
<1>10. ~Awaited(s)
  BY <1>1, Streams DEF Awaited, SelectStreams, ResumeStreams
<1>11. \A q \in Queries : expanded'[q] >= expanded[q]
  BY <1>2, ExpandedType DEF PoolInvariant
<1> QED
  BY <1>2, <1>5, <1>7, <1>8, <1>9, <1>10, <1>11, OperationStep DEF InRound

LEMMA KeptSignalRound ==
  ASSUME PoolInvariant, NEW s \in PoolSlots, SignalRound(s) PROVE PoolInvariant'
<1>1. /\ compute[s] = Signalling /\ compute' = [compute EXCEPT ![s] = <<>>]
      /\ slot[s].phase = "round pending"
  BY Executes DEF SignalRound, ResumeStreams
<1>2. UNCHANGED <<host, cursor, next, slot, io, requests, activeCount, state, expanded>>
  BY DEF SignalRound, hostVars, buffers, results
<1>3. /\ event' = [event EXCEPT ![s].round = "complete"]
      /\ DOMAIN event = PoolSlots
  BY DEF SignalRound, PoolInvariant, PoolTypes
<1>4. PoolTypes'
  BY <1>1, <1>2, <1>3 DEF PoolInvariant, PoolTypes, SelectStreams, ResumeStreams, EventStates
<1>5. compute'[s] = <<>> /\ InRound(s)
  BY <1>1 DEF PoolInvariant, PoolTypes
<1>6. StreamInPhase(s)'
  BY <1>1, <1>2, <1>3, <1>5, Streams DEF InRound, StreamInPhase, SelectStreams, ResumeStreams
<1>7. RoundsBounded(s)'
  BY <1>1, <1>2, <1>3, <1>5, Streams
  DEF InRound, RoundsBounded, BeforeSelect, AfterSelect, Copied, ActiveExpanded, Batch, QueryAt,
      SelectStreams, ResumeStreams
<1>8. /\ \A u \in PoolSlots \ {s} : Untouched(u)
      /\ \A u \in PoolSlots : slot'[u].phase = slot[u].phase /\ slot'[u].offset = slot[u].offset
                              /\ slot'[u].size = slot[u].size
  BY <1>1, <1>2, <1>3 DEF PoolInvariant, PoolTypes, Untouched
<1>9. ~Awaited(s)
  BY <1>1, Streams DEF Awaited, SelectStreams, ResumeStreams
<1>10. \A q \in Queries : expanded'[q] >= expanded[q]
  BY <1>2, ExpandedType DEF PoolInvariant
<1> QED
  BY <1>2, <1>4, <1>5, <1>6, <1>7, <1>8, <1>9, <1>10, OperationStep DEF InRound

LEMMA KeptWaitForRead ==
  ASSUME PoolInvariant, NEW s \in PoolSlots, WaitForRead(s) PROVE PoolInvariant'
<1>1. /\ compute[s] = Waiting /\ compute' = [compute EXCEPT ![s] = Resuming]
      /\ slot[s].phase = "round pending"
  BY Executes DEF WaitForRead, ResumeStreams
<1>2. UNCHANGED <<host, cursor, next, slot, io, event, requests, activeCount, state, expanded>>
  BY DEF WaitForRead, hostVars, buffers, results
<1>3. event[s].read # "pending"
  BY DEF WaitForRead
<1>4. PoolTypes'
  BY <1>1, <1>2, <1>3 DEF PoolInvariant, PoolTypes, SelectStreams, ResumeStreams, EventStates
<1>5. compute'[s] = Resuming /\ InRound(s)
  BY <1>1 DEF PoolInvariant, PoolTypes
<1>6. StreamInPhase(s)'
  BY <1>1, <1>2, <1>3, <1>5, Streams DEF InRound, StreamInPhase, SelectStreams, ResumeStreams
<1>7. RoundsBounded(s)'
  BY <1>1, <1>2, <1>3, <1>5, Streams
  DEF InRound, RoundsBounded, BeforeSelect, AfterSelect, Copied, ActiveExpanded, Batch, QueryAt,
      SelectStreams, ResumeStreams
<1>8. /\ \A u \in PoolSlots \ {s} : Untouched(u)
      /\ \A u \in PoolSlots : slot'[u].phase = slot[u].phase /\ slot'[u].offset = slot[u].offset
                              /\ slot'[u].size = slot[u].size
  BY <1>1, <1>2, <1>3 DEF PoolInvariant, PoolTypes, Untouched
<1>9. ~Awaited(s)
  BY <1>3 DEF Awaited
<1>10. \A q \in Queries : expanded'[q] >= expanded[q]
  BY <1>2, ExpandedType DEF PoolInvariant
<1> QED
  BY <1>2, <1>4, <1>5, <1>6, <1>7, <1>8, <1>9, <1>10, OperationStep DEF InRound

LEMMA KeptSelectKernel ==
  ASSUME PoolInvariant, NEW s \in PoolSlots, SelectKernel(s) PROVE PoolInvariant'
<1> DEFINE asked(uncached) == {[place |-> p[1], index |-> p[2], row |-> RowOf(s, p[1], p[2])]
                                 : p \in uncached}
           active(selects) == {i \in Batch(s) : selects[i] # 0}
<1>1. /\ compute[s] = Selecting /\ compute' = [compute EXCEPT ![s] = Selected]
      /\ slot[s].phase = "select pending"
  BY Executes DEF SelectKernel, SelectStreams
<1>2. UNCHANGED <<host, cursor, next, slot, io, event>>
  BY DEF SelectKernel, hostVars
<1>3. PICK selects \in [Batch(s) -> 0 .. Width], uncached \in SUBSET (Batch(s) \X (1 .. Width)) :
        /\ \A i \in Batch(s) : selects[i] \in Counts(s, i)
        /\ requests' = [requests EXCEPT ![s] = Append2(s, SetToSeq(asked(uncached)))]
        /\ state' = [state EXCEPT ![s] =
             [i \in Places |->
                IF i \in Batch(s)
                THEN [active |-> selects[i] # 0, selected |-> selects[i]]
                ELSE state[s][i]]]
        /\ activeCount' = [activeCount EXCEPT ![s] = @ + Cardinality(active(selects))]
        /\ expanded' = [q \in Queries |->
             IF q - slot[s].offset \in Batch(s)
             THEN expanded[q] + selects[q - slot[s].offset] ELSE expanded[q]]
  BY DEF SelectKernel
<1>4. /\ compute'[s] = Selected /\ InRound(s)
      /\ slot[s].size \in Nat /\ slot[s].offset \in Nat /\ slot[s].rounds \in Nat
  BY <1>1, SlotTypes DEF PoolInvariant, PoolTypes
<1>5. requests[s].count = 0 /\ activeCount[s] = 0 /\ ActiveExpanded(s, slot[s].rounds)
  BY <1>1, <1>4 DEF InRound, RoundsBounded, BeforeSelect
<1>6. /\ DOMAIN requests = PoolSlots /\ DOMAIN activeCount = PoolSlots
      /\ DOMAIN state = PoolSlots /\ DOMAIN compute = PoolSlots
  BY DEF PoolInvariant, PoolTypes
<1>7. requests'[s].count \in 0 .. Capacity
  <2>1. Len(SetToSeq(asked(uncached))) \in 0 .. Capacity
    BY RequestsFit DEF PoolInvariant
  <2>2. requests'[s].count = 0 + Len(SetToSeq(asked(uncached)))
    BY <1>3, <1>5, <1>6 DEF Append2
  <2> QED
    BY <2>1, <2>2, CapacityType
<1>8. Cardinality(active(selects)) \in Nat /\ (Cardinality(active(selects)) # 0 => active(selects) # {})
  <2>1. IsFiniteSet(Batch(s))
    BY <1>4, BatchSizeIs
  <2>2. IsFiniteSet(active(selects))
    BY <2>1, FS_Subset
  <2> QED
    BY <2>2, FS_CardinalityType, FS_EmptySet
<1>9. \A q \in Queries : expanded'[q] \in Nat /\ expanded'[q] >= expanded[q]
  <2>1. SUFFICES ASSUME NEW q \in Queries PROVE expanded'[q] \in Nat /\ expanded'[q] >= expanded[q]
    OBVIOUS
  <2>2. expanded[q] \in Nat
    BY ExpandedType DEF PoolInvariant
  <2>3. CASE q - slot[s].offset \in Batch(s)
    <3>1. selects[q - slot[s].offset] \in Nat
      BY <2>3, PipelineAssumption
    <3> QED
      BY <1>3, <2>2, <2>3, <3>1
  <2>4. CASE q - slot[s].offset \notin Batch(s)
    BY <1>3, <2>2, <2>4
  <2> QED
    BY <2>3, <2>4
<1>10. ASSUME NEW i \in Batch(s), selects[i] # 0
       PROVE  expanded'[QueryAt(s, i)] >= slot[s].rounds + 1 /\ slot[s].rounds < MaxExpansions
  <2>1. QueryAt(s, i) \in Queries /\ i \in Nat
    BY BatchOfQueries DEF PoolInvariant
  <2>2. expanded[QueryAt(s, i)] \in Nat
    BY <2>1, ExpandedType DEF PoolInvariant
  <2>3. state[s][i].active /\ expanded[QueryAt(s, i)] < MaxExpansions
    BY <1>3, <1>10 DEF Counts
  <2>4. expanded[QueryAt(s, i)] >= slot[s].rounds
    BY <1>5, <2>3 DEF ActiveExpanded
  <2>5. QueryAt(s, i) - slot[s].offset = i
    BY <1>4, <2>1 DEF QueryAt
  <2>6. expanded'[QueryAt(s, i)] = expanded[QueryAt(s, i)] + selects[i]
    BY <1>3, <2>1, <2>5
  <2>7. selects[i] \in Nat \ {0}
    BY <1>10, PipelineAssumption
  <2> QED
    BY <1>4, <2>2, <2>3, <2>4, <2>6, <2>7, PipelineAssumption
<1>11. PoolTypes'
  <2>1. activeCount' \in [PoolSlots -> Nat]
    <3> DEFINE n == Cardinality(active(selects))
    <3>1. n \in Nat /\ activeCount' = [activeCount EXCEPT ![s] = @ + n]
      BY <1>3, <1>8
    <3>2. activeCount \in [PoolSlots -> Nat]
      BY DEF PoolInvariant, PoolTypes
    <3> HIDE DEF n
    <3> QED
      BY <3>1, <3>2
  <2>2. expanded' \in [Queries -> Nat]
    BY <1>3, <1>9
  <2>3. DOMAIN requests' = PoolSlots /\ \A u \in PoolSlots : requests'[u].count \in Nat
    <3>1. DOMAIN requests' = PoolSlots /\ \A u \in PoolSlots \ {s} : requests'[u] = requests[u]
      BY <1>3, <1>6
    <3>2. \A u \in PoolSlots : requests[u].count \in Nat
      BY DEF PoolInvariant, PoolTypes
    <3>3. requests'[s].count \in Nat
      BY <1>7, CapacityType
    <3> QED
      BY <3>1, <3>2, <3>3
  <2>4. DOMAIN state' = PoolSlots
    BY <1>3, <1>6
  <2> QED
    BY <1>1, <1>2, <2>1, <2>2, <2>3, <2>4 DEF PoolInvariant, PoolTypes, SelectStreams
<1>12. StreamInPhase(s)'
  BY <1>1, <1>2, <1>4, Streams DEF InRound, StreamInPhase, SelectStreams
<1>13. RoundsBounded(s)'
  <2>1. ActiveExpanded(s, slot[s].rounds + 1)'
    <3>1. SUFFICES ASSUME NEW i \in Batch(s), state'[s][i].active
                   PROVE  expanded'[QueryAt(s, i)] >= slot[s].rounds + 1
      BY <1>2 DEF ActiveExpanded, Batch, QueryAt
    <3>2. i \in Places
      BY BatchOfQueries DEF PoolInvariant
    <3>3. selects[i] # 0
      BY <1>3, <1>6, <3>1, <3>2
    <3> QED
      BY <1>10, <3>3
  <2>2. activeCount'[s] # 0 => slot[s].rounds < MaxExpansions
    <3>1. activeCount'[s] = Cardinality(active(selects))
      BY <1>3, <1>5, <1>6, <1>8
    <3> QED
      BY <1>8, <1>10, <3>1
  <2>3. requests'[s].count <= Capacity
    BY <1>7, CapacityType
  <2>4. ~BeforeSelect(s)' /\ ~Copied(s)' /\ Selected # Fresh /\ Selected # Selecting
    BY <1>1, <1>2, <1>4, Streams DEF BeforeSelect, Copied, SelectStreams, ResumeStreams
  <2>5. slot[s].rounds <= MaxExpansions
    BY <1>1, <1>4 DEF InRound, RoundsBounded
  <2> QED
    BY <1>2, <1>4, <2>1, <2>2, <2>3, <2>4, <2>5 DEF RoundsBounded
<1>14. /\ \A u \in PoolSlots \ {s} : Untouched(u)
       /\ \A u \in PoolSlots : slot'[u].phase = slot[u].phase /\ slot'[u].offset = slot[u].offset
                               /\ slot'[u].size = slot[u].size
  BY <1>1, <1>2, <1>3, <1>6 DEF Untouched
<1>15. ~Awaited(s)
  BY <1>1, Streams DEF Awaited, SelectStreams, ResumeStreams
<1> QED
  BY <1>2, <1>9, <1>11, <1>12, <1>13, <1>14, <1>15, OperationStep DEF InRound

-----------------------------------------------------------------------------
(* The steps of the host that enqueue.                                     *)
LEMMA ActivatesSlot ==
  ASSUME PoolInvariant, NEW s \in PoolSlots, ActivateSlot(s), compute[s] = <<>>
  PROVE  /\ next' \in 0 .. NumQueries
         /\ compute' = [compute EXCEPT ![s] = Fresh]
         /\ event' = [event EXCEPT ![s].select = "pending"]
         /\ \A u \in PoolSlots \ {s} : slot'[u] = slot[u]
         /\ DOMAIN slot' = PoolSlots
         /\ slot'[s].phase = "select pending" /\ slot'[s].rounds = 0
         /\ slot'[s].offset = next /\ slot'[s].size = BatchSize(next)
         /\ slot'[s] \in SlotStates
         /\ slot'[s].size <= MicrobatchQueries
         /\ slot'[s].offset + slot'[s].size <= NumQueries
<1> DEFINE phases == {"idle", "select pending", "round pending"}
           sizes == [requests : Nat, active : Nat]
           size == BatchSize(next)
           old == slot[s]
<1>1. DOMAIN slot = PoolSlots /\ DOMAIN compute = PoolSlots
  BY DEF PoolInvariant, PoolTypes
<1>2. next \in Nat /\ NumQueries \in Nat /\ next <= NumQueries
  <2>1. next \in 0 .. NumQueries
    BY DEF PoolInvariant, PoolTypes
  <2>2. NumQueries \in Nat
    BY PipelineAssumption
  <2> QED
    BY <2>1, <2>2
<1>3. size \in Nat /\ size <= MicrobatchQueries /\ next + size <= NumQueries
  BY <1>2, BatchFits
<1>5. slot'[s] = [old EXCEPT !.phase = "select pending", !.offset = next,
                             !.size = size, !.rounds = 0]
  BY <1>1 DEF ActivateSlot
<1>6. old \in [phase : phases, offset : Nat, size : Nat, rounds : Nat, counts : sizes]
  BY DEF PoolInvariant, PoolTypes, SlotStates
<1>7. next' \in 0 .. NumQueries
  <2>1. next' = next + size
    BY DEF ActivateSlot
  <2> HIDE DEF size
  <2> QED
    BY <1>2, <1>3, <2>1
<1>8. /\ slot'[s] \in [phase : phases, offset : Nat, size : Nat, rounds : Nat, counts : sizes]
      /\ slot'[s].phase = "select pending" /\ slot'[s].rounds = 0
      /\ slot'[s].offset = next /\ slot'[s].size = size
  <2> HIDE DEF size, sizes, old
  <2>1. old.counts \in sizes
    BY <1>6
  <2> DEFINE new == [phase |-> "select pending", offset |-> next, size |-> size,
                     rounds |-> 0, counts |-> old.counts]
  <2>2. slot'[s] = new
    BY <1>5, <1>6
  <2>3. new.phase = "select pending" /\ new.rounds = 0 /\ new.offset = next /\ new.size = size
    OBVIOUS
  <2>4. "select pending" \in phases /\ 0 \in Nat
    OBVIOUS
  <2> HIDE DEF phases
  <2>5. new \in [phase : phases, offset : Nat, size : Nat, rounds : Nat, counts : sizes]
    BY <1>2, <1>3, <2>1, <2>4
  <2> HIDE DEF new
  <2> QED
    BY <2>2, <2>3, <2>5
<1>9. compute' = [compute EXCEPT ![s] = Fresh]
  <2>1. compute' = [compute EXCEPT ![s] = compute[s] \o <<"init">> \o SelectOperations]
    BY DEF ActivateSlot
  <2> QED
    BY <2>1, Operations
<1>10. DOMAIN slot' = PoolSlots /\ \A u \in PoolSlots \ {s} : slot'[u] = slot[u]
  BY <1>1 DEF ActivateSlot
<1>11. event' = [event EXCEPT ![s].select = "pending"]
  BY DEF ActivateSlot
<1> QED
  BY <1>3, <1>7, <1>8, <1>9, <1>10, <1>11 DEF SlotStates

LEMMA SlotActivated ==
  ASSUME PoolInvariant, NEW s \in PoolSlots, ActivateSlot(s), compute[s] = <<>>,
         UNCHANGED <<io, buffers, results>>
  PROVE  /\ PoolTypes' /\ InRound(s)' /\ ~Awaited(s)
         /\ \A u \in PoolSlots \ {s} : Untouched(u)
         /\ \A q \in Queries : expanded'[q] >= expanded[q]
         /\ (\A u \in PoolSlots :
               slot[u].size <= MicrobatchQueries /\ slot[u].offset + slot[u].size <= NumQueries)'
<1>1. UNCHANGED <<io, requests, activeCount, state, expanded>>
  BY DEF buffers, results
<1>2. slot' \in [PoolSlots -> SlotStates]
  <2>1. slot \in [PoolSlots -> SlotStates]
    BY DEF PoolInvariant, PoolTypes
  <2>2. /\ slot'[s] \in SlotStates /\ DOMAIN slot' = PoolSlots
        /\ \A u \in PoolSlots \ {s} : slot'[u] = slot[u]
    BY ActivatesSlot
  <2>3. slot' = [u \in PoolSlots |-> slot'[u]]
    <3>1. slot' = [u \in DOMAIN slot |-> slot'[u]]
      BY DEF ActivateSlot
    <3> QED
      BY <2>1, <3>1
  <2>4. \A u \in PoolSlots : slot'[u] \in SlotStates
    BY <2>1, <2>2
  <2> QED
    BY <2>3, <2>4
<1>3. next' \in 0 .. NumQueries /\ compute' = [compute EXCEPT ![s] = Fresh]
      /\ event' = [event EXCEPT ![s].select = "pending"]
  BY ActivatesSlot
<1>4. PoolTypes'
  BY <1>1, <1>2, <1>3 DEF PoolInvariant, PoolTypes, SelectStreams, EventStates
<1>5. /\ compute'[s] = Fresh /\ event'[s].select = "pending"
      /\ slot'[s].phase = "select pending" /\ slot'[s].rounds = 0
  <2>1. compute'[s] = Fresh /\ event'[s].select = "pending"
    BY <1>3 DEF PoolInvariant, PoolTypes
  <2> QED
    BY <2>1, ActivatesSlot
<1>6. InRound(s)'
  <2>1. StreamInPhase(s)'
    BY <1>5, Streams DEF StreamInPhase, SelectStreams
  <2>2. ~BeforeSelect(s)' /\ ~AfterSelect(s)' /\ ~Copied(s)' /\ Fresh # Selecting
    BY <1>5, Streams DEF BeforeSelect, AfterSelect, Copied, SelectStreams, ResumeStreams
  <2>3. RoundsBounded(s)'
    <3>1. 0 <= MaxExpansions
      BY PipelineAssumption
    <3> QED
      BY <1>5, <2>2, <3>1 DEF RoundsBounded
  <2> QED
    BY <2>1, <2>3 DEF InRound
<1>7. ~Awaited(s)
  BY Streams DEF Awaited, ResumeStreams
<1>8. \A u \in PoolSlots \ {s} : Untouched(u)
  <2>1. DOMAIN compute = PoolSlots /\ DOMAIN event = PoolSlots
    BY DEF PoolInvariant, PoolTypes
  <2>2. \A u \in PoolSlots \ {s} : slot'[u] = slot[u]
    BY ActivatesSlot
  <2> QED
    BY <1>1, <1>3, <2>1, <2>2 DEF Untouched
<1>9. \A q \in Queries : expanded'[q] >= expanded[q]
  BY <1>1, ExpandedType DEF PoolInvariant
<1>10. ASSUME NEW u \in PoolSlots
       PROVE  slot'[u].size <= MicrobatchQueries /\ slot'[u].offset + slot'[u].size <= NumQueries
  <2>1. CASE u = s
    BY <2>1, ActivatesSlot
  <2>2. CASE u # s
    BY <2>2, ActivatesSlot DEF PoolInvariant, SlotsInOrder
  <2> QED
    BY <2>1, <2>2
<1> QED
  BY <1>4, <1>6, <1>7, <1>8, <1>9, <1>10

LEMMA KeptStartSlot ==
  ASSUME PoolInvariant, StartSlot PROVE PoolInvariant'
<1>1. cursor \in PoolSlots /\ slot[cursor].phase = "idle" /\ SlotsInOrder
  BY DEF StartSlot, PoolInvariant, SlotsInOrder, PoolSlots
<1>2. compute[cursor] = <<>>
  BY <1>1 DEF PoolInvariant, InRound, StreamInPhase
<1>3. ActivateSlot(cursor) /\ UNCHANGED <<io, buffers, results>>
  BY DEF StartSlot
<1>4. \A u \in PoolSlots \ {cursor} : slot'[u] = slot[u]
  BY <1>1, <1>2, <1>3, ActivatesSlot
<1>5. host' = "starting" =>
        cursor' \in PoolSlots /\ \A u \in PoolSlots : u >= cursor' => slot'[u].phase = "idle"
  <2>1. SUFFICES ASSUME host' = "starting"
                 PROVE  cursor' \in PoolSlots /\ \A u \in PoolSlots : u >= cursor' => slot'[u].phase = "idle"
    OBVIOUS
  <2>2. cursor # SlotCount /\ cursor' = (cursor % SlotCount) + 1
    BY <2>1 DEF StartSlot
  <2>3. cursor' = cursor + 1 /\ cursor' \in PoolSlots
    BY <1>1, <2>2, SlotExists DEF PoolSlots
  <2>4. \A u \in PoolSlots : u >= cursor' => u # cursor /\ u >= cursor
    BY <1>1, <2>3, SlotExists DEF PoolSlots
  <2> QED
    BY <1>1, <1>4, <2>3, <2>4 DEF SlotsInOrder, StartSlot
<1>6. SlotsInOrder'
  BY <1>1, <1>2, <1>3, <1>5, SlotActivated DEF SlotsInOrder
<1>7. NeverThrows'
  BY DEF StartSlot, NeverThrows
<1> QED
  BY <1>1, <1>2, <1>3, <1>6, <1>7, SlotActivated, SlotStep

LEMMA KeptEndRound ==
  ASSUME PoolInvariant, NEW s \in PoolSlots, EndRound(s) PROVE PoolInvariant'
<1>1. /\ slot[s].phase = "round pending" /\ event[s].round # "pending" /\ host = "polling"
      /\ UNCHANGED <<io, buffers, results>>
  BY DEF EndRound, Polls
<1>2. compute[s] = <<>> /\ InRound(s)
  BY <1>1 DEF PoolInvariant, InRound, StreamInPhase
<1>3. /\ slot[s].rounds <= MaxExpansions /\ ActiveExpanded(s, slot[s].rounds + 1)
      /\ slot[s].counts.active # 0 => slot[s].rounds < MaxExpansions
      /\ slot[s].counts.requests <= Capacity
  BY <1>1, <1>2 DEF InRound, RoundsBounded, AfterSelect, Copied
<1>4. slot[s].rounds \in Nat /\ slot[s].counts.requests \in Nat /\ slot[s].counts.active \in Nat
  BY SlotTypes DEF PoolInvariant
<1>5. ~Throws(s)
  BY <1>3, <1>4, CapacityType, PipelineAssumption DEF Throws, RoundGuard
<1>6. host' = "polling" /\ NeverThrows'
  BY <1>1, <1>5 DEF EndRound, NeverThrows
<1>7. ~Awaited(s)
  BY <1>2, Streams DEF Awaited, ResumeStreams
<1>8. DOMAIN compute = PoolSlots /\ DOMAIN event = PoolSlots
  BY DEF PoolInvariant, PoolTypes
<1>9. CASE /\ slot[s].counts.active # 0
           /\ compute' = [compute EXCEPT ![s] = @ \o SelectOperations]
           /\ event' = [event EXCEPT ![s].select = "pending"]
           /\ slot' = [slot EXCEPT ![s].phase = "select pending",
                                   ![s].rounds = slot[s].rounds + 1]
           /\ next' = next
  <2>1. compute' = [compute EXCEPT ![s] = Clearing]
    BY <1>2, <1>9, Operations
  <2>2. /\ UNCHANGED <<io, next, requests, activeCount, state, expanded>>
        /\ event' = [event EXCEPT ![s].select = "pending"]
    BY <1>1, <1>9 DEF buffers, results
  <2>3. /\ slot' \in [PoolSlots -> SlotStates]
        /\ slot'[s].phase = "select pending" /\ slot'[s].rounds = slot[s].rounds + 1
        /\ slot'[s].offset = slot[s].offset /\ slot'[s].size = slot[s].size
        /\ \A u \in PoolSlots \ {s} : slot'[u] = slot[u]
    <3>1. slot[s].rounds + 1 \in Nat
      BY <1>4
    <3>2. slot' = [slot EXCEPT ![s] = [@ EXCEPT !.phase = "select pending",
                                                !.rounds = slot[s].rounds + 1]]
      BY <1>9 DEF PoolInvariant, PoolTypes
    <3>3. PoolTypes
      BY DEF PoolInvariant
    <3> QED
      BY <3>1, <3>2, <3>3, SlotMoves
  <2>4. PoolTypes'
    BY <2>1, <2>2, <2>3 DEF PoolInvariant, PoolTypes, SelectStreams, EventStates
  <2>5. compute'[s] = Clearing /\ event'[s].select = "pending"
    BY <2>1, <2>2 DEF PoolInvariant, PoolTypes
  <2>6. StreamInPhase(s)'
    BY <2>3, <2>5, Streams DEF StreamInPhase, SelectStreams
  <2>7. ActiveExpanded(s, slot[s].rounds)'
    <3>1. SUFFICES ASSUME NEW i \in Batch(s), state[s][i].active
                   PROVE  expanded[QueryAt(s, i)] >= slot[s].rounds + 1
      BY <2>2, <2>3 DEF ActiveExpanded, Batch, QueryAt
    <3> QED
      BY <1>3, <3>1 DEF ActiveExpanded
  <2>8. ~AfterSelect(s)' /\ ~Copied(s)' /\ Clearing \notin {Fresh, Selecting}
    BY <2>3, <2>5, Streams DEF AfterSelect, Copied, SelectStreams, ResumeStreams
  <2>9. slot'[s].rounds <= MaxExpansions
    <3>1. slot[s].rounds < MaxExpansions /\ MaxExpansions \in Nat
      BY <1>3, <1>9, PipelineAssumption
    <3>2. slot'[s].rounds = slot[s].rounds + 1 /\ slot[s].rounds \in Nat
      BY <1>4, <2>3
    <3> QED
      BY <3>1, <3>2
  <2>10. RoundsBounded(s)'
    BY <2>5, <2>7, <2>8, <2>9 DEF RoundsBounded
  <2>11. \A u \in PoolSlots \ {s} : Untouched(u)
    BY <1>8, <2>1, <2>2, <2>3 DEF Untouched
  <2>12. SlotsInOrder'
    BY <1>6, <2>3 DEF PoolInvariant, SlotsInOrder
  <2>13. \A q \in Queries : expanded'[q] >= expanded[q]
    BY <2>2, ExpandedType DEF PoolInvariant
  <2> QED
    BY <1>6, <1>7, <2>2, <2>4, <2>6, <2>10, <2>11, <2>12, <2>13, SlotStep DEF InRound
<1>10. CASE ActivateSlot(s)
  <2>1. SlotsInOrder'
    BY <1>1, <1>2, <1>6, <1>10, SlotActivated DEF SlotsInOrder
  <2> QED
    BY <1>1, <1>2, <1>6, <1>10, <2>1, SlotActivated, SlotStep
<1>11. CASE /\ slot' = [slot EXCEPT ![s].phase = "idle", ![s].rounds = slot[s].rounds + 1]
            /\ UNCHANGED <<next, compute, event>>
  <2>1. UNCHANGED <<io, next, compute, event, requests, activeCount, state, expanded>>
    BY <1>1, <1>11 DEF buffers, results
  <2>2. /\ slot' \in [PoolSlots -> SlotStates] /\ slot'[s].phase = "idle"
        /\ slot'[s].offset = slot[s].offset /\ slot'[s].size = slot[s].size
        /\ \A u \in PoolSlots \ {s} : slot'[u] = slot[u]
    <3>1. slot[s].rounds + 1 \in Nat
      BY <1>4
    <3>2. slot' = [slot EXCEPT ![s] = [@ EXCEPT !.phase = "idle",
                                                !.rounds = slot[s].rounds + 1]]
      BY <1>11 DEF PoolInvariant, PoolTypes
    <3>3. PoolTypes
      BY DEF PoolInvariant
    <3> QED
      BY <3>1, <3>2, <3>3, SlotMoves
  <2>3. PoolTypes'
    BY <2>1, <2>2 DEF PoolInvariant, PoolTypes
  <2>4. StreamInPhase(s)' /\ RoundsBounded(s)'
    BY <1>2, <2>1, <2>2, Streams
    DEF StreamInPhase, RoundsBounded, BeforeSelect, AfterSelect, Copied, SelectStreams
  <2>5. \A u \in PoolSlots \ {s} : Untouched(u)
    BY <2>1, <2>2 DEF Untouched
  <2>6. SlotsInOrder'
    BY <1>6, <2>2 DEF PoolInvariant, SlotsInOrder
  <2>7. \A q \in Queries : expanded'[q] >= expanded[q]
    BY <2>1, ExpandedType DEF PoolInvariant
  <2> QED
    BY <1>6, <1>7, <2>1, <2>3, <2>4, <2>5, <2>6, <2>7, SlotStep DEF InRound
<1> QED
  BY <1>5, <1>9, <1>10, <1>11 DEF EndRound

LEMMA KeptIssueRound ==
  ASSUME PoolInvariant, NEW s \in PoolSlots, IssueRound(s) PROVE PoolInvariant'
<1>1. /\ slot[s].phase = "select pending" /\ event[s].select # "pending"
      /\ host = "polling" /\ host' = host
  BY DEF IssueRound, Polls
<1>2. compute[s] = <<>> /\ InRound(s)
  BY <1>1 DEF PoolInvariant, InRound, StreamInPhase
<1>3. UNCHANGED <<next, requests, activeCount, state, expanded>>
  BY DEF IssueRound, buffers, results
<1>4. compute' = [compute EXCEPT ![s] = Waiting]
  BY <1>2, Operations DEF IssueRound
<1>5. /\ event' = [event EXCEPT ![s] = [@ EXCEPT !.read = "pending", !.round = "pending"]]
      /\ event \in [PoolSlots -> [select : EventStates, read : EventStates, round : EventStates]]
  BY DEF IssueRound, PoolInvariant, PoolTypes
<1>6. /\ slot' \in [PoolSlots -> SlotStates]
      /\ slot'[s].phase = "round pending" /\ slot'[s].rounds = slot[s].rounds
      /\ slot'[s].offset = slot[s].offset /\ slot'[s].size = slot[s].size
      /\ slot'[s].counts = slot[s].counts
      /\ \A u \in PoolSlots \ {s} : slot'[u] = slot[u]
  <2>1. slot[s] \in SlotStates /\ slot \in [PoolSlots -> SlotStates]
    BY DEF PoolInvariant, PoolTypes
  <2>2. [slot[s] EXCEPT !.phase = "round pending"]
          = [slot[s] EXCEPT !.phase = "round pending", !.rounds = slot[s].rounds]
    BY <2>1 DEF SlotStates
  <2>3. slot' = [slot EXCEPT ![s] = [slot[s] EXCEPT !.phase = "round pending"]]
    BY DEF IssueRound
  <2>4. slot[s].rounds \in Nat
    BY SlotTypes DEF PoolInvariant
  <2> QED
    BY <2>2, <2>3, <2>4, SlotMoves DEF PoolInvariant
<1>7. /\ compute'[s] = Waiting /\ event'[s].read = "pending" /\ event'[s].round = "pending"
      /\ event' \in [PoolSlots -> [select : EventStates, read : EventStates, round : EventStates]]
      /\ \A u \in PoolSlots \ {s} : compute'[u] = compute[u] /\ event'[u] = event[u]
  <2>1. compute'[s] = Waiting /\ \A u \in PoolSlots \ {s} : compute'[u] = compute[u]
    BY <1>4 DEF PoolInvariant, PoolTypes
  <2>2. /\ event'[s].read = "pending" /\ event'[s].round = "pending"
        /\ event' \in [PoolSlots -> [select : EventStates, read : EventStates, round : EventStates]]
        /\ \A u \in PoolSlots \ {s} : event'[u] = event[u]
    BY <1>5 DEF EventStates
  <2> QED
    BY <2>1, <2>2
<1>8. \A n \in DOMAIN io : io[n].slot \in PoolSlots \ {s}
  <2>1. \A n \in DOMAIN io : io[n].slot \in PoolSlots
    BY ReadTypes DEF PoolInvariant
  <2>2. ~Awaited(s)
    BY <1>1 DEF Awaited
  <2> QED
    BY <2>1, <2>2 DEF PoolInvariant, ReadsAwaited
<1>9. /\ io' \in Seq([kind : {"read", "io end"}, slot : PoolSlots])
      /\ \A n \in DOMAIN io' : (n \in DOMAIN io /\ io'[n] = io[n]) \/ io'[n].slot = s
      /\ \A m, n \in DOMAIN io' :
           io'[m].slot = io'[n].slot /\ io'[m].kind = "io end" => n <= m
  <2> DEFINE Operation == [kind : {"read", "io end"}, slot : PoolSlots]
             read == [kind |-> "read", slot |-> s]
             end  == [kind |-> "io end", slot |-> s]
  <2>1. /\ io \in Seq(Operation) /\ read \in Operation /\ end \in Operation
        /\ read.slot = s /\ end.slot = s /\ read.kind = "read"
    BY DEF PoolInvariant, PoolTypes
  <2>2. io' = io \o <<read, end>>
    BY DEF IssueRound, ReadOperations
  <2>3. \A m, n \in DOMAIN io : io[m].slot = io[n].slot /\ io[m].kind = "io end" => n <= m
    BY DEF PoolInvariant, ReadsAwaited
  <2> HIDE DEF Operation, read, end
  <2>4. /\ io' \in Seq(Operation)
        /\ DOMAIN io = 1 .. Len(io) /\ Len(io) \in Nat /\ DOMAIN io' = 1 .. Len(io) + 2
        /\ \A n \in 1 .. Len(io) : io'[n] = io[n]
        /\ io'[Len(io) + 1] = read /\ io'[Len(io) + 2] = end
    <3> DEFINE new == <<read, end>>
    <3>1. new \in Seq(Operation) /\ Len(new) = 2 /\ new[1] = read /\ new[2] = end
      BY <2>1
    <3> HIDE DEF new
    <3>2. /\ io' \in Seq(Operation) /\ Len(io') = Len(io) + Len(new)
          /\ \A i \in 1 .. Len(io) + Len(new) :
               io'[i] = IF i <= Len(io) THEN io[i] ELSE new[i - Len(io)]
      BY <2>1, <2>2, <3>1, ConcatProperties DEF new
    <3>3. DOMAIN io = 1 .. Len(io) /\ Len(io) \in Nat /\ DOMAIN io' = 1 .. Len(io')
      BY <2>1, <3>2, LenProperties
    <3> QED
      BY <3>1, <3>2, <3>3
  <2>5. ASSUME NEW n \in DOMAIN io'
        PROVE  \/ n \in DOMAIN io /\ io'[n] = io[n]
               \/ n = Len(io) + 1 /\ io'[n].slot = s /\ io'[n].kind = "read"
               \/ n = Len(io) + 2 /\ io'[n].slot = s
    BY <2>1, <2>4
  <2>6. ASSUME NEW m \in DOMAIN io', NEW n \in DOMAIN io',
               io'[m].slot = io'[n].slot, io'[m].kind = "io end"
        PROVE  n <= m
    <3>1. m \in 1 .. Len(io) + 2 /\ n \in 1 .. Len(io) + 2 /\ Len(io) \in Nat
      BY <2>4
    <3>2. CASE m \in DOMAIN io /\ io'[m] = io[m]
      BY <1>8, <2>3, <2>5, <2>6, <3>2
    <3>3. CASE m = Len(io) + 2
      BY <3>1, <3>3
    <3> QED
      BY <2>5, <2>6, <3>2, <3>3
  <2> QED
    BY <2>4, <2>5, <2>6 DEF Operation
<1>10. PoolTypes'
  BY <1>3, <1>4, <1>6, <1>7, <1>9 DEF PoolInvariant, PoolTypes, ResumeStreams
<1>11. ReadsAwaited'
  <2>1. Awaited(s)'
    BY <1>6, <1>7 DEF Awaited
  <2>2. \A u \in PoolSlots \ {s} : Awaited(u) => Awaited(u)'
    BY <1>6, <1>7 DEF Awaited
  <2> QED
    BY <1>8, <1>9, <2>1, <2>2 DEF PoolInvariant, ReadsAwaited
<1>12. StreamInPhase(s)'
  BY <1>6, <1>7, Streams DEF StreamInPhase, ResumeStreams
<1>13. RoundsBounded(s)'
  <2>1. /\ ActiveExpanded(s, slot[s].rounds + 1) /\ slot[s].rounds <= MaxExpansions
        /\ activeCount[s] # 0 => slot[s].rounds < MaxExpansions
        /\ requests[s].count <= Capacity
    BY <1>1, <1>2 DEF InRound, RoundsBounded, AfterSelect
  <2>2. ActiveExpanded(s, slot[s].rounds + 1)'
    BY <1>3, <1>6, <2>1 DEF ActiveExpanded, Batch, QueryAt
  <2>3. ~BeforeSelect(s)' /\ ~Copied(s)' /\ Waiting \notin {Fresh, Selecting}
    BY <1>7, Streams DEF BeforeSelect, Copied, SelectStreams, ResumeStreams
  <2> QED
    BY <1>3, <1>6, <1>7, <2>1, <2>2, <2>3 DEF RoundsBounded
<1>14. \A u \in PoolSlots \ {s} : InRound(u)'
  <2>1. \A u \in PoolSlots \ {s} : Untouched(u)
    BY <1>3, <1>6, <1>7 DEF Untouched
  <2>2. \A q \in Queries : expanded'[q] >= expanded[q]
    BY <1>3, ExpandedType DEF PoolInvariant
  <2> QED
    BY <1>10, <2>1, <2>2, OthersKept
<1>15. SlotsInOrder' /\ NeverThrows'
  BY <1>1, <1>6 DEF PoolInvariant, SlotsInOrder, NeverThrows
<1> QED
  BY <1>10, <1>11, <1>12, <1>13, <1>14, <1>15 DEF PoolInvariant, InRound

-----------------------------------------------------------------------------
(* The shared I/O stream.                                                  *)
LEMMA HeadOver ==
  ASSUME PoolTypes, io # <<>>, io' = Tail(io)
  PROVE  /\ io' \in Seq([kind : {"read", "io end"}, slot : PoolSlots])
         /\ 1 \in DOMAIN io /\ Head(io) = io[1]
         /\ \A n \in DOMAIN io' : n \in Nat \ {0} /\ n + 1 \in DOMAIN io /\ io'[n] = io[n + 1]
<1> DEFINE Operation == [kind : {"read", "io end"}, slot : PoolSlots]
<1>1. io \in Seq(Operation)
  BY DEF PoolTypes
<1> HIDE DEF Operation
<1>2. /\ io' \in Seq(Operation) /\ Len(io') = Len(io) - 1 /\ Len(io) \in Nat \ {0}
      /\ DOMAIN io' = 1 .. Len(io') /\ DOMAIN io = 1 .. Len(io)
      /\ \A n \in 1 .. Len(io) - 1 : io'[n] = io[n + 1]
  BY <1>1, HeadTailProperties, EmptySeq, LenProperties
<1>3. Head(io) = io[1]
  BY <1>1
<1>4. \A n \in DOMAIN io' : n \in Nat \ {0} /\ n + 1 \in DOMAIN io /\ io'[n] = io[n + 1]
  BY <1>2
<1>5. 1 \in DOMAIN io
  BY <1>2
<1>6. io' \in Seq([kind : {"read", "io end"}, slot : PoolSlots])
  BY <1>2 DEF Operation
<1> QED
  BY <1>3, <1>4, <1>5, <1>6

LEMMA KeptEndRead ==
  ASSUME PoolInvariant, EndRead PROVE PoolInvariant'
<1>1. UNCHANGED <<hostVars, compute, event, requests, activeCount, state, expanded>>
  BY DEF EndRead, results
<1>2. io # <<>> /\ io' = Tail(io)
  BY DEF EndRead, Reading
<1>3. /\ io' \in Seq([kind : {"read", "io end"}, slot : PoolSlots])
      /\ \A n \in DOMAIN io' : n \in Nat \ {0} /\ n + 1 \in DOMAIN io /\ io'[n] = io[n + 1]
  BY <1>2, HeadOver DEF PoolInvariant
<1>4. PoolTypes' /\ SlotsInOrder' /\ NeverThrows'
  BY <1>1, <1>3 DEF PoolInvariant, PoolTypes, SlotsInOrder, NeverThrows, hostVars
<1>5. \A u \in PoolSlots : InRound(u)'
  BY <1>1 DEF PoolInvariant, InRound, StreamInPhase, RoundsBounded, BeforeSelect, AfterSelect,
              Copied, ActiveExpanded, Batch, QueryAt, hostVars
<1>6. ReadsAwaited'
  <2>1. /\ \A n \in DOMAIN io : Awaited(io[n].slot)
        /\ \A m, n \in DOMAIN io : io[m].slot = io[n].slot /\ io[m].kind = "io end" => n <= m
    BY DEF PoolInvariant, ReadsAwaited
  <2>2. \A n \in DOMAIN io' : n \in Nat \ {0} /\ n + 1 \in DOMAIN io /\ io'[n] = io[n + 1]
    BY <1>3
  <2>3. ASSUME NEW m \in DOMAIN io', NEW n \in DOMAIN io',
               io'[m].slot = io'[n].slot, io'[m].kind = "io end"
        PROVE  n <= m
    <3>1. m \in Nat /\ n \in Nat
      BY <2>2
    <3>2. n + 1 <= m + 1
      BY <2>1, <2>2, <2>3
    <3> QED
      BY <3>1, <3>2
  <2>4. ASSUME NEW n \in DOMAIN io', NEW u, u = io'[n].slot PROVE Awaited(u)'
    <3>1. Awaited(u)
      BY <2>1, <2>2, <2>4
    <3> QED
      BY <1>1, <3>1 DEF Awaited, hostVars
  <2> QED
    BY <2>3, <2>4 DEF ReadsAwaited
<1> QED
  BY <1>4, <1>5, <1>6 DEF PoolInvariant

LEMMA KeptSignalRead ==
  ASSUME PoolInvariant, SignalRead PROVE PoolInvariant'
<1> DEFINE s == Head(io).slot
<1>1. UNCHANGED <<hostVars, compute, requests, activeCount, state, expanded>>
  BY DEF SignalRead, buffers, results
<1>2. io # <<>> /\ io' = Tail(io) /\ Head(io).kind = "io end"
  BY DEF SignalRead, Reading
<1>3. /\ io' \in Seq([kind : {"read", "io end"}, slot : PoolSlots])
      /\ 1 \in DOMAIN io /\ Head(io) = io[1]
      /\ \A n \in DOMAIN io' : n \in Nat \ {0} /\ n + 1 \in DOMAIN io /\ io'[n] = io[n + 1]
  BY <1>2, HeadOver DEF PoolInvariant
<1>4. s \in PoolSlots
  BY <1>3, ReadTypes DEF PoolInvariant
<1>5. /\ event' \in [PoolSlots -> [select : EventStates, read : EventStates, round : EventStates]]
      /\ event'[s].select = event[s].select /\ event'[s].round = event[s].round
      /\ \A u \in PoolSlots \ {s} : event'[u] = event[u]
  <2>1. event \in [PoolSlots -> [select : EventStates, read : EventStates, round : EventStates]]
    BY DEF PoolInvariant, PoolTypes
  <2>2. event' = [event EXCEPT ![s].read = "complete"]
    BY DEF SignalRead
  <2> HIDE DEF s
  <2> QED
    BY <1>4, <2>1, <2>2 DEF EventStates
<1>6. PoolTypes' /\ SlotsInOrder' /\ NeverThrows'
  BY <1>1, <1>3, <1>5 DEF PoolInvariant, PoolTypes, SlotsInOrder, NeverThrows, hostVars
<1>7. ASSUME NEW u \in PoolSlots PROVE InRound(u)'
  <2>1. event'[u].select = event[u].select /\ event'[u].round = event[u].round
    BY <1>5
  <2> QED
    BY <1>1, <2>1
    DEF PoolInvariant, InRound, StreamInPhase, RoundsBounded, BeforeSelect, AfterSelect,
        Copied, ActiveExpanded, Batch, QueryAt, hostVars
<1>8. ReadsAwaited'
  <2>1. /\ \A n \in DOMAIN io : Awaited(io[n].slot)
        /\ \A m, n \in DOMAIN io : io[m].slot = io[n].slot /\ io[m].kind = "io end" => n <= m
    BY DEF PoolInvariant, ReadsAwaited
  <2>2. \A n \in DOMAIN io' : n \in Nat \ {0} /\ n + 1 \in DOMAIN io /\ io'[n] = io[n + 1]
    BY <1>3
  <2>3. ASSUME NEW m \in DOMAIN io', NEW n \in DOMAIN io',
               io'[m].slot = io'[n].slot, io'[m].kind = "io end"
        PROVE  n <= m
    <3>1. m \in Nat /\ n \in Nat
      BY <2>2
    <3>2. n + 1 <= m + 1
      BY <2>1, <2>2, <2>3
    <3> QED
      BY <3>1, <3>2
  <2>4. ASSUME NEW n \in DOMAIN io', NEW u, u = io'[n].slot PROVE Awaited(u)'
    <3>1. n \in Nat \ {0}
      BY <2>2
    <3>2. io[n + 1].slot # s
      <4>1. n + 1 \in DOMAIN io /\ 1 \in DOMAIN io /\ io[1].kind = "io end" /\ s = io[1].slot
        BY <1>2, <1>3, <2>2
      <4>2. ~(n + 1 <= 1)
        BY <3>1
      <4> QED
        BY <2>1, <4>1, <4>2
    <3>3. io[n + 1].slot \in PoolSlots \ {s} /\ Awaited(io[n + 1].slot)
      BY <2>1, <2>2, <3>2, ReadTypes DEF PoolInvariant
    <3>4. \A v \in PoolSlots \ {s} : Awaited(v) => Awaited(v)'
      BY <1>1, <1>5 DEF Awaited, hostVars
    <3> QED
      BY <2>2, <2>4, <3>3, <3>4
  <2> QED
    BY <2>3, <2>4 DEF ReadsAwaited
<1> QED
  BY <1>6, <1>7, <1>8 DEF PoolInvariant

(* The other steps leave what the invariant is about as it is.             *)
LEMMA KeptUnchanged ==
  ASSUME PoolInvariant, host' \in {"polling", "done"} \/ host' = host,
         cursor' = cursor \/ host' # "starting",
         UNCHANGED <<next, slot, compute, io, event, requests, activeCount, state, expanded>>
  PROVE  PoolInvariant'
<1>1. PoolTypes' /\ SlotsInOrder' /\ NeverThrows'
  BY DEF PoolInvariant, PoolTypes, SlotsInOrder, NeverThrows
<1>2. \A u \in PoolSlots : InRound(u)'
  BY DEF PoolInvariant, InRound, StreamInPhase, RoundsBounded, BeforeSelect, AfterSelect,
         Copied, ActiveExpanded, Batch, QueryAt
<1>3. ReadsAwaited'
  BY DEF PoolInvariant, ReadsAwaited, Awaited
<1> QED
  BY <1>1, <1>2, <1>3 DEF PoolInvariant

LEMMA InitialPool == Init => PoolInvariant
<1> SUFFICES ASSUME Init PROVE PoolInvariant
  OBVIOUS
<1>1. /\ 1 \in PoolSlots
      /\ NumQueries \in Nat /\ MicrobatchQueries \in Nat /\ MaxExpansions \in Nat
  BY SlotExists, PipelineAssumption DEF PoolSlots
<1>2. \A s \in PoolSlots :
        /\ slot[s] = [phase |-> "idle", offset |-> 0, size |-> 0, rounds |-> 0,
                      counts |-> [requests |-> 0, active |-> 0]]
        /\ compute[s] = <<>>
  BY DEF Init
<1>3. PoolTypes
  <2>1. slot \in [PoolSlots -> SlotStates]
    BY DEF Init, SlotStates
  <2> QED
    BY <1>1, <2>1 DEF Init, PoolTypes, EventStates
<1>4. SlotsInOrder /\ NeverThrows
  BY <1>1, <1>2 DEF Init, SlotsInOrder, NeverThrows
<1>5. ASSUME NEW s \in PoolSlots PROVE InRound(s)
  <2>1. slot[s].phase = "idle" /\ compute[s] = <<>>
    BY <1>2
  <2>2. StreamInPhase(s)
    BY <2>1 DEF StreamInPhase
  <2>3. <<>> \notin {Fresh, Clearing, Selecting}
    BY Streams DEF SelectStreams
  <2>4. RoundsBounded(s)
    BY <2>1, <2>3 DEF RoundsBounded, BeforeSelect, AfterSelect, Copied
  <2> QED
    BY <2>2, <2>4 DEF InRound
<1>6. ReadsAwaited
  BY DEF Init, ReadsAwaited
<1> QED
  BY <1>3, <1>4, <1>5, <1>6 DEF PoolInvariant

LEMMA PoolStep == PoolInvariant /\ [Next]_vars => PoolInvariant'
<1> SUFFICES ASSUME PoolInvariant, [Next]_vars PROVE PoolInvariant'
  OBVIOUS
<1>1. CASE StartSlot
  BY <1>1, KeptStartSlot
<1>2. ASSUME NEW s \in PoolSlots, PassSlot(s) PROVE PoolInvariant'
  BY <1>2, KeptUnchanged DEF PassSlot, Polls, streams, buffers, results
<1>3. ASSUME NEW s \in PoolSlots, IssueRound(s) PROVE PoolInvariant'
  BY <1>3, KeptIssueRound
<1>4. ASSUME NEW s \in PoolSlots, EndRound(s) PROVE PoolInvariant'
  BY <1>4, KeptEndRound
<1>5. CASE Synchronize
  BY <1>5, KeptUnchanged DEF Synchronize, streams, buffers, results
<1>6. ASSUME NEW s \in PoolSlots, StreamStep(s) PROVE PoolInvariant'
  BY <1>6, KeptInitKernel, KeptClearCounts, KeptSelectKernel, KeptSignalSelect,
     KeptWaitForRead, KeptResumeKernel, KeptCopyCounts, KeptSignalRound DEF StreamStep
<1>7. CASE ReadRow
  BY <1>7, KeptUnchanged DEF ReadRow, hostVars, streams, results
<1>8. CASE EndRead
  BY <1>8, KeptEndRead
<1>9. CASE SignalRead
  BY <1>9, KeptSignalRead
<1>10. CASE UNCHANGED vars
  BY <1>10, KeptUnchanged DEF vars, hostVars, streams, buffers, results
<1> QED
  BY <1>1, <1>2, <1>3, <1>4, <1>5, <1>6, <1>7, <1>8, <1>9, <1>10 DEF Next, HostStep, IoStep

-----------------------------------------------------------------------------
(* Where a slot is in its round, and what the host, its own stream and the *)
(* I/O stream may therefore do with it: PoolInvariant is inductive.        *)
THEOREM PoolInvariantHolds == Spec => []PoolInvariant
<1> QED
  BY InitialPool, PoolStep, PTL DEF Spec

(* The run-time checks of the host loop never fire (the throws after the   *)
(* copy of the counts and on the number of rounds): a round never asks for *)
(* more rows than the buffer holds, and rounds end within the budget.      *)
THEOREM HostChecksNeverFire == Spec => []NeverThrows
<1>1. PoolInvariant => NeverThrows
  BY DEF PoolInvariant
<1> QED
  BY <1>1, PoolInvariantHolds, PTL

(* While a read of a slot is enqueued or running, no kernel that rewrites  *)
(* the slot's requests, query states or rows is next in its stream.        *)
THEOREM RowsUsedByOneRound == Spec => []BuffersExclusive
<1>1. PoolInvariant => BuffersExclusive
  <2>1. SUFFICES ASSUME PoolInvariant, NEW s \in PoolSlots, NEW n \in DOMAIN io,
                        io[n] = [kind |-> "read", slot |-> s],
                        NEW operation \in {"init", "clear", "select", "resume"}
                 PROVE  ~AtHead(s, operation)
    BY DEF BuffersExclusive
  <2>2. Awaited(s)
    <3>1. io[n].slot = s
      BY <2>1
    <3> QED
      BY <2>1, <3>1 DEF PoolInvariant, ReadsAwaited
  <2>3. Head(compute[s]) = "wait"
    BY <2>2, Operations DEF Awaited
  <2> QED
    BY <2>3 DEF AtHead
<1> QED
  BY <1>1, PoolInvariantHolds, PTL
-----------------------------------------------------------------------------
(* A query is in the batch of at most one slot; where it is in its rounds  *)
(* is told by that slot's stream and the query's state.                    *)
Owns(s, q) == q - slot[s].offset \in Batch(s)

ActiveAt(s, q)   == state[s][q - slot[s].offset].active
SelectedAt(s, q) == state[s][q - slot[s].offset].selected

(* A stream between a selection and its merge, and one between the merge   *)
(* and the next selection.                                                 *)
Merging(s) ==
  \/ compute[s] \in {Selected, Waiting, Resuming}
  \/ compute[s] = <<>> /\ slot[s].phase = "select pending"

Merged(s) ==
  \/ compute[s] \in {Clearing, Selecting, Copying, Signalling}
  \/ compute[s] = <<>> /\ slot[s].phase # "select pending"

RowsTo(q, n) == {<<q, k>> : k \in 1 .. n}

(* The row of the k-th selected node of a query is in its place, or a read *)
(* that is still to be enqueued or to be executed will put it there.       *)
RowFor(s, q, k) == <<q, expanded[q] - SelectedAt(s, q) + k>>

Arrived(s, q, k) == response[s][q - slot[s].offset][k] = RowFor(s, q, k)

ToRead(s, r) ==
  \/ slot[s].phase = "select pending"
  \/ \E n \in DOMAIN io : io[n] = [kind |-> "read", slot |-> s] /\ (n = 1 => r \notin served)

Coming(s, q, k) ==
  \E r \in DOMAIN requests[s].list :
    /\ requests[s].list[r].place = q - slot[s].offset /\ requests[s].list[r].index = k
    /\ ToRead(s, r)

(* What a query has merged is the rows of all it expanded but those it     *)
(* selected last.                                                          *)
InItsRound(s, q) ==
  /\ compute[s] = Fresh => expanded[q] = 0 /\ merged[q] = {}
  /\ compute[s] # Fresh =>
       /\ SelectedAt(s, q) \in 0 .. Width /\ SelectedAt(s, q) <= expanded[q]
       /\ merged[q] = RowsTo(q, expanded[q] - SelectedAt(s, q))
       /\ Merged(s) => SelectedAt(s, q) = 0
       /\ Merging(s) => (ActiveAt(s, q) <=> SelectedAt(s, q) # 0)
       /\ \A k \in 1 .. SelectedAt(s, q) : Arrived(s, q, k) \/ Coming(s, q, k)

(* The requests of a round are for rows of nodes selected in it.           *)
Asking(s) ==
  \/ compute[s] \in {Selected, Waiting}
  \/ compute[s] = <<>> /\ slot[s].phase = "select pending"

AskedFor(s, request) ==
  \E q \in Queries :
    Owns(s, q) /\ \E k \in 1 .. SelectedAt(s, q) :
      request = [place |-> q - slot[s].offset, index |-> k, row |-> RowFor(s, q, k)]

RequestsOfRound(s) ==
  /\ compute[s] = Selecting => requests[s].list = <<>>
  /\ Asking(s) => \A r \in DOMAIN requests[s].list : AskedFor(s, requests[s].list[r])

Rows(s) == DOMAIN response[s] = Places /\ \A i \in Places : DOMAIN response[s][i] = 1 .. Width

RoundsInvariant ==
  /\ \A q \in Queries : q > next => expanded[q] = 0 /\ merged[q] = {}
  /\ \A s \in PoolSlots, q \in Queries : Owns(s, q) => q <= next /\ InItsRound(s, q)
  /\ \A s, u \in PoolSlots, q \in Queries : Owns(s, q) /\ Owns(u, q) => s = u
  /\ \A s \in PoolSlots : RequestsOfRound(s) /\ Rows(s)
  /\ DOMAIN response = PoolSlots
  /\ (io = <<>> \/ io[1].kind # "read") => served = {}

(* How a query appears to its caller.                                      *)
Numbers(q) == {IF row[1] = q THEN row[2] ELSE 0 : row \in merged[q]}

Seen(q) == [phase |-> PhaseOf(q), expanded |-> expanded[q], merged |-> Numbers(q)]

SeenAt(s, q) ==
  [phase |-> IF compute[s] = Fresh THEN "waiting" ELSE IF ~ActiveAt(s, q) THEN "ended"
             ELSE IF SelectedAt(s, q) = 0 THEN "selecting" ELSE "merging",
   expanded |-> expanded[q],
   merged |-> IF compute[s] = Fresh THEN {} ELSE 1 .. (expanded[q] - SelectedAt(s, q))]

SeenAsIs ==
  \A q \in Queries :
    /\ q > next => Seen(q) = [phase |-> "waiting", expanded |-> 0, merged |-> {}]
    /\ q <= next /\ (\A s \in PoolSlots : ~Owns(s, q)) =>
         Seen(q) = [phase |-> "ended", expanded |-> expanded[q], merged |-> Numbers(q)]
    /\ \A s \in PoolSlots : Owns(s, q) => Seen(q) = SeenAt(s, q)

(* Only a slot that was activated and whose first kernel has not run has   *)
(* that kernel in its stream.                                              *)
LEMMA UnseededIsFresh ==
  ASSUME PoolInvariant, NEW s \in PoolSlots
  PROVE  Unseeded(s) <=> compute[s] = Fresh
<1>1. compute[s] \in SelectStreams \cup ResumeStreams \cup {<<>>}
  BY DEF PoolInvariant, PoolTypes
<1>2. \E n \in DOMAIN Fresh : Fresh[n] = "init"
  <2>1. 1 \in DOMAIN Fresh /\ Fresh[1] = "init"
    BY DEF Fresh, SelectOperations
  <2> QED
    BY <2>1
<1> DEFINE Later == {"clear", "select", "select ready", "wait", "resume", "copy", "round done"}
<1>3. "init" \notin Later /\ Clearing \in Seq(Later) /\ Waiting \in Seq(Later)
  BY DEF Clearing, Waiting, SelectOperations, ResumeOperations
<1> HIDE DEF Later
<1>4. ASSUME NEW t \in Seq(Later), t # <<>> PROVE Tail(t) \in Seq(Later)
  BY <1>4
<1>5. /\ Selecting \in Seq(Later) /\ Selected \in Seq(Later)
      /\ Resuming \in Seq(Later) /\ Copying \in Seq(Later) /\ Signalling \in Seq(Later)
  BY <1>3, <1>4, Operations
  DEF Selecting, Selected, Resuming, Copying, Signalling, SelectStreams, ResumeStreams
<1>6. CASE compute[s] = Fresh
  BY <1>2, <1>6 DEF Unseeded
<1>7. CASE compute[s] # Fresh
  <2>1. compute[s] \in Seq(Later)
    <3>1. <<>> \in Seq(Later)
      OBVIOUS
    <3>2. compute[s] \in {Clearing, Selecting, Selected, Waiting, Resuming, Copying, Signalling, <<>>}
      BY <1>1, <1>7 DEF SelectStreams, ResumeStreams
    <3> QED
      BY <1>3, <1>5, <3>1, <3>2
  <2>2. \A n \in DOMAIN compute[s] : compute[s][n] \in Later
    BY <2>1
  <2> QED
    BY <1>3, <1>7, <2>2 DEF Unseeded
<1> QED
  BY <1>6, <1>7

LEMMA NumbersOfRows ==
  ASSUME NEW q, NEW n, merged[q] = RowsTo(q, n) PROVE Numbers(q) = 1 .. n
<1>1. ASSUME NEW k \in 1 .. n PROVE <<q, k>> \in merged[q] /\ k \in Numbers(q)
  <2>1. <<q, k>> \in merged[q] /\ <<q, k>>[1] = q /\ <<q, k>>[2] = k
    BY DEF RowsTo
  <2> QED
    BY <2>1 DEF Numbers
<1>2. ASSUME NEW m \in Numbers(q) PROVE m \in 1 .. n
  <2>1. PICK row \in merged[q] : m = IF row[1] = q THEN row[2] ELSE 0
    BY DEF Numbers
  <2>2. PICK k \in 1 .. n : row = <<q, k>>
    BY DEF RowsTo
  <2> QED
    BY <2>1, <2>2
<1> QED
  BY <1>1, <1>2

LEMMA Positions ==
  ASSUME PoolInvariant, NEW q \in Queries
  PROVE  q \in Nat /\ next \in Nat /\ (q > next <=> ~(q <= next))
<1>1. next \in 0 .. NumQueries /\ NumQueries \in Nat
  BY PipelineAssumption DEF PoolInvariant, PoolTypes
<1>2. q \in Nat
  BY DEF Queries
<1> QED
  BY <1>1, <1>2

LEMMA QueriesSeen ==
  ASSUME PoolInvariant, RoundsInvariant PROVE SeenAsIs
<1> DEFINE owners(q) == {s \in PoolSlots : q - slot[s].offset \in Batch(s)}
<1> SUFFICES ASSUME NEW q \in Queries
             PROVE  /\ q > next => Seen(q) = [phase |-> "waiting", expanded |-> 0, merged |-> {}]
                    /\ q <= next /\ (\A s \in PoolSlots : ~Owns(s, q)) =>
                         Seen(q) = [phase |-> "ended", expanded |-> expanded[q], merged |-> Numbers(q)]
                    /\ \A s \in PoolSlots : Owns(s, q) => Seen(q) = SeenAt(s, q)
  BY DEF SeenAsIs
<1>1. q \in Nat /\ next \in Nat /\ (q > next <=> ~(q <= next))
  BY Positions
<1>2. CASE q > next
  <2>1. PhaseOf(q) = "waiting" /\ expanded[q] = 0 /\ merged[q] = {}
    BY <1>2 DEF PhaseOf, RoundsInvariant
  <2>2. Numbers(q) = {}
    BY <2>1 DEF Numbers
  <2>3. \A s \in PoolSlots : ~Owns(s, q)
    BY <1>1, <1>2 DEF RoundsInvariant
  <2> QED
    BY <1>1, <1>2, <2>1, <2>2, <2>3 DEF Seen
<1>3. CASE q <= next /\ \A s \in PoolSlots : ~Owns(s, q)
  <2>1. owners(q) = {}
    BY <1>3 DEF Owns
  <2>2. PhaseOf(q) = "ended"
    BY <1>1, <1>3, <2>1 DEF PhaseOf
  <2> QED
    BY <1>1, <1>3, <2>2 DEF Seen
<1>4. ASSUME NEW s \in PoolSlots, Owns(s, q) PROVE Seen(q) = SeenAt(s, q)
  <2>1. q <= next /\ InItsRound(s, q)
    BY <1>4 DEF RoundsInvariant
  <2>2. owners(q) = {s}
    BY <1>4 DEF Owns, RoundsInvariant
  <2>3. (CHOOSE u \in owners(q) : TRUE) = s
    BY <2>2
  <2>4. PhaseOf(q) = IF Unseeded(s) THEN "waiting" ELSE IF ~ActiveAt(s, q) THEN "ended"
                     ELSE IF SelectedAt(s, q) = 0 THEN "selecting" ELSE "merging"
    BY <1>1, <2>1, <2>2, <2>3 DEF PhaseOf, ActiveAt, SelectedAt
  <2>5. Unseeded(s) <=> compute[s] = Fresh
    BY UnseededIsFresh
  <2>6. CASE compute[s] = Fresh
    <3>1. Numbers(q) = {}
      BY <2>1, <2>6 DEF InItsRound, Numbers
    <3> QED
      BY <2>4, <2>5, <2>6, <3>1 DEF Seen, SeenAt
  <2>7. CASE compute[s] # Fresh
    <3>1. Numbers(q) = 1 .. (expanded[q] - SelectedAt(s, q))
      BY <2>1, <2>7, NumbersOfRows DEF InItsRound
    <3> QED
      BY <2>4, <2>5, <2>7, <3>1 DEF Seen, SeenAt
  <2> QED
    BY <2>6, <2>7
<1> QED
  BY <1>1, <1>2, <1>3, <1>4

(* Most steps take a slot's stream or the I/O stream on and leave every    *)
(* query where it is in its rounds.                                        *)
Quiet ==
  /\ UNCHANGED <<next, state, expanded, merged>>
  /\ \A u \in PoolSlots :
       /\ slot'[u].offset = slot[u].offset /\ slot'[u].size = slot[u].size
       /\ compute'[u] = Fresh <=> compute[u] = Fresh

QuietRows(u) ==
  /\ Merged(u)' => Merged(u)
  /\ Merging(u)' => Merging(u)
  /\ \A q \in Queries : Owns(u, q) => \A k \in 1 .. SelectedAt(u, q) :
       Arrived(u, q, k) \/ Coming(u, q, k) => Arrived(u, q, k)' \/ Coming(u, q, k)'
  /\ compute'[u] = Selecting => requests'[u].list = <<>>
  /\ Asking(u)' => Asking(u) /\ requests'[u].list = requests[u].list
  /\ Rows(u)'

LEMMA QuietStep ==
  ASSUME RoundsInvariant, Quiet, \A u \in PoolSlots : QuietRows(u), DOMAIN response' = PoolSlots,
         io' = <<>> \/ io'[1].kind # "read" => served' = {}
  PROVE  RoundsInvariant'
<1>1. UNCHANGED <<next, state, expanded, merged>>
  BY DEF Quiet
<1>2. \A u \in PoolSlots, q \in Queries : Owns(u, q)' <=> Owns(u, q)
  BY DEF Quiet, Owns, Batch
<1>3. \A u \in PoolSlots, q \in Queries : SelectedAt(u, q)' = SelectedAt(u, q) /\ ActiveAt(u, q)' = ActiveAt(u, q)
  BY DEF Quiet, SelectedAt, ActiveAt
<1>4. ASSUME NEW u \in PoolSlots, NEW q \in Queries, Owns(u, q)
      PROVE  InItsRound(u, q)'
  <2>1. InItsRound(u, q) /\ QuietRows(u)
    BY <1>4 DEF RoundsInvariant
  <2>2. CASE compute[u] = Fresh
    BY <1>1, <2>1, <2>2 DEF Quiet, InItsRound
  <2>3. CASE compute[u] # Fresh
    BY <1>1, <1>3, <1>4, <2>1, <2>3 DEF Quiet, InItsRound, QuietRows, RowsTo
  <2> QED
    BY <2>2, <2>3
<1>5. ASSUME NEW u \in PoolSlots PROVE RequestsOfRound(u)' /\ Rows(u)'
  <2>1. RequestsOfRound(u) /\ QuietRows(u)
    BY DEF RoundsInvariant
  <2>2. ASSUME NEW request, AskedFor(u, request) PROVE AskedFor(u, request)'
    <3>1. PICK q \in Queries :
            Owns(u, q) /\ \E k \in 1 .. SelectedAt(u, q) :
              request = [place |-> q - slot[u].offset, index |-> k, row |-> RowFor(u, q, k)]
      BY <2>2 DEF AskedFor
    <3>2. \A k : RowFor(u, q, k)' = RowFor(u, q, k) /\ slot'[u].offset = slot[u].offset
      BY <1>1, <1>3 DEF RowFor, Quiet
    <3> QED
      BY <1>2, <1>3, <3>1, <3>2 DEF AskedFor
  <2> QED
    BY <2>1, <2>2 DEF RequestsOfRound, QuietRows
<1> QED
  BY <1>1, <1>2, <1>4, <1>5 DEF RoundsInvariant

LEMMA QuietSeen ==
  ASSUME PoolInvariant, SeenAsIs, SeenAsIs', Quiet PROVE \A q \in Queries : Seen(q)' = Seen(q)
<1> SUFFICES ASSUME NEW q \in Queries PROVE Seen(q)' = Seen(q)
  OBVIOUS
<1>1. UNCHANGED <<next, state, expanded, merged>>
  BY DEF Quiet
<1>2. \A u \in PoolSlots : Owns(u, q)' <=> Owns(u, q)
  BY DEF Quiet, Owns, Batch
<1>3. CASE \E u \in PoolSlots : Owns(u, q)
  <2>1. PICK u \in PoolSlots : Owns(u, q)
    BY <1>3
  <2>2. Seen(q) = SeenAt(u, q) /\ Seen(q)' = SeenAt(u, q)'
    BY <1>2, <2>1 DEF SeenAsIs
  <2>3. SeenAt(u, q)' = SeenAt(u, q)
    BY <1>1 DEF SeenAt, Quiet, SelectedAt, ActiveAt
  <2> QED
    BY <2>2, <2>3
<1>4. CASE (\A u \in PoolSlots : ~Owns(u, q)) /\ q <= next
  <2>1. Seen(q) = [phase |-> "ended", expanded |-> expanded[q], merged |-> Numbers(q)]
    BY <1>4 DEF SeenAsIs
  <2>2. Seen(q)' = [phase |-> "ended", expanded |-> expanded'[q], merged |-> Numbers(q)']
    BY <1>1, <1>2, <1>4 DEF SeenAsIs
  <2> QED
    BY <1>1, <2>1, <2>2 DEF Numbers
<1>5. CASE q > next
  BY <1>1, <1>5 DEF SeenAsIs
<1>6. q <= next \/ q > next
  BY Positions
<1> QED
  BY <1>3, <1>4, <1>5, <1>6

(* A slot that the step does nothing to.                                   *)
Still(u) ==
  /\ UNCHANGED <<slot[u].phase, compute[u], requests[u], response[u]>>
  /\ \A r \in DOMAIN requests[u].list : ToRead(u, r) => ToRead(u, r)'

LEMMA StillRows ==
  ASSUME RoundsInvariant, Quiet, NEW u \in PoolSlots, Still(u)
  PROVE  QuietRows(u)
<1>1. UNCHANGED <<slot[u].phase, compute[u], requests[u], response[u]>>
  BY DEF Still
<1>2. UNCHANGED <<state, expanded>> /\ slot'[u].offset = slot[u].offset
  BY DEF Quiet
<1>3. (Merged(u)' <=> Merged(u)) /\ (Merging(u)' <=> Merging(u)) /\ (Asking(u)' <=> Asking(u))
  BY <1>1 DEF Merged, Merging, Asking
<1>4. ASSUME NEW q, NEW k, Arrived(u, q, k) \/ Coming(u, q, k)
      PROVE  Arrived(u, q, k)' \/ Coming(u, q, k)'
  <2>1. CASE Arrived(u, q, k)
    BY <1>1, <1>2, <2>1 DEF Arrived, RowFor, SelectedAt
  <2>2. CASE Coming(u, q, k)
    <3>1. PICK r \in DOMAIN requests[u].list :
            /\ requests[u].list[r].place = q - slot[u].offset /\ requests[u].list[r].index = k
            /\ ToRead(u, r)
      BY <2>2 DEF Coming
    <3>2. ToRead(u, r)'
      BY <3>1 DEF Still
    <3> QED
      BY <1>1, <1>2, <3>1, <3>2 DEF Coming
  <2> QED
    BY <1>4, <2>1, <2>2
<1>5. RequestsOfRound(u) /\ Rows(u)
  BY DEF RoundsInvariant
<1> QED
  BY <1>1, <1>3, <1>4, <1>5 DEF QuietRows, RequestsOfRound, Rows

(* The quiet operations of a slot's own stream.                            *)
LEMMA QuietOperation ==
  ASSUME RoundsInvariant, Quiet, NEW s \in PoolSlots, QuietRows(s),
         UNCHANGED <<io, served, response>>,
         \A u \in PoolSlots \ {s} : UNCHANGED <<slot[u], compute[u], requests[u]>>
  PROVE  RoundsInvariant'
<1>1. \A u \in PoolSlots \ {s} : QuietRows(u)
  <2>1. ASSUME NEW u \in PoolSlots \ {s} PROVE Still(u)
    BY DEF Still, ToRead
  <2> QED
    BY <2>1, StillRows
<1>2. DOMAIN response' = PoolSlots /\ (io' = <<>> \/ io'[1].kind # "read" => served' = {})
  BY DEF RoundsInvariant
<1> QED
  BY <1>1, <1>2, QuietStep

LEMMA NoneSelected ==
  ASSUME RoundsInvariant, NEW s \in PoolSlots, Merged(s), compute[s] # Fresh
  PROVE  \A q \in Queries : Owns(s, q) => SelectedAt(s, q) = 0
BY DEF RoundsInvariant, InItsRound

LEMMA RoundsClearCounts ==
  ASSUME PoolInvariant, RoundsInvariant, NEW s \in PoolSlots, ClearCounts(s)
  PROVE  Quiet /\ RoundsInvariant'
<1>1. compute[s] = Clearing /\ compute' = [compute EXCEPT ![s] = Selecting]
  BY Executes DEF ClearCounts
<1>2. UNCHANGED <<next, slot, io, served, state, response, expanded, merged>>
  BY DEF ClearCounts, hostVars, results
<1>3. /\ compute'[s] = Selecting /\ requests'[s].list = <<>>
      /\ \A u \in PoolSlots \ {s} : compute'[u] = compute[u] /\ requests'[u] = requests[u]
  BY <1>1 DEF ClearCounts, PoolInvariant, PoolTypes
<1>4. Quiet
  BY <1>1, <1>2, <1>3, Streams DEF Quiet
<1>5. QuietRows(s)
  <2>1. Merged(s) /\ compute[s] # Fresh
    BY <1>1, Streams DEF Merged
  <2>2. ~Merging(s)' /\ ~Asking(s)'
    BY <1>3, Streams DEF Merging, Asking, SelectStreams, ResumeStreams
  <2>3. \A q \in Queries : Owns(s, q) => SelectedAt(s, q) = 0
    BY <2>1, NoneSelected
  <2>4. Rows(s)'
    BY <1>2 DEF RoundsInvariant, Rows
  <2> QED
    BY <1>3, <2>1, <2>2, <2>3, <2>4 DEF QuietRows
<1> QED
  BY <1>2, <1>3, <1>4, <1>5, QuietOperation

LEMMA RoundsSignalSelect ==
  ASSUME PoolInvariant, RoundsInvariant, NEW s \in PoolSlots, SignalSelect(s)
  PROVE  Quiet /\ RoundsInvariant'
<1>1. /\ compute[s] = Selected /\ compute' = [compute EXCEPT ![s] = <<>>]
      /\ slot[s].phase = "select pending"
  BY Executes DEF SignalSelect, SelectStreams
<1>2. UNCHANGED <<next, slot, io, requests, served, state, response, expanded, merged>>
  BY DEF SignalSelect, hostVars, buffers, results
<1>3. compute'[s] = <<>> /\ \A u \in PoolSlots \ {s} : compute'[u] = compute[u]
  BY <1>1 DEF PoolInvariant, PoolTypes
<1>4. Quiet
  BY <1>1, <1>2, <1>3, Streams DEF Quiet, SelectStreams
<1>5. QuietRows(s)
  <2>1. Merging(s) /\ Asking(s)
    BY <1>1 DEF Merging, Asking
  <2>2. ~Merged(s)' /\ compute'[s] # Selecting
    BY <1>1, <1>2, <1>3, Streams DEF Merged, SelectStreams, ResumeStreams
  <2>3. ASSUME NEW q, NEW k, Arrived(s, q, k) \/ Coming(s, q, k)
        PROVE  Arrived(s, q, k)' \/ Coming(s, q, k)'
    BY <1>2, <2>3 DEF Arrived, Coming, RowFor, SelectedAt, ToRead
  <2>4. Rows(s)'
    BY <1>2 DEF RoundsInvariant, Rows
  <2> QED
    BY <1>2, <2>1, <2>2, <2>3, <2>4 DEF QuietRows
<1> QED
  BY <1>2, <1>3, <1>4, <1>5, QuietOperation

LEMMA RoundsWaitForRead ==
  ASSUME PoolInvariant, RoundsInvariant, NEW s \in PoolSlots, WaitForRead(s)
  PROVE  Quiet /\ RoundsInvariant'
<1>1. compute[s] = Waiting /\ compute' = [compute EXCEPT ![s] = Resuming]
  BY Executes DEF WaitForRead
<1>2. UNCHANGED <<next, slot, io, requests, served, state, response, expanded, merged>>
  BY DEF WaitForRead, hostVars, buffers, results
<1>3. compute'[s] = Resuming /\ \A u \in PoolSlots \ {s} : compute'[u] = compute[u]
  BY <1>1 DEF PoolInvariant, PoolTypes
<1>4. Quiet
  BY <1>1, <1>2, <1>3, Streams DEF Quiet, SelectStreams, ResumeStreams
<1>5. QuietRows(s)
  <2>1. Merging(s)
    BY <1>1 DEF Merging
  <2>2. ~Merged(s)' /\ compute'[s] # Selecting /\ ~Asking(s)'
    BY <1>1, <1>2, <1>3, Streams DEF Merged, Asking, SelectStreams, ResumeStreams
  <2>3. ASSUME NEW q, NEW k, Arrived(s, q, k) \/ Coming(s, q, k)
        PROVE  Arrived(s, q, k)' \/ Coming(s, q, k)'
    BY <1>2, <2>3 DEF Arrived, Coming, RowFor, SelectedAt, ToRead
  <2>4. Rows(s)'
    BY <1>2 DEF RoundsInvariant, Rows
  <2> QED
    BY <1>2, <2>1, <2>2, <2>3, <2>4 DEF QuietRows
<1> QED
  BY <1>2, <1>3, <1>4, <1>5, QuietOperation

LEMMA RoundsCopyCounts ==
  ASSUME PoolInvariant, RoundsInvariant, NEW s \in PoolSlots, CopyCounts(s)
  PROVE  Quiet /\ RoundsInvariant'
<1>1. compute[s] = Copying /\ compute' = [compute EXCEPT ![s] = Signalling]
  BY Executes DEF CopyCounts
<1>2. UNCHANGED <<next, io, requests, served, state, response, expanded, merged>>
  BY DEF CopyCounts, buffers, results
<1>3. /\ compute'[s] = Signalling /\ \A u \in PoolSlots \ {s} : compute'[u] = compute[u]
      /\ slot'[s].offset = slot[s].offset /\ slot'[s].size = slot[s].size
      /\ \A u \in PoolSlots \ {s} : slot'[u] = slot[u]
  BY <1>1, SlotCounts DEF PoolInvariant, PoolTypes, CopyCounts
<1>4. Quiet
  BY <1>1, <1>2, <1>3, Streams DEF Quiet, SelectStreams, ResumeStreams
<1>5. QuietRows(s)
  <2>1. Merged(s) /\ compute[s] # Fresh
    BY <1>1, Streams DEF Merged, SelectStreams, ResumeStreams
  <2>2. ~Merging(s)' /\ ~Asking(s)' /\ compute'[s] # Selecting
    BY <1>3, Streams DEF Merging, Asking, SelectStreams, ResumeStreams
  <2>3. \A q \in Queries : Owns(s, q) => SelectedAt(s, q) = 0
    BY <2>1, NoneSelected
  <2>4. Rows(s)'
    BY <1>2 DEF RoundsInvariant, Rows
  <2> QED
    BY <2>1, <2>2, <2>3, <2>4 DEF QuietRows
<1> QED
  BY <1>2, <1>3, <1>4, <1>5, QuietOperation

LEMMA RoundsSignalRound ==
  ASSUME PoolInvariant, RoundsInvariant, NEW s \in PoolSlots, SignalRound(s)
  PROVE  Quiet /\ RoundsInvariant'
<1>1. /\ compute[s] = Signalling /\ compute' = [compute EXCEPT ![s] = <<>>]
      /\ slot[s].phase = "round pending"
  BY Executes DEF SignalRound, ResumeStreams
<1>2. UNCHANGED <<next, slot, io, requests, served, state, response, expanded, merged>>
  BY DEF SignalRound, hostVars, buffers, results
<1>3. compute'[s] = <<>> /\ \A u \in PoolSlots \ {s} : compute'[u] = compute[u]
  BY <1>1 DEF PoolInvariant, PoolTypes
<1>4. Quiet
  BY <1>1, <1>2, <1>3, Streams DEF Quiet, SelectStreams, ResumeStreams
<1>5. QuietRows(s)
  <2>1. Merged(s) /\ compute[s] # Fresh
    BY <1>1, Streams DEF Merged, SelectStreams, ResumeStreams
  <2>2. ~Merging(s)' /\ ~Asking(s)' /\ compute'[s] # Selecting
    BY <1>1, <1>2, <1>3, Streams DEF Merging, Asking, SelectStreams, ResumeStreams
  <2>3. \A q \in Queries : Owns(s, q) => SelectedAt(s, q) = 0
    BY <2>1, NoneSelected
  <2>4. Rows(s)'
    BY <1>2 DEF RoundsInvariant, Rows
  <2> QED
    BY <2>1, <2>2, <2>3, <2>4 DEF QuietRows
<1> QED
  BY <1>2, <1>3, <1>4, <1>5, QuietOperation

-----------------------------------------------------------------------------
(* The quiet steps of the host and of the I/O stream.                      *)
LEMMA RoundsUnchanged ==
  ASSUME RoundsInvariant,
         UNCHANGED <<next, slot, compute, io, requests, served, state, response, expanded, merged>>
  PROVE  Quiet /\ RoundsInvariant'
<1>1. Quiet
  BY DEF Quiet
<1>2. \A u \in PoolSlots : Still(u)
  BY DEF Still, ToRead
<1>3. DOMAIN response' = PoolSlots /\ (io' = <<>> \/ io'[1].kind # "read" => served' = {})
  BY DEF RoundsInvariant
<1> QED
  BY <1>1, <1>2, <1>3, StillRows, QuietStep

(* A round ends: the slot goes on to the next, or is idle.                 *)
LEMMA RoundsEndRound ==
  ASSUME PoolInvariant, RoundsInvariant, NEW s \in PoolSlots, EndRound(s), ~ActivateSlot(s)
  PROVE  Quiet /\ RoundsInvariant'
<1>1. /\ slot[s].phase = "round pending" /\ event[s].round # "pending"
      /\ UNCHANGED <<io, requests, served, state, response, expanded, merged>>
  BY DEF EndRound, Polls, buffers, results
<1>2. compute[s] = <<>>
  BY <1>1 DEF PoolInvariant, InRound, StreamInPhase
<1>3. slot[s].rounds \in Nat /\ slot[s].rounds + 1 \in Nat
  <2>1. slot[s].rounds \in Nat
    BY SlotTypes DEF PoolInvariant
  <2> QED
    BY <2>1
<1>4. /\ next' = next
      /\ slot'[s].offset = slot[s].offset /\ slot'[s].size = slot[s].size
      /\ \A u \in PoolSlots \ {s} : slot'[u] = slot[u] /\ compute'[u] = compute[u]
      /\ \/ compute'[s] = Clearing
         \/ compute'[s] = <<>> /\ slot'[s].phase # "select pending"
  <2>1. CASE /\ compute' = [compute EXCEPT ![s] = @ \o SelectOperations]
             /\ slot' = [slot EXCEPT ![s].phase = "select pending",
                                     ![s].rounds = @ + 1]
             /\ next' = next
    <3>1. compute' = [compute EXCEPT ![s] = Clearing]
      BY <1>2, <2>1, Operations
    <3>2. /\ slot'[s].offset = slot[s].offset /\ slot'[s].size = slot[s].size
          /\ \A u \in PoolSlots \ {s} : slot'[u] = slot[u]
      <4>1. slot' = [slot EXCEPT ![s] = [@ EXCEPT !.phase = "select pending",
                                                  !.rounds = slot[s].rounds + 1]]
        BY <2>1 DEF PoolInvariant, PoolTypes
      <4>2. PoolTypes
        BY DEF PoolInvariant
      <4> QED
        BY <1>3, <4>1, <4>2, SlotMoves
    <3> QED
      BY <2>1, <3>1, <3>2 DEF PoolInvariant, PoolTypes
  <2>2. CASE /\ slot' = [slot EXCEPT ![s].phase = "idle", ![s].rounds = @ + 1]
             /\ UNCHANGED <<next, compute>>
    <3>1. /\ slot'[s].offset = slot[s].offset /\ slot'[s].size = slot[s].size
          /\ slot'[s].phase = "idle" /\ \A u \in PoolSlots \ {s} : slot'[u] = slot[u]
      <4>1. slot' = [slot EXCEPT ![s] = [@ EXCEPT !.phase = "idle",
                                                  !.rounds = slot[s].rounds + 1]]
        BY <2>2 DEF PoolInvariant, PoolTypes
      <4>2. PoolTypes
        BY DEF PoolInvariant
      <4> QED
        BY <1>3, <4>1, <4>2, SlotMoves
    <3> QED
      BY <1>2, <2>2, <3>1
  <2>3. CASE UNCHANGED <<next, slot, compute>>
    BY <1>1, <1>2, <2>3
  <2> QED
    BY <2>1, <2>2, <2>3 DEF EndRound
<1>5. Quiet
  BY <1>1, <1>2, <1>4, Streams DEF Quiet, SelectStreams
<1>6. QuietRows(s)
  <2>1. Merged(s) /\ compute[s] # Fresh
    BY <1>1, <1>2, Streams DEF Merged, SelectStreams
  <2>2. ~Merging(s)' /\ ~Asking(s)' /\ compute'[s] # Selecting
    BY <1>4, Streams DEF Merging, Asking, SelectStreams, ResumeStreams
  <2>3. \A q \in Queries : Owns(s, q) => SelectedAt(s, q) = 0
    BY <2>1, NoneSelected
  <2>4. Rows(s)'
    BY <1>1 DEF RoundsInvariant, Rows
  <2> QED
    BY <2>1, <2>2, <2>3, <2>4 DEF QuietRows
<1> QED
  BY <1>1, <1>4, <1>5, <1>6, QuietOperation

LEMMA IoGrows ==
  ASSUME PoolTypes, NEW s \in PoolSlots, io' = io \o ReadOperations(s)
  PROVE  /\ Len(io) \in Nat /\ Len(io) + 1 \in DOMAIN io'
         /\ io'[Len(io) + 1] = [kind |-> "read", slot |-> s]
         /\ \A n \in DOMAIN io : n \in DOMAIN io' /\ io'[n] = io[n]
         /\ Len(io) = 0 => io = <<>>
         /\ io # <<>> => 1 \in DOMAIN io
<1> DEFINE Operation == [kind : {"read", "io end"}, slot : PoolSlots]
           read == [kind |-> "read", slot |-> s]
           end  == [kind |-> "io end", slot |-> s]
           new  == <<read, end>>
<1>1. io \in Seq(Operation) /\ read \in Operation /\ end \in Operation
  BY DEF PoolTypes
<1>2. io' = io \o new
  BY DEF ReadOperations
<1> HIDE DEF Operation, read, end
<1>3. new \in Seq(Operation) /\ Len(new) = 2 /\ new[1] = read
  BY <1>1
<1> HIDE DEF new
<1>4. /\ io' \in Seq(Operation) /\ Len(io') = Len(io) + Len(new)
      /\ \A i \in 1 .. Len(io) + Len(new) :
           io'[i] = IF i <= Len(io) THEN io[i] ELSE new[i - Len(io)]
  <2>1. io \in Seq(Operation)
    BY <1>1
  <2>2. new \in Seq(Operation)
    BY <1>3
  <2> QED
    BY <1>2, <2>1, <2>2, ConcatProperties
<1>5. DOMAIN io = 1 .. Len(io) /\ Len(io) \in Nat /\ DOMAIN io' = 1 .. Len(io')
  BY <1>1, <1>4, LenProperties
<1>6. Len(io) = 0 <=> io = <<>>
  BY <1>1, EmptySeq
<1>7. 1 <= Len(new) /\ Len(io) + 1 - Len(io) = 1 /\ ~(Len(io) + 1 <= Len(io))
  BY <1>3, <1>5
<1>8. Len(io) + 1 \in 1 .. Len(io) + Len(new)
  BY <1>3, <1>5
<1>9. io'[Len(io) + 1] = read
  BY <1>3, <1>4, <1>7, <1>8
<1>10. \A n \in 1 .. Len(io) : n \in 1 .. Len(io) + Len(new) /\ n <= Len(io)
  BY <1>3, <1>5
<1>11. \A n \in DOMAIN io : n \in DOMAIN io' /\ io'[n] = io[n]
  BY <1>4, <1>5, <1>10
<1>12. io # <<>> => 1 \in DOMAIN io
  BY <1>5, <1>6
<1>13. Len(io) + 1 \in DOMAIN io'
  BY <1>4, <1>5, <1>8
<1> QED
  BY <1>5, <1>6, <1>9, <1>11, <1>12, <1>13 DEF read

LEMMA RoundsIssueRound ==
  ASSUME PoolInvariant, RoundsInvariant, NEW s \in PoolSlots, IssueRound(s)
  PROVE  Quiet /\ RoundsInvariant'
<1>1. slot[s].phase = "select pending" /\ event[s].select # "pending"
  BY DEF IssueRound, Polls
<1>2. compute[s] = <<>>
  BY <1>1 DEF PoolInvariant, InRound, StreamInPhase
<1>3. UNCHANGED <<next, requests, served, state, response, expanded, merged>>
  BY DEF IssueRound, buffers, results
<1>4. compute'[s] = Waiting /\ \A u \in PoolSlots \ {s} : compute'[u] = compute[u]
  <2>1. compute' = [compute EXCEPT ![s] = Waiting]
    BY <1>2, Operations DEF IssueRound
  <2> QED
    BY <2>1 DEF PoolInvariant, PoolTypes
<1>5. /\ slot'[s].offset = slot[s].offset /\ slot'[s].size = slot[s].size
      /\ \A u \in PoolSlots \ {s} : slot'[u] = slot[u]
  BY DEF IssueRound, PoolInvariant, PoolTypes, SlotStates
<1>6. /\ Len(io) \in Nat /\ Len(io) + 1 \in DOMAIN io'
      /\ io'[Len(io) + 1] = [kind |-> "read", slot |-> s]
      /\ \A n \in DOMAIN io : n \in DOMAIN io' /\ io'[n] = io[n]
      /\ Len(io) = 0 => io = <<>>
      /\ io # <<>> => 1 \in DOMAIN io
  BY IoGrows DEF IssueRound, PoolInvariant
<1>7. Quiet
  BY <1>2, <1>3, <1>4, <1>5, Streams DEF Quiet, SelectStreams, ResumeStreams
<1>8. ASSUME NEW u \in PoolSlots, NEW r, ToRead(u, r) PROVE ToRead(u, r)'
  <2>1. CASE u # s /\ slot[u].phase = "select pending"
    BY <1>5, <2>1 DEF ToRead
  <2>2. CASE \E n \in DOMAIN io : io[n] = [kind |-> "read", slot |-> u] /\ (n = 1 => r \notin served)
    BY <1>3, <1>6, <2>2 DEF ToRead
  <2>3. CASE u = s
    <3>1. Len(io) + 1 = 1 => r \notin served
      BY <1>6 DEF RoundsInvariant
    <3> QED
      BY <1>3, <1>6, <2>3, <3>1 DEF ToRead
  <2> QED
    BY <1>8, <2>1, <2>2, <2>3 DEF ToRead
<1>9. \A u \in PoolSlots \ {s} : QuietRows(u)
  <2>1. \A u \in PoolSlots \ {s} : Still(u)
    BY <1>3, <1>4, <1>5, <1>8 DEF Still
  <2> QED
    BY <1>7, <2>1, StillRows
<1>10. QuietRows(s)
  <2>1. Merging(s) /\ Asking(s)
    BY <1>1, <1>2 DEF Merging, Asking
  <2>2. ~Merged(s)' /\ compute'[s] # Selecting
    BY <1>4, Streams DEF Merged, SelectStreams, ResumeStreams
  <2>3. ASSUME NEW q, NEW k, Arrived(s, q, k) \/ Coming(s, q, k)
        PROVE  Arrived(s, q, k)' \/ Coming(s, q, k)'
    <3>1. CASE Arrived(s, q, k)
      BY <1>3, <1>5, <3>1 DEF Arrived, RowFor, SelectedAt
    <3>2. CASE Coming(s, q, k)
      BY <1>3, <1>5, <1>8, <3>2 DEF Coming
    <3> QED
      BY <2>3, <3>1, <3>2
  <2>4. Rows(s)'
    BY <1>3 DEF RoundsInvariant, Rows
  <2> QED
    BY <1>3, <2>1, <2>2, <2>3, <2>4 DEF QuietRows
<1>11. DOMAIN response' = PoolSlots /\ (io' = <<>> \/ io'[1].kind # "read" => served' = {})
  <2>1. io = <<>> => 1 \in DOMAIN io' /\ io'[1].kind = "read"
    <3>1. io = <<>> => Len(io) + 1 = 1
      OBVIOUS
    <3> QED
      BY <1>6, <3>1
  <2>2. io' # <<>>
    BY <1>6
  <2> QED
    BY <1>3, <1>6, <2>1, <2>2 DEF RoundsInvariant
<1> QED
  BY <1>7, <1>9, <1>10, <1>11, QuietStep

(* The reads of the other slots stay in the stream when its head is over.  *)
LEMMA HeadGone ==
  ASSUME PoolTypes, io # <<>>, io' = Tail(io), served' = {}, UNCHANGED slot,
         NEW u \in PoolSlots, NEW r, ToRead(u, r),
         io[1] # [kind |-> "read", slot |-> u] \/ r \in served
  PROVE  ToRead(u, r)'
<1>1. CASE slot[u].phase = "select pending"
  BY <1>1 DEF ToRead
<1>2. CASE \E n \in DOMAIN io : io[n] = [kind |-> "read", slot |-> u] /\ (n = 1 => r \notin served)
  <2> DEFINE Operation == [kind : {"read", "io end"}, slot : PoolSlots]
  <2>1. io \in Seq(Operation)
    BY DEF PoolTypes
  <2> HIDE DEF Operation
  <2>2. PICK n \in DOMAIN io : io[n] = [kind |-> "read", slot |-> u] /\ (n = 1 => r \notin served)
    BY <1>2
  <2>3. n # 1
    BY <2>2
  <2>4. /\ Len(io') = Len(io) - 1 /\ Len(io) \in Nat \ {0}
        /\ DOMAIN io' = 1 .. Len(io') /\ DOMAIN io = 1 .. Len(io)
        /\ \A i \in 1 .. Len(io) - 1 : io'[i] = io[i + 1]
    BY <2>1, HeadTailProperties, EmptySeq, LenProperties
  <2>5. n - 1 \in DOMAIN io' /\ io'[n - 1] = io[n]
    <3>1. n - 1 \in 1 .. Len(io) - 1 /\ (n - 1) + 1 = n
      BY <2>3, <2>4
    <3> QED
      BY <2>4, <3>1
  <2> QED
    BY <2>2, <2>5 DEF ToRead
<1> QED
  BY <1>1, <1>2 DEF ToRead

LEMMA RoundsEndRead ==
  ASSUME PoolInvariant, RoundsInvariant, EndRead
  PROVE  Quiet /\ RoundsInvariant'
<1>1. /\ UNCHANGED <<next, slot, compute, requests, state, response, expanded, merged>>
      /\ served' = {} /\ io' = Tail(io) /\ io # <<>>
      /\ DOMAIN requests[Head(io).slot].list \subseteq served
  BY DEF EndRead, Reading, hostVars, results
<1>2. Quiet
  BY <1>1 DEF Quiet
<1>3. Head(io) = io[1]
  BY <1>1, HeadOver DEF PoolInvariant
<1>4. ASSUME NEW u \in PoolSlots PROVE Still(u)
  <2>1. ASSUME NEW r \in DOMAIN requests[u].list, ToRead(u, r) PROVE ToRead(u, r)'
    <3>1. io[1] = [kind |-> "read", slot |-> u] => r \in served
      BY <1>1, <1>3
    <3> QED
      BY <1>1, <2>1, <3>1, HeadGone DEF PoolInvariant
  <2> QED
    BY <1>1, <2>1 DEF Still
<1>5. DOMAIN response' = PoolSlots /\ (io' = <<>> \/ io'[1].kind # "read" => served' = {})
  BY <1>1 DEF RoundsInvariant
<1> QED
  BY <1>2, <1>4, <1>5, StillRows, QuietStep

LEMMA RoundsSignalRead ==
  ASSUME PoolInvariant, RoundsInvariant, SignalRead
  PROVE  Quiet /\ RoundsInvariant'
<1>1. /\ UNCHANGED <<next, slot, compute, requests, served, state, response, expanded, merged>>
      /\ io' = Tail(io) /\ io # <<>> /\ Head(io).kind = "io end"
  BY DEF SignalRead, Reading, hostVars, buffers, results
<1>2. Quiet
  BY <1>1 DEF Quiet
<1>3. Head(io) = io[1]
  BY <1>1, HeadOver DEF PoolInvariant
<1>4. served' = {} /\ served = {}
  BY <1>1, <1>3 DEF RoundsInvariant
<1>5. ASSUME NEW u \in PoolSlots PROVE Still(u)
  <2>1. ASSUME NEW r \in DOMAIN requests[u].list, ToRead(u, r) PROVE ToRead(u, r)'
    <3>1. ASSUME io[1] = [kind |-> "read", slot |-> u] PROVE FALSE
      <4>1. io[1].kind = "read"
        BY <3>1
      <4>2. io[1].kind = "io end"
        BY <1>1, <1>3
      <4> QED
        BY <4>1, <4>2
    <3> QED
      BY <1>1, <1>4, <2>1, <3>1, HeadGone DEF PoolInvariant
  <2> QED
    BY <1>1, <2>1 DEF Still
<1>6. DOMAIN response' = PoolSlots /\ (io' = <<>> \/ io'[1].kind # "read" => served' = {})
  BY <1>1, <1>4 DEF RoundsInvariant
<1> QED
  BY <1>2, <1>5, <1>6, StillRows, QuietStep

(* A row that is read is the one its place waits for.                      *)
LEMMA RoundsReadRow ==
  ASSUME PoolInvariant, RoundsInvariant, ReadRow
  PROVE  Quiet /\ RoundsInvariant'
<1>1. /\ UNCHANGED <<next, slot, compute, io, requests, state, expanded, merged>>
      /\ io # <<>> /\ Head(io).kind = "read"
  BY DEF ReadRow, Reading, hostVars, streams, results
<1>2. Head(io) = io[1] /\ 1 \in DOMAIN io /\ Head(io).slot \in PoolSlots
  <2> DEFINE Operation == [kind : {"read", "io end"}, slot : PoolSlots]
  <2>1. io \in Seq(Operation)
    BY DEF PoolInvariant, PoolTypes
  <2>2. Head(io) = io[1] /\ 1 \in DOMAIN io
    <3> HIDE DEF Operation
    <3> QED
      BY <1>1, <2>1
  <2> QED
    BY <2>2, ReadTypes DEF PoolInvariant
<1>3. PICK s \in PoolSlots : Head(io).slot = s
  BY <1>2
<1>4. PICK r \in DOMAIN requests[s].list \ served :
        /\ served' = served \cup {r}
        /\ response' = [response EXCEPT ![s][requests[s].list[r].place][requests[s].list[r].index] =
                          requests[s].list[r].row]
  BY <1>3 DEF ReadRow
<1> DEFINE request == requests[s].list[r]
<1>5. compute[s] = Waiting /\ slot[s].phase = "round pending"
  BY <1>2, <1>3 DEF PoolInvariant, ReadsAwaited, Awaited
<1>6. AskedFor(s, request)
  BY <1>4, <1>5 DEF RoundsInvariant, RequestsOfRound, Asking
<1>7. PICK p \in Queries :
        Owns(s, p) /\ \E k \in 1 .. SelectedAt(s, p) :
          request = [place |-> p - slot[s].offset, index |-> k, row |-> RowFor(s, p, k)]
  BY <1>6 DEF AskedFor
<1>8. PICK j \in 1 .. SelectedAt(s, p) :
        request = [place |-> p - slot[s].offset, index |-> j, row |-> RowFor(s, p, j)]
  BY <1>7
<1>9. Quiet
  BY <1>1 DEF Quiet
<1>10. ASSUME NEW u \in PoolSlots \ {s}, NEW x, ToRead(u, x) PROVE ToRead(u, x)'
  <2>1. io[1] # [kind |-> "read", slot |-> u]
    BY <1>2, <1>3
  <2> QED
    BY <1>1, <1>10, <2>1 DEF ToRead
<1>11. \A u \in PoolSlots \ {s} : QuietRows(u)
  <2>1. \A u \in PoolSlots \ {s} : response'[u] = response[u]
    BY <1>4 DEF RoundsInvariant
  <2>2. \A u \in PoolSlots \ {s} : Still(u)
    BY <1>1, <1>10, <2>1 DEF Still
  <2> QED
    BY <1>9, <2>2, StillRows
<1> DEFINE old == response[s]
<1>12. /\ DOMAIN response' = PoolSlots
       /\ response'[s] = [old EXCEPT ![request.place][request.index] = request.row]
       /\ DOMAIN old = Places /\ \A i \in Places : DOMAIN old[i] = 1 .. Width
  BY <1>4 DEF RoundsInvariant, Rows
<1>13. QuietRows(s)
  <2>1. Merging(s) /\ Asking(s) /\ ~Merged(s)' /\ compute'[s] # Selecting
    BY <1>1, <1>5, Streams DEF Merging, Asking, Merged, SelectStreams, ResumeStreams
  <2>2. ASSUME NEW q \in Queries, Owns(s, q), NEW k \in 1 .. SelectedAt(s, q),
               Arrived(s, q, k) \/ Coming(s, q, k)
        PROVE  Arrived(s, q, k)' \/ Coming(s, q, k)'
    <3>1. /\ q - slot[s].offset \in Places /\ k \in 1 .. Width
      <4>1. SelectedAt(s, q) \in 0 .. Width
        BY <1>5, <2>2, Streams DEF RoundsInvariant, InItsRound, SelectStreams, ResumeStreams
      <4>2. q - slot[s].offset \in Places
        BY <2>2, BatchOfQueries DEF Owns, PoolInvariant
      <4> QED
        BY <4>1, <4>2, PipelineAssumption
    <3>2. UNCHANGED <<slot[s].offset, RowFor(s, q, k)>>
      BY <1>1 DEF RowFor, SelectedAt
    <3>3. CASE request.place = q - slot[s].offset /\ request.index = k
      <4>1. p = q /\ j = k
        <5>1. p - slot[s].offset = q - slot[s].offset /\ j = k
          BY <1>8, <3>3
        <5>2. p \in Nat /\ q \in Nat /\ slot[s].offset \in Nat
          BY SlotTypes, Positions DEF PoolInvariant
        <5> QED
          BY <5>1, <5>2
      <4>2. request.row = RowFor(s, q, k)
        BY <1>8, <4>1
      <4>3. response'[s][q - slot[s].offset][k] = request.row
        BY <1>12, <3>1, <3>3
      <4> QED
        BY <3>2, <4>2, <4>3 DEF Arrived
    <3>4. CASE ~(request.place = q - slot[s].offset /\ request.index = k) /\ Arrived(s, q, k)
      <4>1. response'[s][q - slot[s].offset][k] = old[q - slot[s].offset][k]
        <5> DEFINE i == q - slot[s].offset
        <5>1. i \in DOMAIN old /\ k \in DOMAIN old[i]
          BY <1>12, <3>1
        <5>2. request.place # i \/ request.index # k
          BY <3>4
        <5>3. response'[s] = [old EXCEPT ![request.place][request.index] = request.row]
          BY <1>12
        <5> HIDE DEF i, old
        <5>4. response'[s][i][k] = old[i][k]
          BY <5>1, <5>2, <5>3
        <5> QED
          BY <5>4 DEF i
      <4> QED
        BY <3>2, <3>4, <4>1 DEF Arrived
    <3>5. CASE ~(request.place = q - slot[s].offset /\ request.index = k) /\ Coming(s, q, k)
      <4>1. PICK x \in DOMAIN requests[s].list :
              /\ requests[s].list[x].place = q - slot[s].offset /\ requests[s].list[x].index = k
              /\ ToRead(s, x)
        BY <3>5 DEF Coming
      <4>2. x # r
        BY <3>5, <4>1
      <4>3. ToRead(s, x)'
        BY <1>1, <1>4, <4>1, <4>2 DEF ToRead
      <4> QED
        BY <1>1, <4>1, <4>3 DEF Coming
    <3> QED
      BY <2>2, <3>3, <3>4, <3>5
  <2>3. Rows(s)'
    BY <1>12 DEF Rows
  <2> QED
    BY <1>1, <2>1, <2>2, <2>3 DEF QuietRows
<1>14. io' = <<>> \/ io'[1].kind # "read" => served' = {}
  BY <1>1, <1>2
<1> QED
  BY <1>9, <1>11, <1>12, <1>13, <1>14, QuietStep

-----------------------------------------------------------------------------
(* The other kernels move the queries of one slot on.                      *)
Moved(old, new) == new = old \/ new \in Rounds!Successors(old)

Apart(u) ==
  /\ UNCHANGED <<slot[u], compute[u], requests[u], response[u], state[u]>>
  /\ \A q \in Queries : Owns(u, q) => expanded'[q] = expanded[q] /\ merged'[q] = merged[q]

LEMMA ApartRounds ==
  ASSUME RoundsInvariant, UNCHANGED <<io, served>>, NEW u \in PoolSlots, Apart(u)
  PROVE  /\ RequestsOfRound(u)' /\ Rows(u)'
         /\ \A q \in Queries : Owns(u, q)' <=> Owns(u, q)
         /\ \A q \in Queries : Owns(u, q) => InItsRound(u, q)' /\ SeenAt(u, q)' = SeenAt(u, q)
<1>1. UNCHANGED <<slot[u], compute[u], requests[u], response[u], state[u], io, served>>
  BY DEF Apart
<1>2. /\ RequestsOfRound(u) /\ Rows(u)
      /\ \A q \in Queries : Owns(u, q) => InItsRound(u, q)
  BY DEF RoundsInvariant
<1>3. \A q \in Queries : Owns(u, q)' <=> Owns(u, q)
  BY <1>1 DEF Owns, Batch
<1>4. Rows(u)'
  BY <1>1, <1>2 DEF Rows
<1>5. ASSUME NEW q \in Queries, Owns(u, q)
      PROVE  /\ InItsRound(u, q)' /\ SeenAt(u, q)' = SeenAt(u, q)
             /\ SelectedAt(u, q)' = SelectedAt(u, q)
             /\ \A k : RowFor(u, q, k)' = RowFor(u, q, k)
  <2>1. expanded'[q] = expanded[q] /\ merged'[q] = merged[q]
    BY <1>5 DEF Apart
  <2>2. SelectedAt(u, q)' = SelectedAt(u, q) /\ ActiveAt(u, q)' = ActiveAt(u, q)
    BY <1>1 DEF SelectedAt, ActiveAt
  <2>3. SeenAt(u, q)' = SeenAt(u, q)
    BY <1>1, <2>1, <2>2 DEF SeenAt
  <2>4. \A k : RowFor(u, q, k)' = RowFor(u, q, k)
    BY <2>1, <2>2 DEF RowFor
  <2>5. \A k : (Arrived(u, q, k)' <=> Arrived(u, q, k)) /\ (Coming(u, q, k)' <=> Coming(u, q, k))
    BY <1>1, <2>4 DEF Arrived, Coming, ToRead
  <2>6. (Merged(u)' <=> Merged(u)) /\ (Merging(u)' <=> Merging(u))
    BY <1>1 DEF Merged, Merging
  <2>7. InItsRound(u, q)'
    BY <1>1, <1>2, <1>5, <2>1, <2>2, <2>5, <2>6 DEF InItsRound, RowsTo
  <2> QED
    BY <2>2, <2>3, <2>4, <2>7
<1>6. RequestsOfRound(u)'
  <2>1. ASSUME NEW request, AskedFor(u, request) PROVE AskedFor(u, request)'
    <3>1. PICK q \in Queries :
            Owns(u, q) /\ \E k \in 1 .. SelectedAt(u, q) :
              request = [place |-> q - slot[u].offset, index |-> k, row |-> RowFor(u, q, k)]
      BY <2>1 DEF AskedFor
    <3> QED
      BY <1>1, <1>3, <1>5, <3>1 DEF AskedFor
  <2>2. Asking(u)' <=> Asking(u)
    BY <1>1 DEF Asking
  <2> QED
    BY <1>1, <1>2, <2>1, <2>2 DEF RequestsOfRound
<1> QED
  BY <1>3, <1>4, <1>5, <1>6

OthersApart(s) ==
  /\ UNCHANGED <<next, slot, io, served>>
  /\ \A u \in PoolSlots \ {s} : Apart(u)
  /\ \A q \in Queries : ~Owns(s, q) => expanded'[q] = expanded[q] /\ merged'[q] = merged[q]

LEMMA OwnRounds ==
  ASSUME PoolInvariant, RoundsInvariant, NEW s \in PoolSlots, OthersApart(s),
         RequestsOfRound(s)', Rows(s)', DOMAIN response' = PoolSlots,
         \A q \in Queries : Owns(s, q) => InItsRound(s, q)'
  PROVE  RoundsInvariant'
<1>1. UNCHANGED <<next, slot, io, served>>
  BY DEF OthersApart
<1>2. \A u \in PoolSlots, q \in Queries : Owns(u, q)' <=> Owns(u, q)
  BY <1>1 DEF Owns, Batch
<1>3. \A u \in PoolSlots \ {s} : RequestsOfRound(u)' /\ Rows(u)'
  BY <1>1, ApartRounds DEF OthersApart
<1>4. \A u \in PoolSlots, q \in Queries : Owns(u, q) => InItsRound(u, q)'
  <2>1. \A u \in PoolSlots \ {s}, q \in Queries : Owns(u, q) => InItsRound(u, q)'
    BY <1>1, ApartRounds DEF OthersApart
  <2> QED
    BY <2>1
<1>5. ASSUME NEW q \in Queries, q > next PROVE expanded'[q] = 0 /\ merged'[q] = {}
  <2>1. ~Owns(s, q)
    BY <1>5, Positions DEF RoundsInvariant
  <2> QED
    BY <1>5, <2>1 DEF RoundsInvariant, OthersApart
<1> QED
  BY <1>1, <1>2, <1>3, <1>4, <1>5 DEF RoundsInvariant

LEMMA OwnSeen ==
  ASSUME PoolInvariant, RoundsInvariant, SeenAsIs, SeenAsIs', NEW s \in PoolSlots, OthersApart(s),
         \A q \in Queries : Owns(s, q) => Moved(SeenAt(s, q), SeenAt(s, q)')
  PROVE  \A q \in Queries : Moved(Seen(q), Seen(q)')
<1> SUFFICES ASSUME NEW q \in Queries PROVE Moved(Seen(q), Seen(q)')
  OBVIOUS
<1>1. UNCHANGED <<next, slot, io, served>>
  BY DEF OthersApart
<1>2. \A u \in PoolSlots : Owns(u, q)' <=> Owns(u, q)
  BY <1>1 DEF Owns, Batch
<1>3. CASE Owns(s, q)
  <2>1. Seen(q) = SeenAt(s, q) /\ Seen(q)' = SeenAt(s, q)'
    BY <1>2, <1>3 DEF SeenAsIs
  <2> QED
    BY <1>3, <2>1
<1>4. CASE ~Owns(s, q)
  <2>1. expanded'[q] = expanded[q] /\ merged'[q] = merged[q]
    BY <1>4 DEF OthersApart
  <2>2. CASE \E u \in PoolSlots : Owns(u, q)
    <3>1. PICK u \in PoolSlots \ {s} : Owns(u, q)
      BY <1>4, <2>2
    <3>2. SeenAt(u, q)' = SeenAt(u, q)
      BY <1>1, <3>1, ApartRounds DEF OthersApart
    <3>3. Seen(q) = SeenAt(u, q) /\ Seen(q)' = SeenAt(u, q)'
      BY <1>2, <3>1 DEF SeenAsIs
    <3> QED
      BY <3>2, <3>3 DEF Moved
  <2>3. CASE (\A u \in PoolSlots : ~Owns(u, q)) /\ q <= next
    <3>1. Seen(q) = [phase |-> "ended", expanded |-> expanded[q], merged |-> Numbers(q)]
      BY <2>3 DEF SeenAsIs
    <3>2. Seen(q)' = [phase |-> "ended", expanded |-> expanded'[q], merged |-> Numbers(q)']
      BY <1>1, <1>2, <2>3 DEF SeenAsIs
    <3>3. Numbers(q)' = Numbers(q)
      BY <2>1 DEF Numbers
    <3> QED
      BY <2>1, <3>1, <3>2, <3>3 DEF Moved
  <2>4. CASE q > next
    BY <1>1, <2>4 DEF SeenAsIs, Moved
  <2> QED
    BY <2>2, <2>3, <2>4, Positions
<1> QED
  BY <1>3, <1>4

LEMMA Transitions ==
  ASSUME NEW e, NEW d
  PROVE  LET seen(phase) == [phase |-> phase, expanded |-> e, merged |-> d]
         IN  /\ \A p \in {"selecting", "ended"} : seen(p) \in Rounds!Successors(seen("waiting"))
             /\ seen("ended") \in Rounds!Successors(seen("selecting"))
             /\ e < MaxExpansions => \A n \in 1 .. Width :
                  [phase |-> "merging", expanded |-> e + n, merged |-> d]
                    \in Rounds!Successors(seen("selecting"))
             /\ [phase |-> "selecting", expanded |-> e, merged |-> 1 .. e]
                  \in Rounds!Successors(seen("merging"))
<1> DEFINE seen(phase) == [phase |-> phase, expanded |-> e, merged |-> d]
<1>1. \A p \in {"selecting", "ended"} : seen(p) \in Rounds!Successors(seen("waiting"))
  BY DEF Rounds!Successors
<1>2. ASSUME NEW old, old = seen("selecting") PROVE seen("ended") \in Rounds!Successors(old)
  <2>1. old \in [phase : {"selecting"}, expanded : {e}, merged : {d}]
    BY <1>2
  <2>2. [old EXCEPT !.phase = "ended"] = seen("ended")
    BY <2>1
  <2>3. old.phase = "selecting"
    BY <1>2
  <2> QED
    BY <2>2, <2>3 DEF Rounds!Successors
<1>3. ASSUME NEW old, old = seen("selecting"), e < MaxExpansions, NEW n \in 1 .. Width
      PROVE  [phase |-> "merging", expanded |-> e + n, merged |-> d] \in Rounds!Successors(old)
  <2> DEFINE mid == [old EXCEPT !.phase = "merging"]
             new == [old EXCEPT !.phase = "merging", !.expanded = @ + n]
  <2>1. old \in [phase : {"selecting"}, expanded : {e}, merged : {d}]
    BY <1>3
  <2>2. mid = [phase |-> "merging", expanded |-> e, merged |-> d]
    BY <1>3, <2>1
  <2>3. new = [mid EXCEPT !.expanded = e + n]
    BY <1>3, <2>1
  <2>4. new = [phase |-> "merging", expanded |-> e + n, merged |-> d]
    <3> HIDE DEF mid, new
    <3>1. mid \in [phase : {"merging"}, expanded : {e}, merged : {d}]
      BY <2>2
    <3> QED
      BY <2>2, <2>3, <3>1
  <2>5. new \in Rounds!Successors(old)
    <3>1. old.phase = "selecting" /\ old.expanded < MaxExpansions
      BY <1>3
    <3> QED
      BY <3>1 DEF Rounds!Successors
  <2> QED
    BY <2>4, <2>5
<1>4. ASSUME NEW old, old = seen("merging")
      PROVE  [phase |-> "selecting", expanded |-> e, merged |-> 1 .. e] \in Rounds!Successors(old)
  <2> DEFINE mid == [old EXCEPT !.phase = "selecting"]
             new == [old EXCEPT !.phase = "selecting", !.merged = 1 .. e]
  <2>1. old \in [phase : {"merging"}, expanded : {e}, merged : {d}]
    BY <1>4
  <2>2. mid = [phase |-> "selecting", expanded |-> e, merged |-> d]
    BY <1>4, <2>1
  <2>3. new = [mid EXCEPT !.merged = 1 .. e]
    BY <2>1
  <2>4. new = [phase |-> "selecting", expanded |-> e, merged |-> 1 .. e]
    <3> HIDE DEF mid, new
    <3>1. mid \in [phase : {"selecting"}, expanded : {e}, merged : {d}]
      BY <2>2
    <3> QED
      BY <2>2, <2>3, <3>1
  <2>5. new \in Rounds!Successors(old)
    <3>1. old.phase = "merging" /\ old.expanded = e
      BY <1>4
    <3> QED
      BY <3>1 DEF Rounds!Successors
  <2> QED
    BY <2>4, <2>5
<1> QED
  BY <1>1, <1>2, <1>3, <1>4

LEMMA RoundsInitKernel ==
  ASSUME PoolInvariant, RoundsInvariant, NEW s \in PoolSlots, InitKernel(s)
  PROVE  /\ OthersApart(s) /\ RoundsInvariant'
         /\ \A q \in Queries : Owns(s, q) => Moved(SeenAt(s, q), SeenAt(s, q)')
<1>1. compute[s] = Fresh /\ compute' = [compute EXCEPT ![s] = Clearing]
  BY Executes DEF InitKernel
<1>2. UNCHANGED <<next, slot, io, served, requests, response, expanded, merged>>
  BY DEF InitKernel, hostVars, results
<1>3. PICK seeded \in SUBSET Batch(s) :
        state' = [state EXCEPT ![s] =
                    [i \in Places |->
                       IF i \in Batch(s) THEN [active |-> i \in seeded, selected |-> 0]
                       ELSE state[s][i]]]
  BY DEF InitKernel
<1>4. DOMAIN state = PoolSlots /\ DOMAIN compute = PoolSlots
  BY DEF PoolInvariant, PoolTypes
<1>5. compute'[s] = Clearing /\ Clearing # Fresh
  BY <1>1, <1>4, Streams
<1>6. OthersApart(s)
  BY <1>1, <1>2, <1>3, <1>4 DEF OthersApart, Apart
<1>7. ASSUME NEW q \in Queries, Owns(s, q)
      PROVE  /\ SelectedAt(s, q)' = 0 /\ ActiveAt(s, q)' \in BOOLEAN
             /\ expanded[q] = 0 /\ merged[q] = {}
  <2> DEFINE i == q - slot[s].offset
  <2>1. i \in Batch(s) /\ i \in Places
    BY <1>7, BatchOfQueries DEF Owns, PoolInvariant
  <2>2. state'[s][i] = [active |-> i \in seeded, selected |-> 0]
    BY <1>3, <1>4, <2>1
  <2>3. SelectedAt(s, q)' = state'[s][i].selected /\ ActiveAt(s, q)' = state'[s][i].active
    BY <1>2 DEF SelectedAt, ActiveAt
  <2>4. InItsRound(s, q)
    BY <1>7 DEF RoundsInvariant
  <2> HIDE DEF i
  <2> QED
    BY <1>1, <2>2, <2>3, <2>4 DEF InItsRound
<1>8. ASSUME NEW q \in Queries, Owns(s, q) PROVE InItsRound(s, q)'
  <2>1. RowsTo(q, 0 - 0) = {} /\ 0 \in 0 .. Width /\ 0 <= 0
    BY PipelineAssumption DEF RowsTo
  <2>2. ~Merging(s)'
    BY <1>5, Streams DEF Merging, SelectStreams, ResumeStreams
  <2>3. expanded'[q] = 0 /\ merged'[q] = {} /\ SelectedAt(s, q)' = 0
    BY <1>2, <1>7, <1>8
  <2> QED
    BY <1>5, <2>1, <2>2, <2>3 DEF InItsRound, RowsTo
<1>9. RequestsOfRound(s)' /\ Rows(s)' /\ DOMAIN response' = PoolSlots
  <2>1. ~Asking(s)' /\ compute'[s] # Selecting
    BY <1>5, Streams DEF Asking, SelectStreams, ResumeStreams
  <2> QED
    BY <1>2, <2>1 DEF RequestsOfRound, RoundsInvariant, Rows
<1>10. ASSUME NEW q \in Queries, Owns(s, q) PROVE Moved(SeenAt(s, q), SeenAt(s, q)')
  <2>1. SeenAt(s, q) = [phase |-> "waiting", expanded |-> 0, merged |-> {}]
    BY <1>1, <1>7, <1>10 DEF SeenAt
  <2>2. /\ SelectedAt(s, q)' = 0 /\ ActiveAt(s, q)' \in BOOLEAN
        /\ expanded'[q] = 0 /\ 1 .. (0 - 0) = {}
    BY <1>2, <1>7, <1>10
  <2>3. SeenAt(s, q)' = [phase |-> IF ~ActiveAt(s, q)' THEN "ended" ELSE "selecting",
                         expanded |-> 0, merged |-> {}]
    BY <1>5, <2>2 DEF SeenAt
  <2> QED
    BY <1>7, <1>10, <2>1, <2>3, Transitions DEF Moved
<1> QED
  BY <1>6, <1>8, <1>9, <1>10, OwnRounds

LEMMA RoundsResumeKernel ==
  ASSUME PoolInvariant, RoundsInvariant, NEW s \in PoolSlots, ResumeKernel(s)
  PROVE  /\ OthersApart(s) /\ RoundsInvariant'
         /\ \A q \in Queries : Owns(s, q) => Moved(SeenAt(s, q), SeenAt(s, q)')
<1>1. /\ compute[s] = Resuming /\ compute' = [compute EXCEPT ![s] = Copying]
      /\ slot[s].phase = "round pending"
  BY Executes DEF ResumeKernel, ResumeStreams
<1>2. UNCHANGED <<next, slot, io, served, requests, response, expanded>>
  BY DEF ResumeKernel, hostVars
<1>3. /\ state' = [state EXCEPT ![s] =
           [i \in Places |-> IF i \in Batch(s) THEN [active |-> state[s][i].active, selected |-> 0]
                             ELSE state[s][i]]]
      /\ merged' = [q \in Queries |->
           IF q - slot[s].offset \in Batch(s)
           THEN merged[q] \cup Consumed(s, q - slot[s].offset) ELSE merged[q]]
  BY DEF ResumeKernel
<1>4. DOMAIN state = PoolSlots /\ DOMAIN compute = PoolSlots
  BY DEF PoolInvariant, PoolTypes
<1>5. compute'[s] = Copying /\ Copying # Fresh /\ Resuming # Fresh
  BY <1>1, <1>4, Streams DEF SelectStreams, ResumeStreams
<1>6. OthersApart(s)
  <2>1. \A q \in Queries : ~Owns(s, q) => merged'[q] = merged[q]
    BY <1>3 DEF Owns
  <2>2. \A u \in PoolSlots \ {s}, q \in Queries : Owns(u, q) => ~Owns(s, q)
    BY DEF RoundsInvariant
  <2> QED
    BY <1>1, <1>2, <1>3, <1>4, <2>1, <2>2 DEF OthersApart, Apart
<1>7. \A r : ~ToRead(s, r)
  <2>1. ~Awaited(s)
    BY <1>1, Streams DEF Awaited
  <2>2. \A n \in DOMAIN io : io[n].slot # s
    BY <2>1 DEF PoolInvariant, ReadsAwaited
  <2>3. \A n \in DOMAIN io : io[n] # [kind |-> "read", slot |-> s]
    <3>1. [kind |-> "read", slot |-> s].slot = s
      OBVIOUS
    <3> QED
      BY <2>2, <3>1
  <2> QED
    BY <1>1, <2>3 DEF ToRead
<1>8. ASSUME NEW q \in Queries, Owns(s, q)
      PROVE  /\ SelectedAt(s, q)' = 0
             /\ ActiveAt(s, q)' = ActiveAt(s, q)
             /\ (ActiveAt(s, q) <=> SelectedAt(s, q) # 0)
             /\ SelectedAt(s, q) \in Nat /\ expanded[q] \in Nat /\ SelectedAt(s, q) <= expanded[q]
             /\ merged'[q] = RowsTo(q, expanded[q])
  <2> DEFINE i == q - slot[s].offset
             m == SelectedAt(s, q)
  <2>1. i \in Batch(s) /\ i \in Places
    BY <1>8, BatchOfQueries DEF Owns, PoolInvariant
  <2>2. state'[s][i] = [active |-> state[s][i].active, selected |-> 0]
    BY <1>3, <1>4, <2>1
  <2>3. SelectedAt(s, q)' = state'[s][i].selected /\ ActiveAt(s, q)' = state'[s][i].active
    BY <1>2 DEF SelectedAt, ActiveAt
  <2>4. SelectedAt(s, q)' = 0 /\ ActiveAt(s, q)' = ActiveAt(s, q)
    BY <2>2, <2>3 DEF ActiveAt
  <2>5. /\ m \in Nat /\ m <= expanded[q]
        /\ merged[q] = RowsTo(q, expanded[q] - m)
        /\ (ActiveAt(s, q) <=> m # 0)
        /\ \A k \in 1 .. m : Arrived(s, q, k)
    <3>1. InItsRound(s, q) /\ Merging(s)
      BY <1>1, <1>8 DEF RoundsInvariant, Merging
    <3>2. \A k : ~Coming(s, q, k)
      BY <1>7 DEF Coming
    <3>3. /\ m \in 0 .. Width /\ m <= expanded[q]
          /\ merged[q] = RowsTo(q, expanded[q] - m)
          /\ (ActiveAt(s, q) <=> m # 0)
          /\ \A k \in 1 .. m : Arrived(s, q, k) \/ Coming(s, q, k)
      BY <1>1, <1>5, <3>1 DEF InItsRound
    <3>4. m \in Nat
      BY <3>3
    <3> HIDE DEF m
    <3> QED
      BY <3>2, <3>3, <3>4
  <2>6. expanded[q] \in Nat
    BY ExpandedType DEF PoolInvariant
  <2>7. Consumed(s, i) = {<<q, expanded[q] - m + k>> : k \in 1 .. m}
    <3>1. \A k \in 1 .. m : response[s][i][k] = <<q, expanded[q] - m + k>>
      BY <2>5 DEF Arrived, RowFor
    <3>2. state[s][i].active = ActiveAt(s, q) /\ state[s][i].selected = m
      BY DEF ActiveAt, SelectedAt
    <3>3. ActiveAt(s, q) <=> m # 0
      BY <2>5
    <3> HIDE DEF m
    <3>4. CASE m = 0
      <4>1. Consumed(s, i) = {}
        BY <3>2, <3>3, <3>4 DEF Consumed
      <4>2. 1 .. m = {}
        BY <3>4
      <4> QED
        BY <4>1, <4>2
    <3>5. CASE m # 0
      <4>1. Consumed(s, i) = {response[s][i][k] : k \in 1 .. m}
        BY <3>2, <3>3, <3>5 DEF Consumed
      <4> QED
        BY <3>1, <4>1
    <3> QED
      BY <3>4, <3>5
  <2>8. merged'[q] = RowsTo(q, expanded[q])
    <3>1. merged'[q] = RowsTo(q, expanded[q] - m) \cup {<<q, expanded[q] - m + k>> : k \in 1 .. m}
      BY <1>3, <2>1, <2>5, <2>7
    <3> DEFINE e == expanded[q]
    <3> HIDE DEF m, e
    <3>2. \A k \in 1 .. m : e - m + k \in 1 .. e
      BY <2>5, <2>6 DEF e
    <3>3. \A n \in 1 .. e : n \in 1 .. (e - m) \/ (n - (e - m) \in 1 .. m /\ e - m + (n - (e - m)) = n)
      BY <2>5, <2>6 DEF e
    <3>4. \A n \in 1 .. (e - m) : n \in 1 .. e
      BY <2>5, <2>6 DEF e
    <3> QED
      BY <3>1, <3>2, <3>3, <3>4 DEF RowsTo, e
  <2> QED
    BY <2>4, <2>5, <2>6, <2>8
<1>9. ASSUME NEW q \in Queries, Owns(s, q) PROVE InItsRound(s, q)'
  <2>1. SelectedAt(s, q)' = 0 /\ merged'[q] = RowsTo(q, expanded[q]) /\ expanded[q] \in Nat
    BY <1>8, <1>9
  <2>2. expanded'[q] - 0 = expanded[q] /\ 0 <= expanded'[q] /\ 0 \in 0 .. Width
    BY <1>2, <2>1, PipelineAssumption
  <2>3. ~Merging(s)'
    BY <1>5, Streams DEF Merging, SelectStreams, ResumeStreams
  <2> QED
    BY <1>5, <2>1, <2>2, <2>3 DEF InItsRound, RowsTo
<1>10. RequestsOfRound(s)' /\ Rows(s)' /\ DOMAIN response' = PoolSlots
  <2>1. ~Asking(s)' /\ compute'[s] # Selecting
    BY <1>5, Streams DEF Asking, SelectStreams, ResumeStreams
  <2> QED
    BY <1>2, <2>1 DEF RequestsOfRound, RoundsInvariant, Rows
<1>11. ASSUME NEW q \in Queries, Owns(s, q) PROVE Moved(SeenAt(s, q), SeenAt(s, q)')
  <2> DEFINE m == SelectedAt(s, q)
             e == expanded[q]
  <2>1. /\ SelectedAt(s, q)' = 0 /\ ActiveAt(s, q)' = ActiveAt(s, q)
        /\ (ActiveAt(s, q) <=> m # 0) /\ e \in Nat /\ e - 0 = e
    BY <1>8, <1>11
  <2>2. SeenAt(s, q) = [phase |-> IF ~ActiveAt(s, q) THEN "ended" ELSE "merging",
                        expanded |-> e, merged |-> 1 .. (e - m)]
    BY <1>1, <1>5, <2>1 DEF SeenAt
  <2>3. SeenAt(s, q)' = [phase |-> IF ~ActiveAt(s, q) THEN "ended" ELSE "selecting",
                         expanded |-> e, merged |-> 1 .. e]
    BY <1>2, <1>5, <2>1 DEF SeenAt
  <2>4. CASE ~ActiveAt(s, q)
    <3>1. e - m = e
      BY <2>1, <2>4
    <3> QED
      BY <2>2, <2>3, <2>4, <3>1 DEF Moved
  <2>5. CASE ActiveAt(s, q)
    <3> HIDE DEF e, m
    <3> QED
      BY <2>2, <2>3, <2>5, Transitions DEF Moved
  <2> QED
    BY <2>4, <2>5
<1> QED
  BY <1>6, <1>9, <1>10, <1>11, OwnRounds

(* The sequence of a finite set lists just its elements.                   *)
LEMMA ListsAll ==
  ASSUME NEW S, IsFiniteSet(S)
  PROVE  /\ SetToSeq(S) \in Seq(S)
         /\ \A x \in S : \E r \in DOMAIN SetToSeq(S) : SetToSeq(S)[r] = x
<1>1. PICK n \in Nat : ExistsBijection(1 .. n, S) /\ n = Cardinality(S)
  BY FS_CardinalityType
<1>2. PICK b \in Bijection(1 .. n, S) : TRUE
  BY <1>1 DEF ExistsBijection
<1>3. \E f \in [1 .. n -> S] : IsInjective(f)
  BY <1>2 DEF Bijection, Injection
<1>4. SetToSeq(S) \in [1 .. n -> S] /\ IsInjective(SetToSeq(S))
  BY <1>1, <1>3 DEF SetToSeq
<1>5. SetToSeq(S) \in Injection(1 .. n, S)
  BY <1>4 DEF Injection
<1>6. IsFiniteSet(1 .. n) /\ Cardinality(1 .. n) = n
  BY <1>1, FS_Interval
<1>7. SetToSeq(S) \in Surjection(1 .. n, S)
  BY <1>1, <1>5, <1>6, FS_PigeonHole, FS_Injection
<1> QED
  BY <1>1, <1>4, <1>7 DEF Surjection

LEMMA SelectsRows ==
  ASSUME Width <= Warps, PoolInvariant, RoundsInvariant, NEW s \in PoolSlots, SelectKernel(s)
  PROVE  /\ compute[s] = Selecting /\ compute'[s] = Selected /\ slot[s].phase = "select pending"
         /\ OthersApart(s) /\ Rows(s)' /\ DOMAIN response' = PoolSlots
         /\ \E selects \in [Batch(s) -> 0 .. Width] :
              /\ \A i \in Batch(s) :
                   /\ selects[i] \in Counts(s, i)
                   /\ state'[s][i] = [active |-> selects[i] # 0, selected |-> selects[i]]
                   /\ \A k \in 1 .. selects[i] :
                        \/ response'[s][i][k] = RowOf(s, i, k)
                        \/ \E r \in DOMAIN requests'[s].list : requests'[s].list[r]
                             = [place |-> i, index |-> k, row |-> RowOf(s, i, k)]
              /\ \A r \in DOMAIN requests'[s].list :
                   \E i \in Batch(s), k \in 1 .. Width :
                     k \in 1 .. selects[i] /\ requests'[s].list[r]
                       = [place |-> i, index |-> k, row |-> RowOf(s, i, k)]
              /\ \A q \in Queries : Owns(s, q) =>
                   expanded'[q] = expanded[q] + selects[q - slot[s].offset]
<1> DEFINE asked(uncached) == {[place |-> p[1], index |-> p[2], row |-> RowOf(s, p[1], p[2])]
                                 : p \in uncached}
           places == Batch(s) \X (1 .. Width)
           staged(selects) == {p \in places : p[2] \in Staged(selects[p[1]])}
<1>1. /\ compute[s] = Selecting /\ compute' = [compute EXCEPT ![s] = Selected]
      /\ slot[s].phase = "select pending"
  BY Executes DEF SelectKernel, SelectStreams
<1>2. UNCHANGED <<next, slot, io, served, merged>>
  BY DEF SelectKernel, hostVars
<1>3. PICK selects \in {f \in [Batch(s) -> 0 .. Width] : \A i \in Batch(s) : f[i] \in Counts(s, i)} :
        \E uncached \in SUBSET staged(selects) :
        /\ requests' = [requests EXCEPT ![s] = Append2(s, SetToSeq(asked(uncached)))]
        /\ response' = [response EXCEPT ![s] =
             [i \in Places |-> [k \in 1 .. Width |->
                IF <<i, k>> \in staged(selects) \ uncached THEN RowOf(s, i, k) ELSE @[i][k]]]]
        /\ state' = [state EXCEPT ![s] =
             [i \in Places |->
                IF i \in Batch(s)
                THEN [active |-> selects[i] # 0, selected |-> selects[i]]
                ELSE @[i]]]
        /\ expanded' = [q \in Queries |->
             IF q - slot[s].offset \in Batch(s)
             THEN expanded[q] + selects[q - slot[s].offset] ELSE expanded[q]]
  BY DEF SelectKernel
<1>4. PICK uncached \in SUBSET staged(selects) :
        /\ requests' = [requests EXCEPT ![s] = Append2(s, SetToSeq(asked(uncached)))]
        /\ response' = [response EXCEPT ![s] =
             [i \in Places |-> [k \in 1 .. Width |->
                IF <<i, k>> \in staged(selects) \ uncached THEN RowOf(s, i, k) ELSE @[i][k]]]]
        /\ state' = [state EXCEPT ![s] =
             [i \in Places |->
                IF i \in Batch(s)
                THEN [active |-> selects[i] # 0, selected |-> selects[i]]
                ELSE @[i]]]
        /\ expanded' = [q \in Queries |->
             IF q - slot[s].offset \in Batch(s)
             THEN expanded[q] + selects[q - slot[s].offset] ELSE expanded[q]]
  BY <1>3
<1>5. /\ DOMAIN state = PoolSlots /\ DOMAIN compute = PoolSlots /\ DOMAIN requests = PoolSlots
      /\ DOMAIN response = PoolSlots
  BY DEF PoolInvariant, PoolTypes, RoundsInvariant
<1>6. compute'[s] = Selected
  BY <1>1, <1>5
<1>7. OthersApart(s)
  <2>1. \A q \in Queries : ~Owns(s, q) => expanded'[q] = expanded[q]
    BY <1>4 DEF Owns
  <2>2. \A u \in PoolSlots \ {s}, q \in Queries : Owns(u, q) => ~Owns(s, q)
    BY DEF RoundsInvariant
  <2> QED
    BY <1>1, <1>2, <1>4, <1>5, <2>1, <2>2 DEF OthersApart, Apart
<1>8. DOMAIN response' = PoolSlots /\ Rows(s)'
  BY <1>4, <1>5 DEF Rows
<1>9. /\ requests'[s].list = SetToSeq(asked(uncached))
      /\ \A x \in asked(uncached) : \E r \in DOMAIN requests'[s].list : requests'[s].list[r] = x
      /\ \A r \in DOMAIN requests'[s].list : requests'[s].list[r] \in asked(uncached)
  <2> DEFINE new == SetToSeq(asked(uncached))
  <2>1. IsFiniteSet(places)
    <3>1. IsFiniteSet(Batch(s))
      BY BatchSizeIs, SlotTypes DEF PoolInvariant
    <3>2. IsFiniteSet(1 .. Width)
      BY FS_Interval, PipelineAssumption
    <3> QED
      BY <3>1, <3>2, FS_Product
  <2>2. IsFiniteSet(asked(uncached))
    <3> DEFINE request(p) == [place |-> p[1], index |-> p[2], row |-> RowOf(s, p[1], p[2])]
               f == [p \in uncached |-> request(p)]
    <3>1. f \in Surjection(uncached, asked(uncached))
      BY DEF Surjection
    <3>2. IsFiniteSet(uncached)
      BY <2>1, FS_Subset
    <3> QED
      BY <3>1, <3>2, FS_Surjection
  <2>3. /\ new \in Seq(asked(uncached))
        /\ \A x \in asked(uncached) : \E r \in DOMAIN new : new[r] = x
    BY <2>2, ListsAll
  <2>4. Len(new) \in 0 .. Capacity
    BY RequestsFit DEF PoolInvariant
  <2>5. requests[s].list = <<>>
    BY <1>1 DEF RoundsInvariant, RequestsOfRound
  <2>6. requests'[s].list = SubSeq(<<>> \o new, 1, LesserOf(Capacity, 0 + Len(new)))
    BY <1>4, <1>5, <2>5 DEF Append2
  <2> HIDE DEF new, asked
  <2>7. LesserOf(Capacity, 0 + Len(new)) = Len(new)
    BY <2>4, CapacityType DEF LesserOf
  <2>8. <<>> \o new = new
    BY <2>3
  <2>9. SubSeq(new, 1, Len(new)) = new
    BY <2>3
  <2>10. requests'[s].list = new
    BY <2>6, <2>7, <2>8, <2>9
  <2>11. \A r \in DOMAIN new : new[r] \in asked(uncached)
    BY <2>3
  <2> QED
    BY <2>3, <2>10, <2>11 DEF new
<1>10. ASSUME NEW i \in Batch(s)
      PROVE  /\ i \in Places /\ state'[s][i] = [active |-> selects[i] # 0, selected |-> selects[i]]
             /\ Staged(selects[i]) = 1 .. selects[i]
             /\ \A k \in 1 .. selects[i] : k \in 1 .. Width /\ <<i, k>> \in staged(selects)
  <2>1. i \in Places
    BY BatchOfQueries DEF PoolInvariant
  <2>2. selects[i] \in 0 .. Width /\ Width \in Nat /\ Warps \in Nat /\ Width <= Warps
    BY <1>3, PipelineAssumption
  <2>3. Staged(selects[i]) = 1 .. selects[i]
    BY <2>2 DEF Staged, LesserOf
  <2>4. \A k \in 1 .. selects[i] : k \in 1 .. Width
    BY <2>2
  <2> QED
    BY <1>4, <1>5, <2>1, <2>3, <2>4
<1>11. ASSUME NEW i \in Batch(s), NEW k \in 1 .. selects[i]
       PROVE  \/ response'[s][i][k] = RowOf(s, i, k)
              \/ \E r \in DOMAIN requests'[s].list : requests'[s].list[r]
                   = [place |-> i, index |-> k, row |-> RowOf(s, i, k)]
  <2>1. i \in Places /\ k \in 1 .. Width /\ <<i, k>> \in staged(selects)
    BY <1>10
  <2>2. CASE <<i, k>> \in uncached
    <3>1. [place |-> i, index |-> k, row |-> RowOf(s, i, k)] \in asked(uncached)
      BY <2>2
    <3> QED
      BY <1>9, <3>1
  <2>3. CASE <<i, k>> \notin uncached
    <3>1. response'[s][i][k] = RowOf(s, i, k)
      BY <1>4, <1>5, <2>1, <2>3
    <3> QED
      BY <3>1
  <2> QED
    BY <2>2, <2>3
<1>12. ASSUME NEW r \in DOMAIN requests'[s].list
       PROVE  \E i \in Batch(s), k \in 1 .. Width :
                k \in 1 .. selects[i] /\ requests'[s].list[r]
                  = [place |-> i, index |-> k, row |-> RowOf(s, i, k)]
  <2>1. PICK p \in uncached :
          requests'[s].list[r] = [place |-> p[1], index |-> p[2], row |-> RowOf(s, p[1], p[2])]
    BY <1>9
  <2>2. p[1] \in Batch(s) /\ p[2] \in 1 .. Width /\ p[2] \in Staged(selects[p[1]])
    BY <1>4
  <2> QED
    BY <1>10, <2>1, <2>2
<1>13. \A q \in Queries : Owns(s, q) =>
         expanded'[q] = expanded[q] + selects[q - slot[s].offset]
  BY <1>4 DEF Owns
<1>14. \E choice \in [Batch(s) -> 0 .. Width] :
         /\ \A i \in Batch(s) :
              /\ choice[i] \in Counts(s, i)
              /\ state'[s][i] = [active |-> choice[i] # 0, selected |-> choice[i]]
              /\ \A k \in 1 .. choice[i] :
                   \/ response'[s][i][k] = RowOf(s, i, k)
                   \/ \E r \in DOMAIN requests'[s].list : requests'[s].list[r]
                        = [place |-> i, index |-> k, row |-> RowOf(s, i, k)]
         /\ \A r \in DOMAIN requests'[s].list :
              \E i \in Batch(s), k \in 1 .. Width :
                k \in 1 .. choice[i] /\ requests'[s].list[r]
                  = [place |-> i, index |-> k, row |-> RowOf(s, i, k)]
         /\ \A q \in Queries : Owns(s, q) =>
              expanded'[q] = expanded[q] + choice[q - slot[s].offset]
  <2>1. selects \in [Batch(s) -> 0 .. Width] /\ \A i \in Batch(s) : selects[i] \in Counts(s, i)
    BY <1>3
  <2>2. WITNESS selects \in [Batch(s) -> 0 .. Width]
  <2> QED
    BY <1>10, <1>11, <1>12, <1>13, <2>1
<1> QED
  BY <1>1, <1>6, <1>7, <1>8, <1>14

LEMMA RoundsSelectKernel ==
  ASSUME Width <= Warps, PoolInvariant, RoundsInvariant, NEW s \in PoolSlots, SelectKernel(s)
  PROVE  /\ OthersApart(s) /\ RoundsInvariant'
         /\ \A q \in Queries : Owns(s, q) => Moved(SeenAt(s, q), SeenAt(s, q)')
<1>1. /\ compute[s] = Selecting /\ compute'[s] = Selected /\ slot[s].phase = "select pending"
      /\ OthersApart(s) /\ Rows(s)' /\ DOMAIN response' = PoolSlots
  BY SelectsRows
<1>2. PICK selects \in [Batch(s) -> 0 .. Width] :
        /\ \A i \in Batch(s) :
             /\ selects[i] \in Counts(s, i)
             /\ state'[s][i] = [active |-> selects[i] # 0, selected |-> selects[i]]
             /\ \A k \in 1 .. selects[i] :
                  \/ response'[s][i][k] = RowOf(s, i, k)
                  \/ \E r \in DOMAIN requests'[s].list : requests'[s].list[r]
                       = [place |-> i, index |-> k, row |-> RowOf(s, i, k)]
        /\ \A r \in DOMAIN requests'[s].list :
             \E i \in Batch(s), k \in 1 .. Width :
               k \in 1 .. selects[i] /\ requests'[s].list[r]
                 = [place |-> i, index |-> k, row |-> RowOf(s, i, k)]
        /\ \A q \in Queries : Owns(s, q) =>
             expanded'[q] = expanded[q] + selects[q - slot[s].offset]
  BY SelectsRows
<1>3. Selecting # Fresh /\ Selected # Fresh /\ Selected # Selecting
  BY Streams
<1>4. UNCHANGED <<next, slot, io, served>> /\ merged' = merged
  BY <1>1 DEF OthersApart, SelectKernel
<1>5. ASSUME NEW q \in Queries, Owns(s, q), NEW i, i = q - slot[s].offset, NEW n, n = selects[i]
      PROVE  /\ i \in Batch(s) /\ q = QueryAt(s, i)
             /\ n \in 0 .. Width /\ n \in Counts(s, i)
             /\ expanded[q] \in Nat /\ expanded'[q] = expanded[q] + n
             /\ SelectedAt(s, q) = 0 /\ merged[q] = RowsTo(q, expanded[q])
             /\ SelectedAt(s, q)' = n /\ (ActiveAt(s, q)' <=> n # 0)
             /\ expanded'[q] - n = expanded[q]
             /\ \A k : RowFor(s, q, k)' = RowOf(s, i, k)
  <2>1. i \in Batch(s)
    BY <1>5 DEF Owns
  <2>2. q = QueryAt(s, i)
    <3>1. q \in Nat /\ slot[s].offset \in Nat
      BY Positions, SlotTypes DEF PoolInvariant
    <3> QED
      BY <1>5, <3>1 DEF QueryAt
  <2>3. n \in 0 .. Width /\ n \in Counts(s, i)
    BY <1>2, <1>5, <2>1
  <2>4. expanded[q] \in Nat /\ expanded'[q] = expanded[q] + n
    BY <1>2, <1>5, ExpandedType DEF PoolInvariant
  <2>5. SelectedAt(s, q) = 0 /\ merged[q] = RowsTo(q, expanded[q])
    <3>1. InItsRound(s, q) /\ Merged(s)
      BY <1>1, <1>5 DEF RoundsInvariant, Merged
    <3>2. expanded[q] - 0 = expanded[q]
      BY <2>4
    <3> QED
      BY <1>1, <1>3, <3>1, <3>2 DEF InItsRound
  <2>6. SelectedAt(s, q)' = n /\ (ActiveAt(s, q)' <=> n # 0)
    <3>1. state'[s][i] = [active |-> n # 0, selected |-> n]
      BY <1>2, <1>5, <2>1
    <3>2. SelectedAt(s, q)' = state'[s][i].selected /\ ActiveAt(s, q)' = state'[s][i].active
      BY <1>4, <1>5 DEF SelectedAt, ActiveAt
    <3>3. state'[s][i].selected = n
      BY <3>1
    <3>4. state'[s][i].active = (n # 0)
      BY <3>1
    <3> QED
      BY <3>2, <3>3, <3>4, Zenon
  <2>7. n \in Nat
    BY <2>3
  <2>8. expanded'[q] - n = expanded[q]
    BY <2>4, <2>7
  <2>9. \A k : RowFor(s, q, k)' = RowOf(s, i, k)
    BY <2>2, <2>6, <2>8 DEF RowFor, RowOf
  <2> QED
    BY <2>1, <2>2, <2>3, <2>4, <2>5, <2>6, <2>8, <2>9
<1>6. ASSUME NEW q \in Queries, Owns(s, q), NEW i, i = q - slot[s].offset, NEW n, n = selects[i]
      PROVE  InItsRound(s, q)'
  <2>1. /\ i \in Batch(s) /\ q = QueryAt(s, i) /\ n \in 0 .. Width
        /\ expanded[q] \in Nat /\ expanded'[q] = expanded[q] + n
        /\ merged[q] = RowsTo(q, expanded[q])
        /\ SelectedAt(s, q)' = n /\ (ActiveAt(s, q)' <=> n # 0)
        /\ expanded'[q] - n = expanded[q]
        /\ \A k : RowFor(s, q, k)' = RowOf(s, i, k)
    BY <1>5, <1>6
  <2>2. ASSUME NEW k \in 1 .. n PROVE Arrived(s, q, k)' \/ Coming(s, q, k)'
    <3>1. CASE response'[s][i][k] = RowOf(s, i, k)
      BY <1>4, <1>6, <2>1, <3>1 DEF Arrived
    <3>2. CASE \E r \in DOMAIN requests'[s].list : requests'[s].list[r]
                 = [place |-> i, index |-> k, row |-> RowOf(s, i, k)]
      <4>1. PICK r \in DOMAIN requests'[s].list : requests'[s].list[r]
              = [place |-> i, index |-> k, row |-> RowOf(s, i, k)]
        BY <3>2
      <4>2. requests'[s].list[r].place = i /\ requests'[s].list[r].index = k
        BY <4>1
      <4>3. ToRead(s, r)'
        BY <1>1, <1>4 DEF ToRead
      <4> QED
        BY <1>4, <1>6, <4>2, <4>3 DEF Coming
    <3> QED
      BY <1>2, <1>6, <2>1, <3>1, <3>2
  <2>3. ~Merged(s)'
    BY <1>1, <1>3, Streams DEF Merged, SelectStreams, ResumeStreams
  <2>4. n <= expanded'[q]
    BY <2>1
  <2> QED
    BY <1>1, <1>3, <1>4, <2>1, <2>2, <2>3, <2>4 DEF InItsRound, RowsTo
<1>7. RequestsOfRound(s)'
  <2>1. ASSUME NEW r \in DOMAIN requests'[s].list, NEW request, request = requests'[s].list[r]
        PROVE  AskedFor(s, request)'
    <3>1. PICK i \in Batch(s), k \in 1 .. Width :
            k \in 1 .. selects[i] /\ requests'[s].list[r]
              = [place |-> i, index |-> k, row |-> RowOf(s, i, k)]
      BY <1>2
    <3>2. PICK q \in Queries : i = q - slot[s].offset
      <4>1. QueryAt(s, i) \in Queries /\ i \in Nat /\ slot[s].offset \in Nat
        BY BatchOfQueries, SlotTypes DEF PoolInvariant
      <4>2. QueryAt(s, i) - slot[s].offset = i
        BY <4>1 DEF QueryAt
      <4> QED
        BY <4>1, <4>2
    <3>3. Owns(s, q)
      BY <3>2 DEF Owns
    <3>4. SelectedAt(s, q)' = selects[i] /\ RowFor(s, q, k)' = RowOf(s, i, k)
      BY <1>5, <3>2, <3>3
    <3>5. Owns(s, q)' /\ slot'[s].offset = slot[s].offset
      BY <1>4, <3>3 DEF Owns, Batch
    <3> QED
      BY <2>1, <3>1, <3>2, <3>4, <3>5 DEF AskedFor
  <2> QED
    BY <1>1, <1>3, <2>1 DEF RequestsOfRound
<1>8. ASSUME NEW q \in Queries, Owns(s, q), NEW i, i = q - slot[s].offset, NEW n, n = selects[i]
      PROVE  Moved(SeenAt(s, q), SeenAt(s, q)')
  <2> DEFINE e == expanded[q]
  <2>1. /\ n \in 0 .. Width /\ n \in Counts(s, i) /\ q = QueryAt(s, i)
        /\ e \in Nat /\ expanded'[q] = e + n /\ SelectedAt(s, q) = 0
        /\ SelectedAt(s, q)' = n /\ (ActiveAt(s, q)' <=> n # 0)
        /\ expanded'[q] - n = e
    BY <1>5, <1>8
  <2>2. SeenAt(s, q) = [phase |-> IF ~ActiveAt(s, q) THEN "ended" ELSE "selecting",
                        expanded |-> e, merged |-> 1 .. e]
    <3>1. e - 0 = e
      BY <2>1
    <3> QED
      BY <1>1, <1>3, <2>1, <3>1 DEF SeenAt
  <2>3. SeenAt(s, q)' = [phase |-> IF n = 0 THEN "ended" ELSE "merging",
                         expanded |-> e + n, merged |-> 1 .. e]
    BY <1>1, <1>3, <2>1 DEF SeenAt
  <2>4. n # 0 => ActiveAt(s, q) /\ e < MaxExpansions
    BY <1>8, <2>1 DEF Counts, ActiveAt
  <2>5. e + 0 = e
    BY <2>1
  <2>6. n # 0 => n \in 1 .. Width
    BY <2>1, PipelineAssumption
  <2> HIDE DEF e
  <2>7. CASE n = 0
    BY <2>2, <2>3, <2>5, <2>7, Transitions DEF Moved
  <2>8. CASE n # 0
    BY <2>2, <2>3, <2>4, <2>6, <2>8, Transitions DEF Moved
  <2> QED
    BY <2>7, <2>8
<1> QED
  BY <1>1, <1>6, <1>7, <1>8, OwnRounds

-----------------------------------------------------------------------------
(* A slot takes the next queries; those it had are over.                   *)
Activated(s) ==
  /\ ActivateSlot(s) /\ compute[s] = <<>> /\ slot[s].phase # "select pending"
  /\ UNCHANGED <<io, buffers, results>>

LEMMA NextQueries ==
  ASSUME PoolInvariant, NEW s \in PoolSlots, Activated(s)
  PROVE  /\ UNCHANGED <<io, served, requests, response, state, expanded, merged>>
         /\ compute'[s] = Fresh
         /\ \A u \in PoolSlots \ {s} : slot'[u] = slot[u] /\ compute'[u] = compute[u]
         /\ next \in Nat /\ next' \in Nat /\ next <= next'
         /\ \A q \in Queries : Owns(s, q)' <=> q > next /\ q <= next'
<1>1. UNCHANGED <<io, served, requests, response, state, expanded, merged>>
  BY DEF Activated, buffers, results
<1>2. /\ compute' = [compute EXCEPT ![s] = Fresh]
      /\ \A u \in PoolSlots \ {s} : slot'[u] = slot[u]
      /\ slot'[s].offset = next /\ slot'[s].size = BatchSize(next)
  BY ActivatesSlot DEF Activated
<1>3. compute'[s] = Fresh /\ \A u \in PoolSlots \ {s} : compute'[u] = compute[u]
  BY <1>2 DEF PoolInvariant, PoolTypes
<1>4. next \in 0 .. NumQueries /\ NumQueries \in Nat
  BY PipelineAssumption DEF PoolInvariant, PoolTypes
<1>5. BatchSize(next) \in Nat
  BY <1>4, BatchFits
<1>6. next' = next + BatchSize(next)
  BY DEF Activated, ActivateSlot
<1>7. next \in Nat /\ next' \in Nat /\ next <= next'
  BY <1>4, <1>5, <1>6
<1>8. ASSUME NEW q \in Queries PROVE Owns(s, q)' <=> q > next /\ q <= next'
  <2>1. Owns(s, q)' <=> q - next \in 1 .. BatchSize(next)
    BY <1>2 DEF Owns, Batch
  <2>2. q \in Nat
    BY DEF Queries
  <2> QED
    BY <1>5, <1>6, <1>7, <2>1, <2>2
<1> QED
  BY <1>1, <1>2, <1>3, <1>7, <1>8

LEMMA RoundsActivated ==
  ASSUME PoolInvariant, RoundsInvariant, NEW s \in PoolSlots, Activated(s)
  PROVE  /\ RoundsInvariant'
         /\ \A u \in PoolSlots \ {s}, q \in Queries : Owns(u, q) =>
              Owns(u, q)' /\ SeenAt(u, q)' = SeenAt(u, q)
<1>1. /\ UNCHANGED <<io, served, requests, response, state, expanded, merged>>
      /\ compute'[s] = Fresh
      /\ \A u \in PoolSlots \ {s} : slot'[u] = slot[u] /\ compute'[u] = compute[u]
      /\ next \in Nat /\ next' \in Nat /\ next <= next'
      /\ \A q \in Queries : Owns(s, q)' <=> q > next /\ q <= next'
  BY NextQueries
<1>2. \A u \in PoolSlots \ {s} :
        /\ RequestsOfRound(u)' /\ Rows(u)'
        /\ \A q \in Queries : Owns(u, q)' <=> Owns(u, q)
        /\ \A q \in Queries : Owns(u, q) => InItsRound(u, q)' /\ SeenAt(u, q)' = SeenAt(u, q)
  <2>1. \A u \in PoolSlots \ {s} : Apart(u)
    BY <1>1 DEF Apart
  <2> QED
    BY <1>1, <2>1, ApartRounds
<1>3. RequestsOfRound(s)' /\ Rows(s)'
  <2>1. Fresh # Selecting /\ Fresh \notin {Selected, Waiting, <<>>}
    BY Streams DEF SelectStreams, ResumeStreams
  <2>2. Rows(s)'
    BY <1>1 DEF RoundsInvariant, Rows
  <2> QED
    BY <1>1, <2>1, <2>2 DEF RequestsOfRound, Asking
<1>4. \A q \in Queries : q \in Nat
  BY DEF Queries
<1>5. ASSUME NEW q \in Queries, q > next PROVE expanded'[q] = 0 /\ merged'[q] = {}
  BY <1>1, <1>5 DEF RoundsInvariant
<1>6. ASSUME NEW q \in Queries, q > next' PROVE q > next
  BY <1>1, <1>4, <1>6
<1>7. ASSUME NEW u \in PoolSlots, NEW q \in Queries, Owns(u, q)'
      PROVE  /\ q <= next' /\ InItsRound(u, q)'
             /\ u # s => q <= next
  <2>1. CASE u = s
    BY <1>1, <1>5, <1>7, <2>1 DEF InItsRound
  <2>2. CASE u # s
    <3>1. Owns(u, q) /\ InItsRound(u, q)'
      BY <1>2, <1>7, <2>2
    <3>2. q <= next
      BY <3>1 DEF RoundsInvariant
    <3> QED
      BY <1>1, <1>4, <3>1, <3>2
  <2> QED
    BY <2>1, <2>2
<1>8. ASSUME NEW u \in PoolSlots, NEW v \in PoolSlots, NEW q \in Queries, Owns(u, q)', Owns(v, q)'
      PROVE  u = v
  <2>1. CASE u # s /\ v # s
    BY <1>2, <1>8, <2>1 DEF RoundsInvariant
  <2>2. Owns(s, q)' => ~(q <= next)
    BY <1>1, <1>4
  <2> QED
    BY <1>7, <1>8, <2>1, <2>2
<1>9. RoundsInvariant'
  <2>1. \A u \in PoolSlots : RequestsOfRound(u)' /\ Rows(u)'
    BY <1>2, <1>3
  <2>2. DOMAIN response' = PoolSlots /\ (io' = <<>> \/ io'[1].kind # "read" => served' = {})
    BY <1>1 DEF RoundsInvariant
  <2> QED
    BY <1>5, <1>6, <1>7, <1>8, <2>1, <2>2 DEF RoundsInvariant
<1> QED
  BY <1>2, <1>9

LEMMA ActivatedSeen ==
  ASSUME PoolInvariant, PoolInvariant', RoundsInvariant, SeenAsIs, SeenAsIs',
         NEW s \in PoolSlots, Activated(s), NEW q \in Queries
  PROVE  Moved(Seen(q), Seen(q)')
<1>1. /\ UNCHANGED <<state, expanded, merged>> /\ compute'[s] = Fresh
      /\ next \in Nat /\ next' \in Nat /\ next <= next' /\ q \in Nat
      /\ (Owns(s, q)' <=> q > next /\ q <= next')
      /\ \A u \in PoolSlots \ {s} : slot'[u] = slot[u]
  BY NextQueries, Positions
<1>2. \A u \in PoolSlots \ {s} : Owns(u, q)' <=> Owns(u, q)
  BY <1>1 DEF Owns, Batch
<1>3. \A u \in PoolSlots : Owns(u, q) => q <= next
  BY DEF RoundsInvariant
<1>4. Numbers(q)' = Numbers(q)
  BY <1>1 DEF Numbers
<1>5. CASE \E u \in PoolSlots \ {s} : Owns(u, q)
  <2>1. PICK u \in PoolSlots \ {s} : Owns(u, q)
    BY <1>5
  <2>2. SeenAt(u, q)' = SeenAt(u, q) /\ Owns(u, q)'
    BY <2>1, RoundsActivated
  <2> QED
    BY <2>1, <2>2 DEF SeenAsIs, Moved
<1>6. CASE q <= next /\ \A u \in PoolSlots \ {s} : ~Owns(u, q)
  <2>1. q <= next' /\ \A u \in PoolSlots : ~Owns(u, q)'
    BY <1>1, <1>2, <1>6
  <2>2. Seen(q)' = [phase |-> "ended", expanded |-> expanded'[q], merged |-> Numbers(q)']
    BY <2>1 DEF SeenAsIs
  <2>3. Seen(q)' = [phase |-> "ended", expanded |-> expanded[q], merged |-> Numbers(q)]
    BY <1>1, <1>4, <2>2
  <2>4. CASE ~Owns(s, q)
    <3>1. Seen(q) = [phase |-> "ended", expanded |-> expanded[q], merged |-> Numbers(q)]
      BY <1>6, <2>4 DEF SeenAsIs
    <3> QED
      BY <2>3, <3>1 DEF Moved
  <2>5. CASE Owns(s, q)
    <3>1. Merged(s) /\ compute[s] # Fresh
      BY Streams DEF Merged, Activated, SelectStreams
    <3>2. SelectedAt(s, q) = 0 /\ merged[q] = RowsTo(q, expanded[q] - 0)
      BY <2>5, <3>1 DEF RoundsInvariant, InItsRound
    <3>3. Numbers(q) = 1 .. (expanded[q] - 0)
      BY <3>2, NumbersOfRows
    <3> DEFINE e == expanded[q]
               d == Numbers(q)
    <3>4. Seen(q) = [phase |-> IF ~ActiveAt(s, q) THEN "ended" ELSE "selecting",
                     expanded |-> e, merged |-> d]
      BY <2>5, <3>1, <3>2, <3>3 DEF SeenAsIs, SeenAt
    <3>5. Seen(q)' = [phase |-> "ended", expanded |-> e, merged |-> d]
      BY <2>3
    <3> HIDE DEF e, d
    <3> QED
      BY <3>4, <3>5, Transitions DEF Moved
  <2> QED
    BY <2>4, <2>5
<1>7. CASE q > next
  <2>1. Seen(q) = [phase |-> "waiting", expanded |-> 0, merged |-> {}] /\ expanded[q] = 0
    BY <1>7 DEF SeenAsIs, RoundsInvariant
  <2>2. Seen(q)' = Seen(q)
    <3>1. CASE q <= next'
      <4>1. Seen(q)' = SeenAt(s, q)'
        BY <1>1, <1>7, <3>1 DEF SeenAsIs
      <4>2. SeenAt(s, q)' = [phase |-> "waiting", expanded |-> expanded'[q], merged |-> {}]
        BY <1>1 DEF SeenAt
      <4> QED
        BY <1>1, <2>1, <4>1, <4>2
    <3>2. CASE ~(q <= next')
      <4>1. q > next'
        BY <1>1, <3>2
      <4> QED
        BY <2>1, <4>1 DEF SeenAsIs
    <3> QED
      BY <3>1, <3>2
  <2> QED
    BY <2>2 DEF Moved
<1>8. q <= next \/ q > next
  BY <1>1
<1> QED
  BY <1>5, <1>6, <1>7, <1>8

LEMMA InitialRounds == Init => RoundsInvariant /\ Rounds!Init
<1> SUFFICES ASSUME Init PROVE RoundsInvariant /\ Rounds!Init
  OBVIOUS
<1>1. PoolInvariant
  BY InitialPool
<1>2. /\ next = 0 /\ io = <<>> /\ response = [s \in PoolSlots |-> [i \in Places |-> [k \in 1 .. Width |-> NoRow]]]
      /\ \A q \in Queries : expanded[q] = 0 /\ merged[q] = {}
      /\ \A s \in PoolSlots : slot[s].size = 0 /\ slot[s].phase = "idle" /\ compute[s] = <<>>
  BY DEF Init
<1>3. \A s \in PoolSlots, q \in Queries : ~Owns(s, q)
  BY <1>2 DEF Owns, Batch
<1>4. \A s \in PoolSlots : RequestsOfRound(s) /\ Rows(s)
  <2>1. <<>> \notin {Selecting, Selected, Waiting}
    BY Streams DEF SelectStreams, ResumeStreams
  <2> QED
    BY <1>2, <2>1 DEF RequestsOfRound, Asking, Rows
<1>5. RoundsInvariant
  <2>1. DOMAIN response = PoolSlots
    BY <1>2
  <2>2. io = <<>> /\ \A q \in Queries : q > next => expanded[q] = 0 /\ merged[q] = {}
    BY <1>2
  <2>3. \A s \in PoolSlots, q \in Queries : Owns(s, q) => q <= next /\ InItsRound(s, q)
    BY <1>3
  <2>4. \A s, u \in PoolSlots, q \in Queries : Owns(s, q) /\ Owns(u, q) => s = u
    BY <1>3
  <2>5. served = {}
    BY DEF Init
  <2> QED
    BY <1>4, <2>1, <2>2, <2>3, <2>4, <2>5 DEF RoundsInvariant
<1>6. \A q \in Queries : Seen(q) = [phase |-> "waiting", expanded |-> 0, merged |-> {}]
  <2>1. \A q \in Queries : q > next
    BY <1>2 DEF Queries
  <2> QED
    BY <1>1, <1>5, <2>1, QueriesSeen DEF SeenAsIs
<1> QED
  BY <1>5, <1>6 DEF Rounds!Init, Seen, Numbers

(* Every step is quiet, or moves the queries of one slot on.               *)
Moving(s) ==
  \/ OthersApart(s) /\ \A q \in Queries : Owns(s, q) => Moved(SeenAt(s, q), SeenAt(s, q)')
  \/ Activated(s)

LEMMA RoundsStep ==
  ASSUME Width <= Warps, PoolInvariant, RoundsInvariant, [Next]_vars
  PROVE  RoundsInvariant' /\ (Quiet \/ \E s \in PoolSlots : Moving(s))
<1>1. CASE StartSlot
  <2>1. cursor \in PoolSlots /\ slot[cursor].phase = "idle"
    BY <1>1 DEF StartSlot, PoolInvariant, SlotsInOrder, PoolSlots
  <2>2. Activated(cursor)
    BY <1>1, <2>1 DEF StartSlot, Activated, PoolInvariant, InRound, StreamInPhase
  <2> QED
    BY <2>1, <2>2, RoundsActivated DEF Moving
<1>2. ASSUME NEW s \in PoolSlots, PassSlot(s) PROVE RoundsInvariant' /\ Quiet
  BY <1>2, RoundsUnchanged DEF PassSlot, streams, buffers, results
<1>3. ASSUME NEW s \in PoolSlots, IssueRound(s) PROVE RoundsInvariant' /\ Quiet
  BY <1>3, RoundsIssueRound
<1>4. ASSUME NEW s \in PoolSlots, EndRound(s) PROVE RoundsInvariant' /\ (Quiet \/ Moving(s))
  <2>1. CASE ActivateSlot(s)
    <3>1. /\ slot[s].phase = "round pending" /\ event[s].round # "pending"
          /\ UNCHANGED <<io, buffers, results>>
      BY <1>4 DEF EndRound, Polls
    <3>2. Activated(s)
      BY <2>1, <3>1 DEF Activated, PoolInvariant, InRound, StreamInPhase
    <3> QED
      BY <3>2, RoundsActivated DEF Moving
  <2>2. CASE ~ActivateSlot(s)
    BY <1>4, <2>2, RoundsEndRound
  <2> QED
    BY <2>1, <2>2
<1>5. CASE Synchronize
  BY <1>5, RoundsUnchanged DEF Synchronize, streams, buffers, results
<1>6. ASSUME NEW s \in PoolSlots, StreamStep(s) PROVE RoundsInvariant' /\ (Quiet \/ Moving(s))
  <2>1. CASE InitKernel(s)
    BY <2>1, RoundsInitKernel DEF Moving
  <2>2. CASE SelectKernel(s)
    BY <2>2, RoundsSelectKernel DEF Moving
  <2>3. CASE ResumeKernel(s)
    BY <2>3, RoundsResumeKernel DEF Moving
  <2>4. CASE \/ ClearCounts(s) \/ SignalSelect(s) \/ WaitForRead(s)
             \/ CopyCounts(s) \/ SignalRound(s)
    BY <2>4, RoundsClearCounts, RoundsSignalSelect, RoundsWaitForRead, RoundsCopyCounts,
       RoundsSignalRound
  <2> QED
    BY <1>6, <2>1, <2>2, <2>3, <2>4 DEF StreamStep
<1>7. CASE IoStep
  BY <1>7, RoundsReadRow, RoundsEndRead, RoundsSignalRead DEF IoStep
<1>8. CASE UNCHANGED vars
  BY <1>8, RoundsUnchanged DEF vars, hostVars, streams, buffers, results
<1> QED
  BY <1>1, <1>2, <1>3, <1>4, <1>5, <1>6, <1>7, <1>8 DEF Next, HostStep

Views == [q \in Queries |-> Seen(q)]

LEMMA QueriesMove ==
  ASSUME Width <= Warps, PoolInvariant, PoolInvariant', RoundsInvariant, SeenAsIs, SeenAsIs',
         [Next]_vars
  PROVE  [Rounds!Next]_Views
<1>1. \A q \in Queries : Moved(Seen(q), Seen(q)')
  <2>1. CASE Quiet
    BY <2>1, QuietSeen DEF Moved
  <2>2. ASSUME NEW s \in PoolSlots, Moving(s) PROVE \A q \in Queries : Moved(Seen(q), Seen(q)')
    BY <2>2, OwnSeen, ActivatedSeen DEF Moving
  <2> QED
    BY <2>1, <2>2, RoundsStep
<1>2. ASSUME NEW q \in Queries
      PROVE  LET old == [phase |-> PhaseOf(q), expanded |-> expanded[q],
                         merged |-> {IF row[1] = q THEN row[2] ELSE 0 : row \in merged[q]}]
             IN old' = old \/ old' \in Rounds!Successors(old)
  BY <1>1 DEF Moved, Seen, Numbers
<1> QED
  BY <1>2 DEF Rounds!Next

(* With a warp for every node a round selects, what the slots, the streams *)
(* and the shared reads do shows each query nothing but its own rounds: it *)
(* waits, selects at most Width nodes while it has budget, merges exactly  *)
(* the rows of these nodes, whichever order the reads come in and whatever *)
(* slot it shares, and ends.                                               *)
THEOREM MicrobatchIsRounds ==
  ASSUME Width <= Warps
  PROVE  Spec => Rounds!Init /\ [][Rounds!Next]_Views
<1>1. RoundsInvariant /\ PoolInvariant /\ [Next]_vars => RoundsInvariant'
  BY RoundsStep
<1>2. PoolInvariant /\ RoundsInvariant => SeenAsIs
  BY QueriesSeen
<1>3. PoolInvariant /\ PoolInvariant' /\ RoundsInvariant /\ SeenAsIs /\ SeenAsIs' /\ [Next]_vars
        => [Rounds!Next]_Views
  BY QueriesMove
<1> QED
  BY <1>1, <1>2, <1>3, InitialRounds, PoolInvariantHolds, PTL DEF Spec
=============================================================================
