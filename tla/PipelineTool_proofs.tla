-------------------------- MODULE PipelineTool_proofs --------------------------
(***************************************************************************)
(* Proofs about PipelineTool for every set of index files, command line,   *)
(* number of repeats and failure: a concurrent measurement that is         *)
(* reported is one; the tables of the refine stage are those of the codes  *)
(* that are installed; a topology that is used is the graph; and what is   *)
(* in the page cache keeps its meaning while providers come and go, so     *)
(* that a run reads the records and the entries it asks for.               *)
(*                                                                         *)
(* The argument for the first: until the worker has decided, which it does *)
(* once, the caller cannot pass its wait; what the worker decided is told  *)
(* by the history if it submitted, and by the errors if it did not.        *)
(*                                                                         *)
(* In the cache: a provider in use has its range number to itself, a page  *)
(* it holds cached is in a slot that is registered under that number, and  *)
(* a slot's number always leads to some provider in use, because the       *)
(* ranges are reset and the slots emptied before the numbers are given     *)
(* out again.  So an eviction takes the page state of the page it evicts.  *)
(*                                                                         *)
(* For what a run reads: the runs that are left fit the providers there    *)
(* are places for, the providers of a run are of the files it reads, and   *)
(* the entries of a batch, whichever way they are stored, are cut out      *)
(* where they were put in.                                                 *)
(***************************************************************************)
EXTENDS PipelineTool, FiniteSetTheorems, SequenceTheorems, TLAPS

Announced == <<"announced">>
Submitted == Append(Announced, "io")
InOrder   == Append(Submitted, "topology")
WithoutIo == Append(Announced, "topology")

(* Where the two threads can be, and what can have happened.               *)
GateTypes ==
  /\ gate \subseteq {"launched", "cancelled", "io_submitted", "io_failed"}
  /\ errors \subseteq {"topology", "io"}
  /\ history \in {<<>>, Announced, Submitted, InOrder, WithoutIo}
  /\ caller \in {"idle", "prepare", "announce", "wait", "launch", "cancel",
                 "notify_cancel", "join", "measured", "io", "topology"}
  /\ worker \in {"start", "wait", "submit", "tell", "notify", "finish", "fail",
                 "notify_failed", "done"}

(* Each flag of the gate stands for what its thread did before.            *)
FlagsMean ==
  /\ "launched" \in gate <=> history # <<>>
  /\ "cancelled" \in gate => "topology" \in errors
  /\ "io_submitted" \in gate => history \in {Submitted, InOrder}
  /\ "io_failed" \in gate => "io" \in errors

(* Before the worker has decided, nothing but its own submission follows   *)
(* the announcement.                                                       *)
WorkerUndecided ==
  /\ worker \in {"start", "wait"} => ~IoDecided /\ history \in {<<>>, Announced}
  /\ worker = "submit" => ~IoDecided /\ history = Announced
  /\ worker = "tell" => ~IoDecided /\ history = Submitted
  /\ worker = "fail" => "io" \in errors

(* The caller passes its wait after the decision, and joins after its      *)
(* launch or its own failure.                                              *)
CallerInOrder ==
  /\ caller \in {"prepare", "announce"} => history = <<>> /\ "topology" \notin errors
  /\ caller \in {"wait", "launch"} =>
       history \in {Announced, Submitted} /\ "topology" \notin errors
  /\ caller = "launch" => IoDecided
  /\ caller \in {"cancel", "notify_cancel"} => "topology" \in errors
  /\ caller = "join" /\ errors = {} => history = InOrder
  /\ caller \in {"idle", "measured", "io", "topology"} => worker = "done"

GateInvariant ==
  /\ GateTypes /\ FlagsMean /\ WorkerUndecided /\ CallerInOrder /\ MeasuredTogether
-----------------------------------------------------------------------------
(* The histories, how one follows from another, and what they order.       *)
LEMMA Histories ==
  /\ Append(<<>>, "announced") = Announced
  /\ Append(Announced, "io") = Submitted
  /\ Append(Submitted, "topology") = InOrder
  /\ Append(Announced, "topology") = WithoutIo
  /\ Announced # <<>> /\ Submitted # <<>> /\ InOrder # <<>> /\ WithoutIo # <<>>
  /\ Announced # Submitted /\ Announced # InOrder /\ Announced # WithoutIo
  /\ Submitted # InOrder /\ Submitted # WithoutIo /\ InOrder # WithoutIo
<1>1. /\ Len(<<>>) = 0 /\ Len(Announced) = 1
      /\ Len(Submitted) = 2 /\ Submitted[2] = "io"
      /\ Len(WithoutIo) = 2 /\ WithoutIo[2] = "topology"
      /\ Len(InOrder) = 3
  BY DEF Announced, Submitted, InOrder, WithoutIo
<1>2. Append(<<>>, "announced") = Announced
  BY DEF Announced
<1>3. /\ Append(Announced, "io") = Submitted
      /\ Append(Submitted, "topology") = InOrder
      /\ Append(Announced, "topology") = WithoutIo
  BY DEF Submitted, InOrder, WithoutIo
<1> QED
  BY <1>1, <1>2, <1>3

LEMMA InOrderIs == InOrder = <<"announced", "io", "topology">>
<1> DEFINE s == InOrder
           t == <<"announced", "io", "topology">>
           Event == {"announced", "io", "topology"}
<1>1. s \in Seq(Event) /\ Len(s) = 3 /\ s[1] = "announced" /\ s[2] = "io" /\ s[3] = "topology"
  BY DEF InOrder, Submitted, Announced
<1>2. t \in Seq(Event) /\ Len(t) = 3 /\ t[1] = "announced" /\ t[2] = "io" /\ t[3] = "topology"
  OBVIOUS
<1>3. \A i \in 1 .. 3 : s[i] = t[i]
  <2>1. \A i \in 1 .. 3 : i = 1 \/ i = 2 \/ i = 3
    OBVIOUS
  <2> QED
    BY <1>1, <1>2, <2>1
<1> HIDE DEF s, t, Event
<1>4. s = t
  BY <1>1, <1>2, <1>3, SeqEqual
<1> QED
  BY <1>4 DEF s, t

LEMMA IoComesSecond ==
  ASSUME NEW h \in {<<>>, Announced, Submitted, InOrder, WithoutIo}
  PROVE  \A i \in DOMAIN h : h[i] = "io" => i > 1 /\ h[1] = "announced"
BY DEF Announced, Submitted, InOrder, WithoutIo

(* No step of the two threads disturbs the invariant; what a measurement   *)
(* should be matters only when the caller gets its outcome.                *)
LEMMA GateStep ==
  ASSUME GateInvariant, [CallerStep \/ WorkerStep \/ SpuriousWakeUp]_measurement
  PROVE  GateInvariant'
<1> USE DEF GateInvariant, GateTypes, FlagsMean, WorkerUndecided, CallerInOrder, IoDecided
<1> DEFINE Rest == (GateTypes /\ FlagsMean /\ WorkerUndecided /\ CallerInOrder)'
           Kept == Rest /\ MeasuredTogether'
<1>1. ASSUME Rest, \/ caller' = caller /\ history' = history /\ errors' = errors
                   \/ caller' \notin {"measured", "io", "topology"}
      PROVE  Kept
  BY <1>1, IoComesSecond, Histories DEF MeasuredTogether
<1>2. CASE Prepare
  BY <1>2, <1>1, Histories DEF Prepare, CallerMayThrow
<1>3. CASE Announce
  BY <1>3, <1>1, Histories DEF Announce
<1>4. CASE CallerWakes
  BY <1>4, <1>1 DEF CallerWakes
<1>5. CASE Launch
  BY <1>5, <1>1, Histories DEF Launch, CallerMayThrow
<1>6. CASE Cancel
  BY <1>6, <1>1 DEF Cancel
<1>7. CASE NotifyCancel
  BY <1>7, <1>1 DEF NotifyCancel
<1>8. CASE Join
  BY <1>8, IoComesSecond, InOrderIs DEF Join, Outcome, MeasuredTogether
<1>9. CASE SetDevice
  BY <1>9, <1>1 DEF SetDevice, WorkerMayThrow
<1>10. CASE AwaitLaunch
  BY <1>10, <1>1 DEF AwaitLaunch
<1>11. CASE Submit
  BY <1>11, <1>1, Histories DEF Submit, WorkerMayThrow
<1>12. CASE Tell
  BY <1>12, <1>1 DEF Tell
<1>13. CASE Fail
  BY <1>13, <1>1 DEF Fail
<1>14. CASE Notify
  BY <1>14, <1>1 DEF Notify
<1>15. CASE Finish
  <2>1. /\ UNCHANGED <<gate, caller, asleep, history>> /\ worker = "finish"
        /\ \/ worker' = "done" /\ UNCHANGED errors
           \/ worker' = "fail" /\ errors' = errors \cup {"io"}
    BY <1>15 DEF Finish, WorkerMayThrow
  <2>2. Rest
    BY <2>1
  <2>3. caller' \notin {"measured", "io", "topology"}
    BY <2>1
  <2> QED
    BY <1>1, <2>2, <2>3
<1>16. CASE SpuriousWakeUp
  BY <1>16, <1>1 DEF SpuriousWakeUp
<1>17. CASE UNCHANGED measurement
  BY <1>17, <1>1 DEF measurement
<1> QED
  BY <1>2, <1>3, <1>4, <1>5, <1>6, <1>7, <1>8, <1>9, <1>10, <1>11, <1>12, <1>13,
     <1>14, <1>15, <1>16, <1>17 DEF CallerStep, WorkerStep
-----------------------------------------------------------------------------
(* The other steps of the tool start a measurement, end it or leave it.    *)
MeasurementStep ==
  \/ StartMeasurement \/ EndMeasurement
  \/ [CallerStep \/ WorkerStep \/ SpuriousWakeUp]_measurement

LEMMA ToolLeavesMeasurement ==
  ASSUME [Next]_vars PROVE MeasurementStep
<1> USE DEF MeasurementStep
<1>1. CASE Write \/ Build
  BY <1>1 DEF Write, Build
<1>2. CASE ToolStep
  <2>1. CASE \/ OpenTopology \/ LoadTopology \/ LoadBase \/ LoadRefine \/ LoadHybrid
             \/ LoadStore \/ Plan \/ ComputeEntries
    BY <2>1
    DEF OpenTopology, LoadTopology, LoadBase, LoadRefine, LoadHybrid, LoadStore, Loaded, Plan,
        ComputeEntries
  <2>2. CASE Keep \/ Clear \/ Drop \/ Activate
    BY <2>2 DEF Keep, Clear, Drop, Activate
  <2>3. CASE StageASeeds \/ StageAReads \/ StageBReads \/ EndRun \/ Done
    BY <2>3 DEF StageASeeds, StageAReads, StageBReads, EndRun, Done
  <2>4. CASE OpenTrace \/ Alone \/ Repeat \/ EndTrace
    BY <2>4 DEF OpenTrace, Alone, Repeat, EndTrace
  <2> QED
    BY <1>2, <2>1, <2>2, <2>3, <2>4 DEF ToolStep
<1>3. CASE Together
  BY <1>3 DEF Together
<1>4. CASE CallFails \/ LibraryLoads \/ LibrarySearch \/ Terminated \/ UNCHANGED vars
  BY <1>4 DEF CallFails, LibraryLoads, LibrarySearch, Terminated, vars
<1> QED
  BY <1>1, <1>2, <1>3, <1>4 DEF Next

(* RunConcurrentMeasurement returns a measurement only if the traversal    *)
(* was launched after the I/O was submitted and that after the             *)
(* announcement; whoever fails is what the caller gets; and nothing is     *)
(* submitted for a traversal that did not get to its launch.               *)
THEOREM MeasurementsAreConcurrent == Spec => []MeasuredTogether
<1>1. Init => GateInvariant
  BY Histories, IoComesSecond
  DEF Init, NoMeasurement, GateInvariant, GateTypes, FlagsMean, WorkerUndecided,
      CallerInOrder, MeasuredTogether
<1>2. ASSUME GateInvariant, [Next]_vars PROVE GateInvariant'
  <2>1. CASE StartMeasurement \/ EndMeasurement
    BY <2>1, Histories, IoComesSecond
    DEF StartMeasurement, EndMeasurement, GateInvariant, GateTypes, FlagsMean,
        WorkerUndecided, CallerInOrder, IoDecided, MeasuredTogether
  <2> QED
    BY <1>2, <2>1, GateStep, ToolLeavesMeasurement DEF MeasurementStep
<1>3. GateInvariant => MeasuredTogether
  BY DEF GateInvariant
<1> QED
  BY <1>1, <1>2, <1>3, PTL DEF Spec
-----------------------------------------------------------------------------
(* The refine stage finds cross terms and error bounds only of the         *)
(* residual codes that are installed, made with base codes of their        *)
(* layout and one bound to a point, whatever loads failed before and in    *)
(* whatever order they came.                                               *)
THEOREM TablesFollowTheCodes == Spec => []TablesOfInstalledCodes
<1> USE DEF TablesOfInstalledCodes
<1>1. Init => TablesOfInstalledCodes
  BY DEF Init, NoResources
<1>2. ASSUME TablesOfInstalledCodes, [Next]_vars PROVE TablesOfInstalledCodes'
  <2>1. CASE UNCHANGED tables
    BY <1>2, <2>1 DEF tables, SameLayout
  <2>2. ASSUME NEW i, NEW bounds, NEW ok, LoadPq2Index(i, bounds, ok)
        PROVE  TablesOfInstalledCodes'
    BY <1>2, <2>2 DEF LoadPq2Index, SameLayout
  <2>3. ASSUME NEW i, NEW j, NEW ok, LoadPqIndex(i, ok) \/ LoadHpqIndex(i, j, ok)
        PROVE  TablesOfInstalledCodes'
    BY <1>2, <2>3 DEF LoadPqIndex, LoadHpqIndex, SameLayout
  <2>4. CASE LoadBase \/ LoadRefine \/ LoadHybrid
    BY <2>4, <2>1, <2>2, <2>3 DEF LoadBase, LoadRefine, LoadHybrid, Loaded
  <2>5. CASE LibraryLoads
    BY <2>5, <2>1, <2>2, <2>3 DEF LibraryLoads
  <2>6. CASE \/ Write \/ Build \/ OpenTopology \/ LoadTopology \/ LoadStore \/ Plan
             \/ ComputeEntries \/ Keep \/ Clear \/ Drop \/ Activate
             \/ StageASeeds \/ StageAReads \/ StageBReads
    BY <2>6, <2>1
    DEF Write, Build, OpenTopology, LoadTopology, LoadStore, Loaded, LoadVectorStore, Plan,
        ComputeEntries, Keep, Clear, Drop, Activate, StageASeeds, StageAReads, StageBReads
  <2>7. CASE \/ EndRun \/ Done \/ OpenTrace \/ Alone \/ Repeat \/ EndTrace \/ Together
             \/ CallFails \/ LibrarySearch \/ Terminated \/ UNCHANGED vars
    BY <2>7, <2>1
    DEF EndRun, Done, OpenTrace, Alone, Repeat, EndTrace, Together, CallFails, LibrarySearch,
        Terminated, vars
  <2> QED
    BY <1>2, <2>4, <2>5, <2>6, <2>7 DEF Next, ToolStep
<1> QED
  BY <1>1, <1>2, PTL DEF Spec
-----------------------------------------------------------------------------
(* Where the elements of a row are, and to which row one belongs.          *)
LEMMA PlaceOfNeighbor ==
  ASSUME NEW n \in Nodes, NEW i \in 0 .. Degree - 1
  PROVE  /\ n * Degree + i \in Elements
         /\ (n * Degree + i) \div Degree = n
         /\ (n * Degree + i) % Degree = i
<1>1. /\ NodeCount \in Nat /\ Degree \in Nat \ {0}
      /\ n \in 0 .. NodeCount - 1 /\ i \in 0 .. Degree - 1
  BY TopologyAssumption DEF Nodes
<1>2. (n + 1) * Degree <= NodeCount * Degree
  BY <1>1
<1>3. (n + 1) * Degree = n * Degree + Degree
  BY <1>1
<1>4. n * Degree \in Nat /\ NodeCount * Degree \in Nat
  BY <1>1
<1>5. n * Degree + i \in 0 .. NodeCount * Degree - 1
  BY <1>1, <1>2, <1>3, <1>4
<1>6. (n * Degree + i) \div Degree = n
  BY <1>1
<1>7. (n * Degree + i) % Degree = i
  BY <1>1
<1> QED
  BY <1>5, <1>6, <1>7 DEF Elements

(* A copy of the elements of the file is the graph.                        *)
LEMMA CopyHoldsGraph ==
  ASSUME \A e \in Elements : pinned[e] = Element(e)
  PROVE  HoldsGraph
<1> SUFFICES ASSUME NEW n \in Nodes PROVE NeighborsRead(n) = NeighborsBuilt(n)
  BY DEF HoldsGraph
<1>1. Adjacency[n] \in Seq(Nat) /\ Invalid \notin Nodes /\ Degree \in Nat \ {0}
  BY TopologyAssumption DEF Nodes
<1>2. \A i \in 0 .. Degree - 1 : pinned[n * Degree + i] = Row(n)[i + 1]
  <2> SUFFICES ASSUME NEW i \in 0 .. Degree - 1 PROVE pinned[n * Degree + i] = Row(n)[i + 1]
    OBVIOUS
  <2>1. /\ n * Degree + i \in Elements
        /\ (n * Degree + i) \div Degree = n /\ (n * Degree + i) % Degree = i
    BY PlaceOfNeighbor
  <2> QED
    BY <2>1 DEF Element
<1>3. \A i \in 0 .. Degree - 1 :
        pinned[n * Degree + i] = IF i + 1 <= Len(Adjacency[n]) /\ Adjacency[n][i + 1] \in Nodes
                                 THEN Adjacency[n][i + 1] ELSE Invalid
  <2> SUFFICES ASSUME NEW i \in 0 .. Degree - 1
               PROVE  Row(n)[i + 1] = IF i + 1 <= Len(Adjacency[n]) /\ Adjacency[n][i + 1] \in Nodes
                                      THEN Adjacency[n][i + 1] ELSE Invalid
    BY <1>2
  <2>1. i + 1 \in 1 .. Degree
    BY <1>1
  <2> QED
    BY <2>1 DEF Row
<1>4. NeighborsRead(n) \subseteq NeighborsBuilt(n)
  BY <1>1, <1>3 DEF NeighborsRead, NeighborsBuilt
<1>5. ASSUME NEW j \in DOMAIN Adjacency[n], j <= Degree, Adjacency[n][j] \in Nodes
      PROVE  Adjacency[n][j] \in NeighborsRead(n)
  <2>1. j - 1 \in 0 .. Degree - 1 /\ (j - 1) + 1 = j /\ j <= Len(Adjacency[n])
    BY <1>1, <1>5
  <2> QED
    BY <1>3, <1>5, <2>1 DEF NeighborsRead
<1>6. NeighborsBuilt(n) \subseteq NeighborsRead(n)
  BY <1>5 DEF NeighborsBuilt
<1> QED
  BY <1>4, <1>6

(* A dataset that is not refused is copied whole, and so is the beginning  *)
(* of each list of the index.                                              *)
LEMMA DatasetHoldsGraph ==
  ASSUME NEW most \in {Degree, Degree + 1},
         FromDataset([n \in Nodes |-> First(Adjacency[n], most)])
  PROVE  HoldsGraph'
<1> DEFINE list(n) == First(Adjacency[n], most)
<1> SUFFICES ASSUME NEW n \in Nodes PROVE NeighborsRead(n)' = NeighborsBuilt(n)
  BY DEF HoldsGraph, NeighborsBuilt
<1>1. Adjacency[n] \in Seq(Nat) /\ Invalid \notin Nodes /\ Degree \in Nat \ {0}
  BY TopologyAssumption DEF Nodes
<1>2. Len(list(n)) <= Degree
  BY DEF FromDataset
<1>3. \A i \in 0 .. Degree - 1 :
        pinned'[n * Degree + i] = IF i < Len(list(n)) THEN list(n)[i + 1] ELSE Invalid
  <2> SUFFICES ASSUME NEW i \in 0 .. Degree - 1
               PROVE  pinned'[n * Degree + i] = IF i < Len(list(n)) THEN list(n)[i + 1] ELSE Invalid
    OBVIOUS
  <2>1. /\ n * Degree + i \in Elements
        /\ (n * Degree + i) \div Degree = n /\ (n * Degree + i) % Degree = i
    BY PlaceOfNeighbor
  <2> QED
    BY <2>1 DEF FromDataset
<1>4. /\ Len(list(n)) = (IF Degree < Len(Adjacency[n]) THEN Degree ELSE Len(Adjacency[n]))
      /\ \A j \in 1 .. Len(list(n)) : list(n)[j] = Adjacency[n][j]
  <2>1. /\ Len(list(n)) = IF most < Len(Adjacency[n]) THEN most ELSE Len(Adjacency[n])
        /\ \A j \in 1 .. Len(list(n)) : list(n)[j] = Adjacency[n][j]
    BY <1>1 DEF First
  <2> QED
    BY <1>1, <1>2, <2>1
<1> HIDE DEF list
<1>5. \A i \in 0 .. Degree - 1 :
        pinned'[n * Degree + i] = IF i + 1 <= Len(Adjacency[n]) THEN Adjacency[n][i + 1] ELSE Invalid
  BY <1>1, <1>3, <1>4
<1>6. NeighborsRead(n)' = {pinned'[n * Degree + i] : i \in 0 .. Degree - 1} \cap Nodes
  BY DEF NeighborsRead
<1>7. NeighborsRead(n)' \subseteq NeighborsBuilt(n)
  BY <1>1, <1>5, <1>6 DEF NeighborsBuilt
<1>8. ASSUME NEW j \in DOMAIN Adjacency[n], j <= Degree, Adjacency[n][j] \in Nodes
      PROVE  Adjacency[n][j] \in NeighborsRead(n)'
  <2>1. j - 1 \in 0 .. Degree - 1 /\ (j - 1) + 1 = j /\ j <= Len(Adjacency[n])
    BY <1>1, <1>8
  <2> QED
    BY <1>5, <1>6, <1>8, <2>1
<1>9. NeighborsBuilt(n) \subseteq NeighborsRead(n)'
  BY <1>8 DEF NeighborsBuilt
<1> QED
  BY <1>7, <1>9

(* While the topology is loaded, what was read is in its place.            *)
PinnedInvariant ==
  /\ pc = "load" =>
       /\ position \in Nat /\ DOMAIN pinned = Elements
       /\ \A e \in Elements : e < position => pinned[e] = Element(e)
  /\ PinnedAsBuilt

LEMMA PieceKeepsPlaces ==
  ASSUME PinnedInvariant, pc = "load", ReadPiece, pc' = "load"
  PROVE  PinnedInvariant'
<1>1. PICK e \in Elements :
        /\ e >= position
        /\ pinned' = [i \in Elements |->
             IF i \in position .. position + (e + 1 - position) - 1 THEN Element(i) ELSE pinned[i]]
        /\ position' = position + (e + 1 - position)
  BY DEF ReadPiece, InFile
<1>2. Elements \subseteq Nat /\ position \in Nat
  BY DEF PinnedInvariant, Elements
<1>3. position' = e + 1 /\ position + (e + 1 - position) - 1 = e
  BY <1>1, <1>2
<1>4. \A i \in Elements : i < position' => pinned'[i] = Element(i)
  BY <1>1, <1>2, <1>3 DEF PinnedInvariant
<1>5. DOMAIN pinned' = Elements /\ position' \in Nat
  BY <1>1, <1>2, <1>3
<1>6. \A i : Element(i)' = Element(i)
  BY DEF Element, Row
<1> QED
  BY <1>4, <1>5 DEF PinnedInvariant, PinnedAsBuilt, Element, Row, Elements

LEMMA LoadedIsWhole ==
  ASSUME PinnedInvariant, pc = "load", ReadAll, UNCHANGED pinned
  PROVE  HoldsGraph' /\ pinned # NoMemory
<1>1. NodeCount * Degree \in Nat \ {0}
  BY TopologyAssumption
<1>2. 0 \in Elements /\ \A e \in Elements : e < position
  BY <1>1 DEF Elements, ReadAll
<1>3. HoldsGraph
  BY <1>2, CopyHoldsGraph DEF PinnedInvariant
<1>4. HoldsGraph'
  BY <1>3 DEF HoldsGraph, NeighborsRead, NeighborsBuilt
<1> QED
  BY <1>2, <1>4 DEF PinnedInvariant, NoMemory

(* No other step of the tool touches the copy, and none but a failure goes *)
(* back to where there may be none.                                        *)
LEMMA ToolKeepsTopology ==
  ASSUME [Next]_vars
  PROVE  \/ OpenTopology \/ LoadTopology \/ LibraryLoads
         \/ /\ UNCHANGED <<pinned, position>>
            /\ \/ pc' = pc
               \/ pc \notin {"topology", "load", "library", "failed"} /\ pc' # "load"
<1>1. CASE Write \/ Build
  BY <1>1 DEF Write, Build, WriteRow, StartBuild, toolvars, topologyvars
<1>2. CASE ToolStep
  <2>1. CASE LoadBase \/ LoadRefine \/ LoadHybrid \/ LoadStore \/ Plan \/ ComputeEntries
    BY <1>2, <2>1
    DEF ToolStep, LoadBase, LoadRefine, LoadHybrid, LoadStore, Loaded, Goto, Plan,
        ComputeEntries, topologyvars, OpenTopology, LoadTopology
  <2>2. CASE Keep \/ Clear \/ Drop \/ Activate
    BY <1>2, <2>2 DEF ToolStep, Keep, Clear, Drop, Activate, Goto, topologyvars, OpenTopology, LoadTopology
  <2>3. CASE StageASeeds \/ StageAReads \/ StageBReads \/ EndRun \/ Done
    BY <1>2, <2>3
    DEF ToolStep, StageASeeds, StageAReads, StageBReads, EndRun, Done, Goto, topologyvars, OpenTopology, LoadTopology
  <2>4. CASE OpenTrace \/ Alone \/ Repeat \/ EndTrace
    BY <1>2, <2>4 DEF ToolStep, OpenTrace, Alone, Repeat, EndTrace, Goto, topologyvars, OpenTopology, LoadTopology
  <2> QED
    BY <1>2, <2>1, <2>2, <2>3, <2>4 DEF ToolStep
<1>3. CASE Together \/ CallFails
  BY <1>3 DEF Together, CallFails, Goto, topologyvars
<1>4. CASE LibraryLoads \/ LibrarySearch \/ Terminated \/ UNCHANGED vars
  BY <1>4 DEF LibrarySearch, Terminated, vars, toolvars, topologyvars
<1> QED
  BY <1>1, <1>2, <1>3, <1>4 DEF Next

(* Whatever a build does to the file while it is loaded, in however many   *)
(* pieces it is read, and from wherever the copy comes, a topology that is *)
(* used is the graph, and a load that failed leaves none.                  *)
THEOREM PinnedTopologyIsGraph == Spec => []PinnedAsBuilt
<1>1. Init => PinnedInvariant
  BY DEF Init, InitTopology, PinnedInvariant, PinnedAsBuilt
<1>2. ASSUME PinnedInvariant, [Next]_vars PROVE PinnedInvariant'
  <2>1. CASE OpenTopology
    <3>1. CASE Allocate /\ Goto("load")
      BY <3>1 DEF Allocate, Goto, PinnedInvariant, PinnedAsBuilt, Elements
    <3>2. CASE UNCHANGED topologyvars /\ Goto("failed")
      BY <1>2, <2>1, <3>2
      DEF OpenTopology, topologyvars, Goto, PinnedInvariant, PinnedAsBuilt, NoMemory, HoldsGraph,
          NeighborsRead, NeighborsBuilt
    <3> QED
      BY <2>1, <3>1, <3>2 DEF OpenTopology
  <2>2. CASE LoadTopology
    <3>1. CASE ReadPiece /\ Goto("load")
      BY <1>2, <2>2, <3>1, PieceKeepsPlaces DEF LoadTopology, Goto
    <3>2. CASE ReadAll /\ UNCHANGED pinned /\ Goto("pq")
      BY <1>2, <2>2, <3>2, LoadedIsWhole DEF LoadTopology, Goto, PinnedInvariant, PinnedAsBuilt, NoMemory
    <3>3. CASE Release /\ Goto("failed")
      BY <3>3 DEF Release, Goto, PinnedInvariant, PinnedAsBuilt, NoMemory
    <3> QED
      BY <2>2, <3>1, <3>2, <3>3 DEF LoadTopology
  <2>3. CASE LibraryLoads
    <3>1. pc = "library" /\ pc' = "library"
      BY <2>3 DEF LibraryLoads, toolvars
    <3>2. CASE UNCHANGED topologyvars
      BY <1>2, <3>1, <3>2
      DEF topologyvars, PinnedInvariant, PinnedAsBuilt, NoMemory, HoldsGraph, NeighborsRead, NeighborsBuilt
    <3>3. CASE \E most \in {Degree, Degree + 1} :
                 FromDataset([n \in Nodes |-> First(Adjacency[n], most)])
      BY <3>1, <3>3, DatasetHoldsGraph DEF PinnedInvariant, PinnedAsBuilt
    <3> QED
      BY <2>3, <3>2, <3>3 DEF LibraryLoads
  <2>4. CASE UNCHANGED <<pinned, position, pc>>
    BY <1>2, <2>4
    DEF PinnedInvariant, PinnedAsBuilt, NoMemory, HoldsGraph, NeighborsRead, NeighborsBuilt,
        Elements, Element, Row
  <2>5. CASE /\ UNCHANGED <<pinned, position>>
             /\ pc \notin {"topology", "load", "library", "failed"} /\ pc' # "load"
    BY <1>2, <2>5
    DEF PinnedInvariant, PinnedAsBuilt, NoMemory, HoldsGraph, NeighborsRead, NeighborsBuilt
  <2> QED
    BY <1>2, <2>1, <2>2, <2>3, <2>4, <2>5, ToolKeepsTopology
<1>3. PinnedInvariant => PinnedAsBuilt
  BY DEF PinnedInvariant
<1> QED
  BY <1>1, <1>2, <1>3, PTL DEF Spec
-----------------------------------------------------------------------------
(* The page cache: what a range number, a slot and a page state mean.      *)
StatesOf(f) == [0 .. FilePages[f] - 1 -> 0 .. SlotCount]
PageStates  == (UNION {StatesOf(f) : f \in Files}) \cup {Freed}

CacheTypes ==
  /\ buffers \in Seq(PageStates) /\ ranges \in [Ranges -> 0 .. Len(buffers)] /\ n_ranges \in Nat
  /\ slots \in [Slots -> [taken : BOOLEAN, range : Ranges, page : Nat, device : Nat]]
  /\ ticket \in Slots

InUse == {P \in {vector_page_provider, topology, combined, held} : P # None}

(* A provider in use has the range number and the page states of its file. *)
Registered(P) ==
  /\ P.file \in Files /\ P.range \in Ranges /\ P.buffer \in 1 .. Len(buffers)
  /\ ranges[P.range] = P.buffer
  /\ buffers[P.buffer] \in StatesOf(P.file)

(* A page that its provider holds cached is in the slot it names, and the  *)
(* slot knows it by the provider's number.                                 *)
SlotHolds(P, p) ==
  LET s == buffers[P.buffer][p]
  IN  /\ s \in Slots /\ slots[s].taken /\ slots[s].range = P.range /\ slots[s].page = p
      /\ slots[s].device = DeviceStart[P.file] + p

ProvidersServe ==
  /\ n_ranges \in 1 .. MaxRanges
  /\ \A s \in Slots : Alive(slots[s])
  /\ \A P \in InUse :
       /\ Registered(P)
       /\ \A p \in 0 .. FilePages[P.file] - 1 : Cached(P, p) => SlotHolds(P, p)
  /\ \A P, Q \in InUse : P.buffer = Q.buffer => P = Q

(* New cache memory holds no old translations, and the number of ranges is *)
(* that of the provider with the most files, at least.                     *)
NewCache ==
  FreshTranslations \subseteq {<<0, 0>>} /\ MaxRanges >= 2

Setup == {"topology", "load", "pq", "pq2", "hpq", "store", "plan", "entries", "open_trace"}

NoProviders == vector_page_provider = None /\ topology = None /\ combined = None

Idle == pc \in Setup \cup {"clear", "activate"} \/ (pc \in {"switch", "run"} /\ ~active)

NotServing ==
  /\ Idle => /\ n_ranges = 0
             /\ \A s \in Slots : ~slots[s].taken /\ slots[s].range = 0 /\ slots[s].page = 0
  /\ pc \in Setup \cup {"activate", "alone", "together"} => NoProviders
  /\ pc \in {"switch", "run"} /\ ~active => NoProviders
  /\ pc \in Setup \cup {"switch", "run", "clear", "activate"} => held = None
  /\ pc \in Setup => ~active
  /\ pc \in {"clear", "activate"} => Run.provider \in {"vector", "topology", "combined"}
  /\ pc \in {"alone", "together"} => held # None

CacheInvariant ==
  CacheTypes /\ n_ranges <= MaxRanges /\ NotServing /\ (Serving => ProvidersServe)

LEMMA PageStatesChange ==
  ASSUME NEW states \in PageStates, NEW p, NEW v \in 0 .. SlotCount
  PROVE  [states EXCEPT ![p] = v] \in PageStates
<1>1. CASE states = Freed
  <2>1. [Freed EXCEPT ![p] = v] = Freed
    BY DEF Freed
  <2>2. Freed \in PageStates
    BY DEF PageStates
  <2> QED
    BY <1>1, <2>1, <2>2
<1>2. ASSUME NEW f \in Files, states \in StatesOf(f)
      PROVE  [states EXCEPT ![p] = v] \in StatesOf(f)
  BY <1>2 DEF StatesOf
<1>3. states = Freed \/ \E f \in Files : states \in StatesOf(f)
  BY DEF PageStates
<1>4. CASE \E f \in Files : states \in StatesOf(f)
  BY <1>2, <1>4 DEF PageStates
<1> QED
  BY <1>1, <1>3, <1>4

WithState(arrays, b, p, v) == [arrays EXCEPT ![b][p] = v]

LEMMA BuffersChange ==
  ASSUME NEW arrays \in Seq(PageStates), NEW b, NEW p, NEW v \in 0 .. SlotCount
  PROVE  LET changed == WithState(arrays, b, p, v)
         IN  /\ changed \in Seq(PageStates) /\ Len(changed) = Len(arrays)
             /\ DOMAIN changed = DOMAIN arrays
             /\ \A i \in DOMAIN arrays :
                  /\ DOMAIN changed[i] = DOMAIN arrays[i]
                  /\ \A j \in DOMAIN arrays[i] :
                       changed[i][j] = IF i = b /\ j = p THEN v ELSE arrays[i][j]
<1> DEFINE changed == [arrays EXCEPT ![b][p] = v]
<1>1. DOMAIN changed = 1 .. Len(arrays) /\ DOMAIN arrays = 1 .. Len(arrays) /\ Len(arrays) \in Nat
  OBVIOUS
<1>2. ASSUME NEW i \in DOMAIN arrays PROVE changed[i] \in PageStates
  <2>1. arrays[i] \in PageStates
    OBVIOUS
  <2>2. changed[i] = IF i = b THEN [arrays[i] EXCEPT ![p] = v] ELSE arrays[i]
    OBVIOUS
  <2> QED
    BY <2>1, <2>2, PageStatesChange
<1>3. changed \in Seq(PageStates) /\ Len(changed) = Len(arrays)
  <2> HIDE DEF changed
  <2>1. changed \in [1 .. Len(arrays) -> PageStates] \/ changed # [i \in 1 .. Len(arrays) |-> changed[i]]
    BY <1>1, <1>2
  <2>2. changed = [i \in 1 .. Len(arrays) |-> changed[i]]
    BY <1>1 DEF changed
  <2> QED
    BY <1>1, <1>2, <2>1, <2>2
<1>4. ASSUME NEW i \in DOMAIN arrays
      PROVE  /\ DOMAIN changed[i] = DOMAIN arrays[i]
             /\ \A j \in DOMAIN arrays[i] :
                  changed[i][j] = IF i = b /\ j = p THEN v ELSE arrays[i][j]
  OBVIOUS
<1>5. WithState(arrays, b, p, v) = changed
  BY DEF WithState
<1> HIDE DEF changed
<1> QED
  BY <1>1, <1>3, <1>4, <1>5

(* The ranges of one or two files are the first ones.                      *)
LEMMA FirstRanges ==
  ASSUME NEW k \in 1 .. 2, NEW j \in 1 .. k, NEW most \in Nat, most >= 2
  PROVE  j - 1 \in 0 .. most - 1 /\ j - 1 >= 0 /\ j - 1 < k
<1>1. k \in Nat /\ j \in Nat /\ 1 <= j /\ j <= k /\ k <= 2
  OBVIOUS
<1> QED
  BY <1>1

(* The providers of a step, and the states of their pages.                 *)
LEMMA RangesAdded ==
  ASSUME NewCache, CacheTypes, NEW files \in Seq(Files), Len(files) \in 1 .. 2, n_ranges = 0,
         AddRanges(files)
  PROVE  /\ CacheTypes' /\ n_ranges' = Len(files)
         /\ \A i \in 1 .. Len(files) :
              LET P == Provider(files[i], i)
              IN  /\ P.file = files[i] /\ P.range = i - 1 /\ P.range \in Ranges
                  /\ P.buffer = Len(buffers) + i /\ P.buffer \in 1 .. Len(buffers')
                  /\ ranges'[P.range] = P.buffer
                  /\ buffers'[P.buffer] = [p \in 0 .. FilePages[P.file] - 1 |-> NotCached]
<1> DEFINE fresh(i) == [p \in 0 .. FilePages[files[i]] - 1 |-> NotCached]
           added == [i \in DOMAIN files |-> fresh(i)]
<1>1. /\ SlotCount \in Nat \ {0} /\ MaxRanges \in Nat \ {0} /\ MaxRanges >= 2
      /\ FilePages \in [Files -> Nat \ {0}] /\ NotCached \in 0 .. SlotCount
  BY SharedCacheAssumption, DeviceImageAssumption DEF NewCache, NotCached
<1>2. DOMAIN files = 1 .. Len(files) /\ \A i \in 1 .. Len(files) : files[i] \in Files
  OBVIOUS
<1>3. \A i \in 1 .. Len(files) : fresh(i) \in PageStates
  <2> SUFFICES ASSUME NEW i \in 1 .. Len(files) PROVE fresh(i) \in PageStates
    OBVIOUS
  <2>1. fresh(i) \in StatesOf(files[i])
    BY <1>1, <1>2 DEF StatesOf
  <2> HIDE DEF fresh
  <2> QED
    BY <1>2, <2>1 DEF PageStates
<1>4. added \in Seq(PageStates) /\ Len(added) = Len(files) /\ Len(files) \in Nat
      /\ \A i \in 1 .. Len(files) : added[i] = fresh(i)
  <2> HIDE DEF fresh
  <2> QED
    BY <1>2, <1>3
<1>5. buffers' = buffers \o added /\ buffers \in Seq(PageStates) /\ added \in Seq(PageStates)
  BY <1>4 DEF AddRanges, CacheTypes
<1> HIDE DEF added
<1>6. /\ buffers' \in Seq(PageStates) /\ Len(buffers') = Len(buffers) + Len(files)
      /\ \A i \in 1 .. Len(files) : buffers'[Len(buffers) + i] = fresh(i)
      /\ Len(buffers) \in Nat
  <2> HIDE DEF fresh
  <2>1. buffers' \in Seq(PageStates) /\ Len(buffers') = Len(buffers) + Len(files) /\ Len(buffers) \in Nat
    <3>1. Len(added) = Len(files)
      BY <1>4
    <3>2. /\ buffers \o added \in Seq(PageStates)
          /\ Len(buffers \o added) = Len(buffers) + Len(added)
      BY <1>5, ConcatProperties
    <3>3. Len(buffers) \in Nat
      BY <1>5
    <3> QED
      BY <1>5, <3>1, <3>2, <3>3
  <2>2. ASSUME NEW i \in 1 .. Len(files) PROVE buffers'[Len(buffers) + i] = fresh(i)
    <3>1. /\ Len(buffers) + i \in 1 .. Len(buffers) + Len(added)
          /\ ~(Len(buffers) + i <= Len(buffers)) /\ (Len(buffers) + i) - Len(buffers) = i
      BY <1>4, <2>1
    <3>2. (buffers \o added)[Len(buffers) + i] = added[(Len(buffers) + i) - Len(buffers)]
      BY <1>4, <1>5, <2>1, <3>1
    <3> QED
      BY <1>4, <1>5, <3>1, <3>2
  <2> QED
    BY <2>1, <2>2
<1>7. ranges' = [r \in Ranges |-> IF r >= 0 /\ r < Len(files) THEN Len(buffers) + 1 + r ELSE ranges[r]]
  <2>1. ranges' = [r \in Ranges |-> IF r >= n_ranges /\ r < n_ranges + Len(files)
                                    THEN Len(buffers) + 1 + r - n_ranges ELSE ranges[r]]
    BY DEF AddRanges
  <2>2. \A r \in Ranges : Len(buffers) + 1 + r - 0 = Len(buffers) + 1 + r /\ 0 + Len(files) = Len(files)
    BY <1>1, <1>4, <1>6 DEF Ranges
  <2> QED
    BY <2>1, <2>2
<1>8. CacheTypes'
  <2>1. ranges' \in [Ranges -> 0 .. Len(buffers')]
    <3>1. ASSUME NEW r \in Ranges
          PROVE  (IF r >= 0 /\ r < Len(files) THEN Len(buffers) + 1 + r ELSE ranges[r])
                   \in 0 .. Len(buffers')
      <4>1. r \in Nat /\ ranges[r] \in 0 .. Len(buffers)
        BY <1>1 DEF Ranges, CacheTypes
      <4> QED
        BY <1>4, <1>6, <4>1
    <3> QED
      BY <1>7, <3>1
  <2>2. n_ranges' \in Nat /\ UNCHANGED <<slots, ticket>>
    BY <1>4 DEF AddRanges
  <2> QED
    BY <1>6, <2>1, <2>2 DEF CacheTypes
<1>9. ASSUME NEW i \in 1 .. Len(files)
      PROVE  LET P == Provider(files[i], i)
             IN  /\ P.file = files[i] /\ P.range = i - 1 /\ P.range \in Ranges
                 /\ P.buffer = Len(buffers) + i /\ P.buffer \in 1 .. Len(buffers')
                 /\ ranges'[P.range] = P.buffer
                 /\ buffers'[P.buffer] = fresh(i)
  <2>1. i - 1 \in Ranges /\ i - 1 >= 0 /\ i - 1 < Len(files)
    <3>1. MaxRanges \in Nat /\ MaxRanges >= 2
      BY <1>1, Zenon
    <3>2. Ranges = 0 .. MaxRanges - 1
      BY DEF Ranges
    <3>3. Len(files) \in 1 .. 2
      OBVIOUS
    <3> QED
      BY <3>1, <3>2, <3>3, FirstRanges, Zenon
  <2>2. /\ Len(buffers) + 1 + (i - 1) = Len(buffers) + i
        /\ 0 + i - 1 = i - 1 /\ Len(buffers) + i \in 1 .. Len(buffers')
    BY <1>4, <1>6
  <2> HIDE DEF fresh
  <2> QED
    BY <1>6, <1>7, <2>1, <2>2 DEF Provider
<1>10. n_ranges' = Len(files)
  BY <1>4 DEF AddRanges
<1>11. \A i : Provider(files[i], i).file = files[i]
  BY DEF Provider
<1> QED
  BY <1>8, <1>9, <1>10, <1>11

LEMMA StatesByDomain ==
  ASSUME NEW states \in PageStates, NEW f \in Files, DOMAIN states = 0 .. FilePages[f] - 1
  PROVE  states \in StatesOf(f)
<1>1. FilePages[f] \in Nat \ {0} /\ 0 \in 0 .. FilePages[f] - 1
  BY DeviceImageAssumption
<1>2. states # Freed
  <2>1. DOMAIN Freed = {}
    BY DEF Freed
  <2> QED
    BY <1>1, <2>1
<1>3. PICK g \in Files : states \in StatesOf(g)
  BY <1>2 DEF PageStates
<1> QED
  BY <1>3 DEF StatesOf

(* An access through a provider in use keeps the meaning of the numbers:   *)
(* the page state it evicts is that of the page in the slot.               *)
LEMMA AccessServes ==
  ASSUME CacheTypes, ProvidersServe, NEW P \in InUse, NEW p \in DOMAIN buffers[P.buffer],
         Access(P, p), InUse' = InUse
  PROVE  CacheTypes' /\ ProvidersServe'
<1>1. /\ SlotCount \in Nat \ {0} /\ NotCached = SlotCount /\ ticket \in Slots
      /\ ticket \in 0 .. SlotCount /\ NotCached \in 0 .. SlotCount /\ NotCached \notin Slots
      /\ (ticket + 1) % SlotCount \in Slots
  BY SharedCacheAssumption DEF CacheTypes, NotCached, Slots
<1>2. Registered(P)
  BY DEF ProvidersServe
<1>3. /\ DOMAIN buffers[P.buffer] = 0 .. FilePages[P.file] - 1 /\ p \in Nat
      /\ DeviceStart[P.file] + p \in Nat /\ P.range \in Ranges
  <2>1. DOMAIN buffers[P.buffer] = 0 .. FilePages[P.file] - 1
    BY <1>2 DEF Registered, StatesOf
  <2>2. FilePages[P.file] \in Nat /\ DeviceStart[P.file] \in Nat
    BY <1>2, DeviceImageAssumption DEF Registered
  <2> QED
    BY <1>2, <2>1, <2>2 DEF Registered
<1>4. CASE Cached(P, p)
  BY <1>4
  DEF Access, cache, CacheTypes, ProvidersServe, Registered, Alive, Cached, SlotHolds
<1>5. CASE ~Cached(P, p)
  <2> DEFINE old == slots[ticket]
             Taken(i, j) == old.taken /\ Alive(old) /\ i = ranges[old.range] /\ j = old.page
             New(i, j) == i = P.buffer /\ j = p
  <2>1. /\ buffers' = [Evicted EXCEPT ![P.buffer][p] = ticket]
        /\ slots' = [slots EXCEPT ![ticket] =
                       [taken |-> TRUE, range |-> P.range, page |-> p,
                        device |-> DeviceStart[P.file] + p]]
        /\ ticket' = (ticket + 1) % SlotCount /\ ranges' = ranges /\ n_ranges' = n_ranges
    BY <1>5 DEF Access
  <2>2. /\ Evicted \in Seq(PageStates) /\ Len(Evicted) = Len(buffers)
        /\ DOMAIN Evicted = 1 .. Len(buffers) /\ DOMAIN buffers = 1 .. Len(buffers)
        /\ \A i \in 1 .. Len(buffers) :
             /\ DOMAIN Evicted[i] = DOMAIN buffers[i]
             /\ \A j \in DOMAIN buffers[i] :
                  Evicted[i][j] = IF Taken(i, j) THEN NotCached ELSE buffers[i][j]
    <3>1. buffers \in Seq(PageStates) /\ DOMAIN buffers = 1 .. Len(buffers)
      BY DEF CacheTypes
    <3>2. CASE old.taken /\ Alive(old)
      <4>1. Evicted = WithState(buffers, ranges[old.range], old.page, NotCached)
        BY <3>2 DEF Evicted, WithState
      <4> HIDE DEF old
      <4> QED
        BY <1>1, <3>1, <3>2, <4>1, BuffersChange
    <3>3. CASE ~(old.taken /\ Alive(old))
      <4>1. Evicted = buffers
        BY <3>3 DEF Evicted
      <4> HIDE DEF old
      <4> QED
        BY <3>1, <3>3, <4>1
    <3> QED
      BY <3>2, <3>3
  <2>3. /\ buffers' \in Seq(PageStates) /\ Len(buffers') = Len(buffers)
        /\ \A i \in 1 .. Len(buffers) :
             /\ DOMAIN buffers'[i] = DOMAIN buffers[i]
             /\ \A j \in DOMAIN buffers[i] :
                  buffers'[i][j] = IF New(i, j) THEN ticket
                                   ELSE IF Taken(i, j) THEN NotCached ELSE buffers[i][j]
    <3> DEFINE arrays == Evicted
               changed == WithState(arrays, P.buffer, p, ticket)
    <3>1. arrays \in Seq(PageStates) /\ DOMAIN arrays = 1 .. Len(buffers) /\ Len(arrays) = Len(buffers)
      BY <2>2
    <3> HIDE DEF arrays
    <3>2. /\ changed \in Seq(PageStates) /\ Len(changed) = Len(arrays)
          /\ \A i \in DOMAIN arrays :
               /\ DOMAIN changed[i] = DOMAIN arrays[i]
               /\ \A j \in DOMAIN arrays[i] :
                    changed[i][j] = IF i = P.buffer /\ j = p THEN ticket ELSE arrays[i][j]
      BY <1>1, <3>1, BuffersChange
    <3>3. buffers' = changed
      BY <2>1 DEF arrays, WithState
    <3> HIDE DEF changed, Taken
    <3> QED
      BY <2>2, <3>1, <3>2, <3>3 DEF arrays
  <2>4. CacheTypes'
    <3>1. ranges' \in [Ranges -> 0 .. Len(buffers')]
      BY <2>1, <2>3 DEF CacheTypes
    <3>2. slots' \in [Slots -> [taken : BOOLEAN, range : Ranges, page : Nat, device : Nat]]
      BY <1>3, <2>1 DEF CacheTypes
    <3> QED
      BY <1>1, <2>1, <2>3, <3>1, <3>2 DEF CacheTypes
  <2>5. slots'[ticket] = [taken |-> TRUE, range |-> P.range, page |-> p,
                          device |-> DeviceStart[P.file] + p]
        /\ \A s \in Slots : s # ticket => slots'[s] = slots[s]
    BY <1>1, <2>1 DEF CacheTypes
  <2>6. ASSUME NEW Q \in InUse PROVE Registered(Q)'
    <3>1. Registered(Q)
      BY DEF ProvidersServe
    <3>2. buffers'[Q.buffer] \in PageStates
          /\ DOMAIN buffers'[Q.buffer] = 0 .. FilePages[Q.file] - 1
      <4>1. Q.buffer \in 1 .. Len(buffers) /\ DOMAIN buffers[Q.buffer] = 0 .. FilePages[Q.file] - 1
        BY <3>1 DEF Registered, StatesOf
      <4> QED
        BY <2>3, <4>1
    <3> QED
      BY <2>1, <2>3, <3>1, <3>2, StatesByDomain DEF Registered
  <2>7. ASSUME NEW s \in Slots
        PROVE  LET b == ranges'[slots'[s].range] IN b # NoBuffer /\ slots'[s].page \in DOMAIN buffers'[b]
    <3>1. CASE s = ticket
      <4>1. slots'[s].range = P.range /\ slots'[s].page = p
        BY <2>5, <3>1
      <4>2. ranges'[P.range] = P.buffer /\ P.buffer \in 1 .. Len(buffers)
        BY <1>2, <2>1 DEF Registered
      <4>3. p \in DOMAIN buffers'[P.buffer] /\ P.buffer # 0
        BY <2>3, <4>2
      <4> QED
        BY <4>1, <4>2, <4>3 DEF NoBuffer
    <3>2. CASE s # ticket
      <4>1. Alive(slots[s]) /\ slots'[s] = slots[s]
        BY <2>5, <3>2 DEF ProvidersServe
      <4>2. slots[s].range \in Ranges
        BY DEF CacheTypes
      <4>3. ranges[slots[s].range] \in 0 .. Len(buffers) /\ ranges[slots[s].range] # 0
        BY <4>1, <4>2 DEF CacheTypes, Alive, NoBuffer
      <4>4. Len(buffers) \in Nat /\ ranges[slots[s].range] \in 1 .. Len(buffers)
        <5>1. Len(buffers) \in Nat
          BY DEF CacheTypes
        <5> QED
          BY <4>3, <5>1
      <4>5. slots[s].page \in DOMAIN buffers[ranges[slots[s].range]]
        BY <4>1 DEF Alive
      <4>6. DOMAIN buffers'[ranges[slots[s].range]] = DOMAIN buffers[ranges[slots[s].range]]
        BY <2>3, <4>4
      <4> QED
        BY <2>1, <4>1, <4>3, <4>5, <4>6 DEF NoBuffer
    <3> QED
      BY <3>1, <3>2
  <2>8. ASSUME NEW Q \in InUse, NEW q \in 0 .. FilePages[Q.file] - 1, Cached(Q, q)'
        PROVE  SlotHolds(Q, q)'
    <3>1. /\ Registered(Q) /\ Q.buffer \in 1 .. Len(buffers) /\ q \in DOMAIN buffers[Q.buffer]
          /\ ranges[Q.range] = Q.buffer
      BY DEF ProvidersServe, Registered, StatesOf
    <3>2. buffers'[Q.buffer][q] # NotCached
      BY <2>8 DEF Cached
    <3>3. CASE New(Q.buffer, q)
      <4>1. Q = P /\ q = p
        BY <3>3 DEF ProvidersServe
      <4>2. buffers'[Q.buffer][q] = ticket
        BY <2>3, <3>1, <3>3
      <4> QED
        BY <1>1, <2>5, <4>1, <4>2 DEF SlotHolds
    <3>4. CASE ~New(Q.buffer, q)
      <4>1. ~Taken(Q.buffer, q) /\ buffers'[Q.buffer][q] = buffers[Q.buffer][q]
        BY <2>3, <3>1, <3>2, <3>4
      <4>2. SlotHolds(Q, q)
        BY <3>2, <4>1 DEF ProvidersServe, Cached
      <4>3. buffers[Q.buffer][q] # ticket
        <5>1. ASSUME buffers[Q.buffer][q] = ticket PROVE Taken(Q.buffer, q)
          BY <1>1, <3>1, <4>2, <5>1 DEF SlotHolds, ProvidersServe
        <5> QED
          BY <4>1, <5>1
      <4> QED
        BY <2>5, <4>1, <4>2, <4>3 DEF SlotHolds
    <3> QED
      BY <3>3, <3>4
  <2>9. /\ n_ranges' \in 1 .. MaxRanges
        /\ \A s \in Slots : Alive(slots[s])'
    BY <2>1, <2>7 DEF Alive, ProvidersServe
  <2>10. \A Q \in InUse' : /\ Registered(Q)'
                           /\ \A q \in 0 .. FilePages[Q.file] - 1 : Cached(Q, q)' => SlotHolds(Q, q)'
    BY <2>6, <2>8
  <2>11. \A Q, R \in InUse' : Q.buffer = R.buffer => Q = R
    BY DEF ProvidersServe
  <2> QED
    BY <2>4, <2>9, <2>10, <2>11 DEF ProvidersServe
<1> QED
  BY <1>4, <1>5

(* The providers of a step that starts with no ranges serve: old slots     *)
(* have the number of the first of them and its first page.                *)
LEMMA OpenedServe ==
  ASSUME NewCache, CacheTypes, NEW files \in Seq(Files), Len(files) \in 1 .. 2, n_ranges = 0,
         AddRanges(files), \A s \in Slots : slots[s].range = 0 /\ slots[s].page = 0,
         InUse' \subseteq {Provider(files[i], i) : i \in 1 .. Len(files)}
  PROVE  CacheTypes' /\ ProvidersServe' /\ n_ranges' <= MaxRanges
<1>1. /\ MaxRanges \in Nat \ {0} /\ MaxRanges >= 2 /\ FilePages \in [Files -> Nat \ {0}]
      /\ \A i \in 1 .. Len(files) : files[i] \in Files
  BY SharedCacheAssumption, DeviceImageAssumption DEF NewCache
<1>2. /\ CacheTypes' /\ n_ranges' = Len(files)
      /\ \A i \in 1 .. Len(files) :
           LET P == Provider(files[i], i)
           IN  /\ P.file = files[i] /\ P.range = i - 1 /\ P.range \in Ranges
               /\ P.buffer = Len(buffers) + i /\ P.buffer \in 1 .. Len(buffers')
               /\ ranges'[P.range] = P.buffer
               /\ buffers'[P.buffer] = [p \in 0 .. FilePages[P.file] - 1 |-> NotCached]
  BY RangesAdded
<1>3. n_ranges' \in 1 .. MaxRanges /\ n_ranges' <= MaxRanges
  <2>1. Len(files) \in 1 .. 2 /\ n_ranges' = Len(files)
    BY <1>2
  <2>2. MaxRanges \in Nat /\ MaxRanges >= 2
    BY <1>1
  <2> QED
    BY <2>1, <2>2
<1>4. Len(buffers) \in Nat
  BY DEF CacheTypes
<1>5. ASSUME NEW s \in Slots PROVE Alive(slots[s])'
  <2>1. slots'[s].range = 0 /\ slots'[s].page = 0
    BY DEF AddRanges
  <2>2. 1 \in 1 .. Len(files) /\ 1 - 1 = 0
    <3>1. ASSUME NEW k \in 1 .. 2 PROVE 1 \in 1 .. k /\ 1 - 1 = 0
      OBVIOUS
    <3> QED
      BY <3>1, Zenon
  <2>3. /\ ranges'[0] = Len(buffers) + 1
        /\ buffers'[Len(buffers) + 1] = [p \in 0 .. FilePages[files[1]] - 1 |-> NotCached]
    <3> DEFINE P == Provider(files[1], 1)
    <3>1. /\ P.file = files[1] /\ P.range = 1 - 1 /\ P.buffer = Len(buffers) + 1
          /\ ranges'[P.range] = P.buffer
          /\ buffers'[P.buffer] = [p \in 0 .. FilePages[P.file] - 1 |-> NotCached]
      BY <1>2, <2>2
    <3> HIDE DEF P
    <3>2. P.range = 0
      BY <3>1
    <3> QED
      BY <3>1, <3>2
  <2>4. Len(buffers) + 1 # 0 /\ 0 \in 0 .. FilePages[files[1]] - 1
    BY <1>1, <1>4, <2>2
  <2> QED
    BY <2>1, <2>3, <2>4 DEF Alive, NoBuffer
<1>6. ASSUME NEW P \in InUse'
      PROVE  Registered(P)' /\ \A p \in 0 .. FilePages[P.file] - 1 : ~Cached(P, p)'
  <2>1. PICK i \in 1 .. Len(files) : P = Provider(files[i], i)
    OBVIOUS
  <2>2. /\ P.file \in Files /\ P.range \in Ranges /\ P.buffer \in 1 .. Len(buffers')
        /\ ranges'[P.range] = P.buffer
        /\ buffers'[P.buffer] = [p \in 0 .. FilePages[P.file] - 1 |-> NotCached]
    BY <1>1, <1>2, <2>1
  <2>3. NotCached \in 0 .. SlotCount
    BY SharedCacheAssumption DEF NotCached
  <2> QED
    BY <2>2, <2>3 DEF Registered, StatesOf, Cached
<1>7. ASSUME NEW P \in InUse', NEW Q \in InUse', P.buffer = Q.buffer PROVE P = Q
  <2>1. PICK i \in 1 .. Len(files) : P = Provider(files[i], i)
    OBVIOUS
  <2>2. PICK j \in 1 .. Len(files) : Q = Provider(files[j], j)
    OBVIOUS
  <2>3. P.buffer = Len(buffers) + i /\ Q.buffer = Len(buffers) + j
    BY <1>2, <2>1, <2>2
  <2>4. i = j
    <3> DEFINE length == Len(buffers)
    <3>1. i \in Nat /\ j \in Nat
      OBVIOUS
    <3>2. length \in Nat /\ P.buffer = length + i /\ Q.buffer = length + j
      BY <1>4, <2>3
    <3> HIDE DEF length
    <3>3. length + i = length + j
      BY <1>7, <3>2
    <3> QED
      BY <3>1, <3>2, <3>3
  <2> QED
    BY <2>1, <2>2, <2>4
<1> QED
  BY <1>2, <1>3, <1>5, <1>6, <1>7 DEF ProvidersServe

(* A step that leaves the cache and the providers keeps the invariant if   *)
(* it stays in its phase of the tool or ends it.                           *)
Stays ==
  \/ pc' = pc /\ UNCHANGED script
  \/ pc' \in {"done", "failed", "refused"}
  \/ pc \in Setup /\ pc' \in Setup \cup {"switch"}
  \/ pc \in {"switch", "run"} /\ pc' \in {"switch", "run"}
  \/ pc = "together" /\ pc' = "alone"

LEMMA StayingKeeps ==
  ASSUME CacheInvariant, UNCHANGED <<cache, held, active>>, Stays,
         UNCHANGED providers \/ (pc \in Setup /\ NoProviders')
  PROVE  CacheInvariant'
<1>1. CacheTypes' /\ n_ranges' <= MaxRanges
  BY DEF CacheInvariant, CacheTypes, cache
<1>2. CASE UNCHANGED providers
  <2>1. InUse' = InUse
    BY <1>2 DEF InUse, providers, vector_page_provider
  <2>2. UNCHANGED <<buffers, ranges, n_ranges, slots, ticket>>
    BY DEF cache
  <2>3. ProvidersServe => ProvidersServe'
    BY <2>1, <2>2 DEF ProvidersServe, Registered, Alive, Cached, SlotHolds
  <2>4. NoProviders' = NoProviders
    BY <1>2 DEF NoProviders, providers, vector_page_provider
  <2>5. NotServing'
    BY <2>2, <2>4 DEF CacheInvariant, NotServing, Idle, Setup, Stays, Run
  <2>6. Serving' => Serving
    BY DEF CacheInvariant, NotServing, Setup, Stays, Serving
  <2> QED
    BY <1>1, <2>3, <2>5, <2>6 DEF CacheInvariant
<1>3. CASE pc \in Setup /\ NoProviders'
  <2>1. UNCHANGED <<buffers, ranges, n_ranges, slots, ticket>>
    BY DEF cache
  <2>2. NotServing'
    BY <1>3, <2>1 DEF CacheInvariant, NotServing, Idle, Setup, Stays, Run
  <2>3. ~Serving'
    BY <1>3 DEF CacheInvariant, NotServing, Setup, Stays, Serving
  <2> QED
    BY <1>1, <2>2, <2>3 DEF CacheInvariant
<1> QED
  BY <1>2, <1>3

(* A read through a provider in use.                                       *)
LEMMA ReadKeeps ==
  ASSUME CacheInvariant, pc \in {"run", "alone", "together"}, pc' = pc \/ (pc = "alone" /\ pc' = "together"),
         UNCHANGED <<held, active, script, providers>>,
         NEW P \in InUse, NEW perPage, NEW n, NEW wanted, ReadRecord(P, perPage, n, wanted)
  PROVE  CacheInvariant'
<1>1. Serving
  BY DEF CacheInvariant, NotServing, NoProviders, InUse, Serving
<1>2. InUse' = InUse /\ NoProviders' = NoProviders
  BY DEF InUse, NoProviders, providers, vector_page_provider
<1>3. PageOf(n, perPage) \in DOMAIN buffers[P.buffer] /\ Access(P, PageOf(n, perPage))
  BY DEF ReadRecord
<1>4. CacheTypes' /\ ProvidersServe'
  BY <1>1, <1>2, <1>3, AccessServes DEF CacheInvariant
<1>5. n_ranges' <= MaxRanges
  BY <1>3 DEF Access, cache, CacheInvariant
<1>6. NotServing'
  BY <1>1, <1>2 DEF CacheInvariant, NotServing, Idle, Setup, Serving
<1> QED
  BY <1>4, <1>5, <1>6 DEF CacheInvariant

(* The four steps that change the providers.                               *)
LEMMA ClearKeeps ==
  ASSUME CacheInvariant, Clear PROVE CacheInvariant'
<1>1. /\ pc = "switch" /\ pc' = IF Run.provider \in Options THEN "clear" ELSE "refused"
      /\ UNCHANGED <<script, active, held, store, topology, combined>>
  BY DEF Clear, Goto, providers
<1>2. Options \subseteq {"vector", "topology", "combined"}
  BY DEF Options
<1>3. CASE active /\ Run.provider \in Options
  <2>1. ResetRanges
    BY <1>3 DEF Clear
  <2>2. n_ranges' = 0 /\ \A s \in Slots : ~slots'[s].taken /\ slots'[s].range = 0 /\ slots'[s].page = 0
    BY <2>1 DEF ResetRanges, EmptySlot
  <2>3. MaxRanges \in Nat \ {0} /\ SlotCount \in Nat \ {0}
    BY SharedCacheAssumption
  <2>4. CacheTypes'
    <3>1. buffers' = buffers /\ buffers \in Seq(PageStates)
      BY <2>1 DEF ResetRanges, CacheInvariant, CacheTypes
    <3>2. Len(buffers) \in Nat
      BY <3>1
    <3>3. ranges' \in [Ranges -> 0 .. Len(buffers)]
      BY <2>1, <3>2 DEF ResetRanges, NoBuffer
    <3>4. slots' \in [Slots -> [taken : BOOLEAN, range : Ranges, page : Nat, device : Nat]]
      <4>1. 0 \in Ranges /\ 0 \in Nat
        BY <2>3 DEF Ranges
      <4>2. \A s \in Slots : slots[s].device \in Nat
        BY DEF CacheInvariant, CacheTypes
      <4>3. \A d \in Nat : [EmptySlot EXCEPT !.device = d]
                             \in [taken : BOOLEAN, range : Ranges, page : Nat, device : Nat]
        BY <4>1 DEF EmptySlot
      <4>4. slots' = [s \in Slots |-> [EmptySlot EXCEPT !.device = slots[s].device]]
        BY <2>1 DEF ResetRanges
      <4> QED
        BY <4>2, <4>3, <4>4
    <3>5. ticket' \in Slots /\ n_ranges' \in Nat
      BY <2>1, <2>3 DEF ResetRanges, Slots
    <3> QED
      BY <3>1, <3>3, <3>4, <3>5 DEF CacheTypes
  <2>5. NotServing'
    BY <1>1, <1>2, <1>3, <2>2 DEF CacheInvariant, NotServing, Idle, Setup, Run
  <2> QED
    BY <1>1, <1>3, <2>2, <2>3, <2>4, <2>5 DEF CacheInvariant, Serving
<1>4. CASE ~(active /\ Run.provider \in Options)
  <2>1. UNCHANGED cache
    BY <1>4 DEF Clear
  <2>2. CacheTypes' /\ n_ranges' <= MaxRanges /\ UNCHANGED <<n_ranges, slots>>
    BY <2>1 DEF cache, CacheInvariant, CacheTypes
  <2>3. NotServing'
    BY <1>1, <1>2, <1>4, <2>2 DEF CacheInvariant, NotServing, Idle, Setup, Run
  <2> QED
    BY <1>1, <2>2, <2>3 DEF CacheInvariant, Serving
<1> QED
  BY <1>3, <1>4

LEMMA DropKeeps ==
  ASSUME CacheInvariant, Drop PROVE CacheInvariant'
<1>1. /\ pc = "clear" /\ pc' = "activate" /\ active' = FALSE /\ UNCHANGED <<script, held>>
      /\ buffers' = [b \in DOMAIN buffers |-> Freed]
      /\ UNCHANGED <<ranges, n_ranges, slots, ticket>>
  BY DEF Drop, ReleaseAllBut
<1>2. NoProviders'
  BY DEF Drop, ClearCombined, ClearTopology, ClearVector, NoProviders, vector_page_provider
<1>3. CacheTypes'
  <2>1. buffers \in Seq(PageStates) /\ Freed \in PageStates
    BY DEF CacheInvariant, CacheTypes, PageStates
  <2>2. buffers' \in Seq(PageStates) /\ Len(buffers') = Len(buffers)
    BY <1>1, <2>1
  <2> QED
    BY <1>1, <2>2 DEF CacheInvariant, CacheTypes
<1>4. NotServing'
  BY <1>1, <1>2 DEF CacheInvariant, NotServing, Idle, Setup, Run
<1> QED
  BY <1>1, <1>3, <1>4 DEF CacheInvariant, Serving

LEMMA ActivateKeeps ==
  ASSUME NewCache, CacheInvariant, Activate PROVE CacheInvariant'
<1> DEFINE files == FilesOf(Run.provider)
<1>1. /\ pc = "activate" /\ pc' = "run" /\ active' = TRUE /\ UNCHANGED <<script, held>>
      /\ AddRanges(files) /\ AttachVector(Provider(files[1], 1))
      /\ IF Run.provider = "topology" THEN AttachTopology(Provider(files[2], 2))
         ELSE UNCHANGED topology
      /\ IF Run.provider = "combined" THEN AttachCombined(Provider(files[1], 1))
         ELSE UNCHANGED combined
  BY DEF Activate
<1>2. /\ Run.provider \in {"vector", "topology", "combined"} /\ NoProviders /\ held = None
      /\ n_ranges = 0 /\ \A s \in Slots : slots[s].range = 0 /\ slots[s].page = 0
  BY <1>1 DEF CacheInvariant, NotServing, Idle, Setup
<1>3. /\ files \in Seq(Files) /\ Len(files) \in 1 .. 2
      /\ Run.provider = "topology" => Len(files) = 2
  <2>1. "vectors" \in Files /\ "topology" \in Files /\ "combined" \in Files
    BY ToolAssumption
  <2>2. CASE Run.provider = "vector"
    <3>1. files = <<"vectors">>
      BY <2>2 DEF FilesOf
    <3> HIDE DEF files
    <3> QED
      BY <2>1, <2>2, <3>1
  <2>3. CASE Run.provider = "topology"
    <3>1. files = <<"vectors", "topology">>
      BY <2>3 DEF FilesOf
    <3> HIDE DEF files
    <3> QED
      BY <2>1, <2>3, <3>1
  <2>4. CASE Run.provider = "combined"
    <3>1. files = <<"combined">>
      BY <2>4 DEF FilesOf
    <3> HIDE DEF files
    <3> QED
      BY <2>1, <2>4, <3>1
  <2> QED
    BY <1>2, <2>2, <2>3, <2>4
<1> HIDE DEF files
<1>4. InUse' \subseteq {Provider(files[i], i) : i \in 1 .. Len(files)}
  <2>1. 1 \in 1 .. Len(files) /\ (Run.provider = "topology" => 2 \in 1 .. Len(files))
    BY <1>3
  <2>2. /\ vector_page_provider' \in {None, Provider(files[1], 1)}
        /\ topology' = None \/ (Run.provider = "topology" /\ topology' = Provider(files[2], 2))
        /\ combined' \in {None, Provider(files[1], 1)} /\ held' = None
    BY <1>1, <1>2
    DEF AttachVector, AttachTopology, AttachCombined, vector_page_provider, NoProviders
  <2> QED
    BY <2>1, <2>2 DEF InUse
<1>5. CacheTypes' /\ ProvidersServe' /\ n_ranges' <= MaxRanges
  BY <1>1, <1>2, <1>3, <1>4, OpenedServe DEF CacheInvariant
<1>6. NotServing'
  BY <1>1, <1>2 DEF NotServing, Idle, Setup
<1> QED
  BY <1>5, <1>6 DEF CacheInvariant

LEMMA OpenTraceKeeps ==
  ASSUME NewCache, CacheInvariant, OpenTrace PROVE CacheInvariant'
<1> DEFINE files == <<"combined">>
<1>1. /\ pc = "open_trace" /\ pc' = "alone" /\ AddRanges(files) /\ held' = Provider("combined", 1)
      /\ UNCHANGED <<script, active, store, topology, combined>>
  BY DEF OpenTrace, providers
<1>2. /\ NoProviders /\ held = None /\ n_ranges = 0
      /\ \A s \in Slots : slots[s].range = 0 /\ slots[s].page = 0
  BY <1>1 DEF CacheInvariant, NotServing, Idle, Setup
<1>3. files \in Seq(Files) /\ Len(files) = 1 /\ files[1] = "combined"
  BY ToolAssumption
<1> HIDE DEF files
<1>4. InUse' \subseteq {Provider(files[i], i) : i \in 1 .. Len(files)}
  <2>1. 1 \in 1 .. Len(files) /\ held' = Provider(files[1], 1)
    BY <1>1, <1>3
  <2>2. vector_page_provider' = None /\ topology' = None /\ combined' = None
    BY <1>1, <1>2 DEF vector_page_provider, NoProviders
  <2> QED
    BY <2>1, <2>2 DEF InUse
<1>5. CacheTypes' /\ ProvidersServe' /\ n_ranges' <= MaxRanges
  <2>1. Len(files) \in 1 .. 2
    BY <1>3
  <2> QED
    BY <1>1, <1>2, <1>3, <1>4, <2>1, OpenedServe DEF CacheInvariant
<1>6. held' # None
  <2>1. Len(buffers) \in Nat /\ "combined" \in Files /\ n_ranges = 0
    BY <1>2, ToolAssumption DEF CacheInvariant, CacheTypes
  <2>2. Provider("combined", 1) \in [file : Files, range : Nat, buffer : Nat]
    BY <2>1 DEF Provider
  <2> QED
    BY <1>1, <2>2, ToolAssumption
<1>7. NotServing'
  BY <1>1, <1>2, <1>6 DEF NotServing, Idle, Setup, NoProviders, vector_page_provider
<1> QED
  BY <1>5, <1>7 DEF CacheInvariant

(* The steps that read, and all the others.                                *)
CacheReads == StageAReads \/ StageBReads \/ Alone \/ Together

LEMMA ReadsKeep ==
  ASSUME CacheInvariant, CacheReads, pc # "together" \/ ~(UNCHANGED cache) PROVE CacheInvariant'
<1>1. CASE StageAReads
  <2> DEFINE P == IF Reuses THEN combined ELSE topology
  <2>1. P # None /\ P \in InUse
    BY <1>1 DEF StageAReads, StageARefuses, InUse
  <2>2. \E perPage, n, wanted : ReadRecord(P, perPage, n, wanted)
    BY <1>1 DEF StageAReads
  <2>3. pc = "run" /\ pc' = pc /\ UNCHANGED <<held, active, script, providers>>
    BY <1>1 DEF StageAReads
  <2> HIDE DEF P
  <2> QED
    BY <2>1, <2>2, <2>3, ReadKeeps
<1>2. CASE StageBReads
  <2> DEFINE P == vector_page_provider
  <2>1. P \in InUse
    BY <1>2 DEF StageBReads, InUse
  <2>2. \E perPage, n, wanted : ReadRecord(P, perPage, n, wanted)
    BY <1>2 DEF StageBReads
  <2>3. pc = "run" /\ pc' = pc /\ UNCHANGED <<held, active, script, providers>>
    BY <1>2 DEF StageBReads
  <2> HIDE DEF P
  <2> QED
    BY <2>1, <2>2, <2>3, ReadKeeps
<1>3. CASE Alone
  <2>1. held \in InUse
    BY <1>3 DEF Alone, InUse, CacheInvariant, NotServing
  <2>2. \E perPage, n, wanted : ReadRecord(held, perPage, n, wanted)
    BY <1>3 DEF Alone, ReadTrace
  <2>3. pc = "alone" /\ pc' = "together" /\ UNCHANGED <<held, active, script, providers>>
    BY <1>3 DEF Alone
  <2> QED
    BY <2>1, <2>2, <2>3, ReadKeeps
<1>4. CASE Together
  <2>1. held \in InUse
    BY <1>4 DEF Together, InUse, CacheInvariant, NotServing
  <2>2. \E perPage, n, wanted : ReadRecord(held, perPage, n, wanted)
    BY <1>4 DEF Together, ReadTrace
  <2>3. pc = "together" /\ pc' = pc /\ UNCHANGED <<held, active, script, providers>>
    BY <1>4 DEF Together
  <2> QED
    BY <2>1, <2>2, <2>3, ReadKeeps
<1> QED
  BY <1>1, <1>2, <1>3, <1>4 DEF CacheReads

LEMMA OthersStay ==
  ASSUME CacheInvariant, [Next]_vars
  PROVE  \/ Clear \/ Drop \/ Activate \/ OpenTrace
         \/ CacheReads /\ (pc # "together" \/ ~(UNCHANGED cache))
         \/ /\ UNCHANGED <<cache, held, active>> /\ Stays
            /\ UNCHANGED providers \/ (pc \in Setup /\ NoProviders')
<1> DEFINE Quiet == /\ UNCHANGED <<cache, held, active>> /\ Stays
                    /\ UNCHANGED providers \/ (pc \in Setup /\ NoProviders')
<1>1. CASE Write \/ Build
  BY <1>1 DEF Write, Build, toolvars, Stays
<1>2. CASE ToolStep
  <2>1. CASE OpenTopology \/ LoadTopology
    BY <2>1 DEF OpenTopology, LoadTopology, Goto, Stays, Setup
  <2>2. CASE LoadBase \/ LoadRefine \/ LoadHybrid
    BY <2>2 DEF LoadBase, LoadRefine, LoadHybrid, Loaded, Goto, LoadPqIndex, LoadPq2Index,
                LoadHpqIndex, Stays, Setup
  <2>3. CASE LoadStore
    <3>1. /\ pc = "store" /\ pc' \in {"plan", "failed"} /\ UNCHANGED <<cache, held, active>>
      BY <2>3 DEF LoadStore, Loaded, Goto
    <3>2. NoProviders
      BY <3>1 DEF CacheInvariant, NotServing, Setup
    <3>3. NoProviders'
      BY <2>3, <3>2 DEF LoadStore, LoadVectorStore, NoProviders, vector_page_provider
    <3> QED
      BY <3>1, <3>3 DEF Stays, Setup
  <2>4. CASE Plan \/ ComputeEntries
    BY <2>4 DEF Plan, ComputeEntries, Stays, Setup
  <2>5. CASE Keep \/ Clear \/ Drop \/ Activate
    BY <2>5 DEF Keep, Goto, Stays
  <2>6. CASE StageASeeds \/ StageAReads \/ StageBReads
    BY <2>6 DEF StageASeeds, StageAReads, StageBReads, Stays, CacheReads
  <2>7. CASE EndRun \/ Done
    BY <2>7 DEF EndRun, Done, Goto, Stays
  <2>8. CASE OpenTrace \/ Alone \/ Repeat \/ EndTrace
    BY <2>8 DEF Alone, Repeat, EndTrace, Goto, Stays, CacheReads
  <2> QED
    BY <1>2, <2>1, <2>2, <2>3, <2>4, <2>5, <2>6, <2>7, <2>8 DEF ToolStep
<1>3. CASE Together
  <2>1. pc = "together" /\ UNCHANGED <<pc, script, held, active, providers>>
    BY <1>3 DEF Together
  <2> QED
    BY <1>3, <2>1 DEF CacheReads, Stays
<1>4. CASE CallFails \/ Terminated \/ UNCHANGED vars
  BY <1>4 DEF CallFails, Goto, Terminated, vars, toolvars, Stays
<1>5. CASE LibrarySearch
  BY <1>5 DEF LibrarySearch, Stays
<1>6. CASE LibraryLoads
  BY <1>6 DEF LibraryLoads, LoadPqIndex, LoadPq2Index, LoadHpqIndex, toolvars, Stays
<1> QED
  BY <1>1, <1>2, <1>3, <1>4, <1>5, <1>6 DEF Next

LEMMA CacheStarts ==
  ASSUME NewCache, Init PROVE CacheInvariant
<1>1. /\ MaxRanges \in Nat \ {0} /\ SlotCount \in Nat \ {0} /\ 0 \in Ranges /\ 0 \in Slots
  BY SharedCacheAssumption DEF Ranges, Slots
<1>2. /\ buffers = <<>> /\ ranges = [r \in Ranges |-> 0] /\ n_ranges = 0 /\ ticket = 0
      /\ slots \in [Slots -> {[taken |-> FALSE, range |-> x[1], page |-> x[2], device |-> 0] :
                        x \in FreshTranslations}]
  BY DEF Init, InitCache, NoBuffer
<1>3. \A s \in Slots : slots[s] = [taken |-> FALSE, range |-> 0, page |-> 0, device |-> 0]
  <2> SUFFICES ASSUME NEW s \in Slots
               PROVE  slots[s] = [taken |-> FALSE, range |-> 0, page |-> 0, device |-> 0]
    OBVIOUS
  <2>1. PICK x \in FreshTranslations :
          slots[s] = [taken |-> FALSE, range |-> x[1], page |-> x[2], device |-> 0]
    BY <1>2
  <2>2. x = <<0, 0>>
    BY DEF NewCache
  <2> QED
    BY <2>1, <2>2
<1>4. CacheTypes
  <2>1. buffers \in Seq(PageStates) /\ Len(buffers) = 0
    BY <1>2
  <2>2. slots \in [Slots -> [taken : BOOLEAN, range : Ranges, page : Nat, device : Nat]]
    <3>1. DOMAIN slots = Slots /\ slots = [s \in Slots |-> slots[s]]
      BY <1>2
    <3>2. [taken |-> FALSE, range |-> 0, page |-> 0, device |-> 0]
            \in [taken : BOOLEAN, range : Ranges, page : Nat, device : Nat]
      BY <1>1
    <3> QED
      BY <1>3, <3>1, <3>2
  <2> QED
    BY <1>1, <1>2, <2>1, <2>2 DEF CacheTypes
<1>5. NoProviders /\ held = None /\ ~active /\ pc \in {"topology", "library"}
  BY DEF Init, NoResources, NoProviders, vector_page_provider
<1>6. NotServing
  BY <1>2, <1>3, <1>5 DEF NotServing, Idle, Setup
<1> QED
  BY <1>1, <1>2, <1>4, <1>5, <1>6 DEF CacheInvariant, Serving

LEMMA CacheStep ==
  ASSUME NewCache, CacheInvariant, [Next]_vars PROVE CacheInvariant'
BY OthersStay, StayingKeeps, ReadsKeep, ClearKeeps, DropKeeps, ActivateKeeps, OpenTraceKeeps

(* As long as providers are in use, an eviction and the flush write to and *)
(* read the page states of one of them, and the range table is never       *)
(* overrun: for every order of runs, command line, failure and access, if  *)
(* new cache memory holds no old translations.                             *)
THEOREM TranslationsStayAlive ==
  ASSUME NewCache PROVE Spec => []TranslationsAlive
<1>1. CacheInvariant => TranslationsAlive
  BY DEF CacheInvariant, ProvidersServe, TranslationsAlive
<1> QED
  BY <1>1, CacheStarts, CacheStep, PTL DEF Spec
-----------------------------------------------------------------------------
(* What is on the device, in the order it is written.                      *)
EndOf(f) == DeviceStart[f] + FilePages[f]

(* The files fit on the device, and the tools that write them are run from *)
(* the lowest place upwards, once for each at least.                       *)
WrittenUpwards ==
  /\ \A f \in Files : EndOf(f) <= DevicePages
  /\ \A order \in WriteOrders :
       /\ order \in Seq(Files)
       /\ \A f \in Files : \E i \in DOMAIN order : order[i] = f
       /\ \A i, j \in DOMAIN order : i < j => EndOf(order[i]) <= DeviceStart[order[j]]

(* The first pages of a file are on the device.                            *)
Stored(f, pages) ==
  \A p \in 0 .. FilePages[f] - 1 : p < pages => image[DeviceStart[f] + p] = <<f, p>>

(* A file is still to be written, or it is whole and lies below those that *)
(* are; of the file that is being written, the pages so far are there.     *)
ImageInvariant ==
  /\ unwritten \in Seq(Files) /\ written \in Nat
  /\ pc \notin {"topology", "library"} => unwritten = <<>>
  /\ pc # "library" =>
       /\ \A i, j \in DOMAIN unwritten : i < j => EndOf(unwritten[i]) <= DeviceStart[unwritten[j]]
       /\ \A f \in Files :
            \/ \E i \in DOMAIN unwritten : unwritten[i] = f
            \/ /\ Stored(f, FilePages[f])
               /\ \A i \in DOMAIN unwritten : EndOf(f) <= DeviceStart[unwritten[i]]
       /\ unwritten # <<>> => Stored(unwritten[1], written)

LEMMA ChunkStores ==
  ASSUME WrittenUpwards, ImageInvariant, pc = "topology", unwritten # <<>>, WriteChunk
  PROVE  LET f == unwritten[1]
         IN  /\ f \in Files
             /\ \A p \in 0 .. FilePages[f] - 1 :
                  p < written + ChunkPages => image'[DeviceStart[f] + p] = <<f, p>>
             /\ \A g \in Files :
                  Stored(g, FilePages[g]) /\ EndOf(g) <= DeviceStart[f] => Stored(g, FilePages[g])'
<1> DEFINE f == unwritten[1]
           first == DeviceStart[f] + written
<1>1. /\ f \in Files /\ Head(unwritten) = f
      /\ FilePages \in [Files -> Nat \ {0}] /\ DeviceStart \in [Files -> Nat]
      /\ DevicePages \in Nat /\ ChunkPages \in Nat \ {0} /\ written \in Nat
  <2>1. unwritten \in Seq(Files)
    BY DEF ImageInvariant
  <2>2. f \in Files /\ Head(unwritten) = f
    BY <2>1
  <2> QED
    BY <2>2, DeviceImageAssumption DEF ImageInvariant
<1>2. first \in Nat /\ DeviceStart[f] \in Nat /\ FilePages[f] \in Nat /\ EndOf(f) <= DevicePages
  BY <1>1 DEF WrittenUpwards
<1>3. image' = [d \in Device |-> IF d >= first /\ d < first + ChunkPages
                                 THEN Payload(f, d - first) ELSE image[d]]
  <2>1. DOMAIN ChunkOf(f) = {e \in Device : e >= first /\ e < first + ChunkPages}
        /\ \A d \in DOMAIN ChunkOf(f) : ChunkOf(f)[d] = Payload(f, d - first)
    BY DEF ChunkOf
  <2>2. image' = [d \in Device |-> IF d \in DOMAIN ChunkOf(f) THEN ChunkOf(f)[d] ELSE image[d]]
    BY <1>1 DEF WriteChunk
  <2> HIDE DEF f, first
  <2> QED
    BY <2>1, <2>2
<1> HIDE DEF f
<1>4. ASSUME NEW p \in 0 .. FilePages[f] - 1, p < written + ChunkPages
      PROVE  image'[DeviceStart[f] + p] = <<f, p>>
  <2>1. DeviceStart[f] + p \in Device
    BY <1>1, <1>2 DEF Device, EndOf
  <2>2. CASE p < written
    <3>1. image[DeviceStart[f] + p] = <<f, p>>
      BY <2>2 DEF ImageInvariant, Stored, f
    <3>2. ~(DeviceStart[f] + p >= first)
      BY <1>1, <1>2, <2>2
    <3> QED
      BY <1>3, <2>1, <3>1, <3>2
  <2>3. CASE p >= written
    <3>1. /\ DeviceStart[f] + p >= first /\ DeviceStart[f] + p < first + ChunkPages
          /\ written + ((DeviceStart[f] + p) - first) = p /\ p < FilePages[f]
      BY <1>1, <1>2, <1>4, <2>3
    <3>2. Payload(f, (DeviceStart[f] + p) - first) = <<f, p>>
      BY <3>1 DEF Payload
    <3> QED
      BY <1>3, <2>1, <3>1, <3>2
  <2> QED
    BY <1>1, <2>2, <2>3
<1>5. ASSUME NEW g \in Files, Stored(g, FilePages[g]), EndOf(g) <= DeviceStart[f],
             NEW p \in 0 .. FilePages[g] - 1
      PROVE  image'[DeviceStart[g] + p] = <<g, p>>
  <2>1. FilePages[g] \in Nat /\ DeviceStart[g] \in Nat /\ EndOf(g) <= DevicePages
    BY <1>1 DEF WrittenUpwards
  <2>2. DeviceStart[g] + p \in Device /\ ~(DeviceStart[g] + p >= first)
    BY <1>1, <1>2, <1>5, <2>1 DEF Device, EndOf
  <2>3. image[DeviceStart[g] + p] = <<g, p>>
    BY <1>5, <2>1 DEF Stored
  <2> QED
    BY <1>3, <2>2, <2>3
<1>6. \A p \in 0 .. FilePages[f] - 1 :
        p < written + ChunkPages => image'[DeviceStart[f] + p] = <<f, p>>
  BY <1>4
<1>7. \A g \in Files : Stored(g, FilePages[g]) /\ EndOf(g) <= DeviceStart[f] => Stored(g, FilePages[g])'
  BY <1>5 DEF Stored
<1> QED
  BY <1>1, <1>6, <1>7 DEF f

LEMMA WriteKeepsImage ==
  ASSUME WrittenUpwards, ImageInvariant, Write PROVE ImageInvariant'
<1>1. /\ pc = "topology" /\ pc' = "topology" /\ unwritten # <<>>
      /\ unwritten \in Seq(Files) /\ written \in Nat
      /\ ChunkPages \in Nat \ {0} /\ FilePages \in [Files -> Nat \ {0}]
  BY DeviceImageAssumption DEF Write, toolvars, ImageInvariant
<1>2. CASE WriteFails
  <2>1. UNCHANGED <<image, unwritten>> /\ written' = 0
    BY <1>2 DEF WriteFails
  <2>2. \A f \in Files : Stored(f, FilePages[f]) => Stored(f, FilePages[f])'
    BY <2>1 DEF Stored
  <2>3. unwritten' # <<>> => Stored(unwritten[1], written)'
    BY <2>1 DEF Stored
  <2> QED
    BY <1>1, <2>1, <2>2, <2>3 DEF ImageInvariant
<1>3. CASE WriteChunk
  <2> DEFINE f == unwritten[1]
             end == written + ChunkPages >= FilePages[f]
  <2>1. /\ f \in Files
        /\ \A p \in 0 .. FilePages[f] - 1 :
             p < written + ChunkPages => image'[DeviceStart[f] + p] = <<f, p>>
        /\ \A g \in Files :
             Stored(g, FilePages[g]) /\ EndOf(g) <= DeviceStart[f] => Stored(g, FilePages[g])'
    BY <1>1, <1>3, ChunkStores
  <2>2. /\ unwritten' = IF end THEN Tail(unwritten) ELSE unwritten
        /\ written' = IF end THEN 0 ELSE written + ChunkPages
    BY <1>1, <1>3 DEF WriteChunk
  <2>3. /\ 1 \in DOMAIN unwritten /\ Len(unwritten) \in Nat \ {0}
        /\ DOMAIN unwritten = 1 .. Len(unwritten)
    BY <1>1
  <2>4. CASE ~end
    <3>1. unwritten' = unwritten /\ written' = written + ChunkPages
      BY <2>2, <2>4
    <3>2. Stored(unwritten[1], written)'
      BY <2>1, <3>1 DEF Stored
    <3>3. ASSUME NEW g \in Files
          PROVE  \/ \E i \in DOMAIN unwritten : unwritten[i] = g
                 \/ /\ Stored(g, FilePages[g])'
                    /\ \A i \in DOMAIN unwritten : EndOf(g) <= DeviceStart[unwritten[i]]
      BY <1>1, <2>1, <2>3 DEF ImageInvariant
    <3> HIDE DEF f
    <3> QED
      BY <1>1, <3>1, <3>2, <3>3 DEF ImageInvariant, EndOf
  <2>5. CASE end
    <3> DEFINE rest == Tail(unwritten)
    <3>1. unwritten' = rest /\ written' = 0
      BY <2>2, <2>5
    <3>2. /\ rest \in Seq(Files) /\ DOMAIN rest = 1 .. Len(unwritten) - 1
          /\ \A i \in 1 .. Len(unwritten) - 1 : rest[i] = unwritten[i + 1]
      BY <1>1
    <3> HIDE DEF rest
    <3>3. \A p \in 0 .. FilePages[f] - 1 : p < written + ChunkPages
      <4>1. FilePages[f] \in Nat
        BY <1>1, <2>1
      <4> HIDE DEF f
      <4> QED
        BY <1>1, <2>5, <4>1
    <3>4. \A p \in 0 .. FilePages[f] - 1 : image'[DeviceStart[f] + p] = <<f, p>>
      BY <2>1, <3>3
    <3>5. ASSUME NEW g \in Files, g = f PROVE Stored(g, FilePages[g])'
      BY <3>4, <3>5 DEF Stored
    <3>6. \A i \in DOMAIN rest : i + 1 \in DOMAIN unwritten /\ 1 < i + 1
                                 /\ rest[i] = unwritten[i + 1]
      BY <2>3, <3>2
    <3>7. \A i \in DOMAIN rest : EndOf(f) <= DeviceStart[rest[i]]
      BY <1>1, <2>3, <3>6 DEF ImageInvariant
    <3>8. ASSUME NEW g \in Files
          PROVE  \/ \E i \in DOMAIN rest : rest[i] = g
                 \/ /\ Stored(g, FilePages[g])'
                    /\ \A i \in DOMAIN rest : EndOf(g) <= DeviceStart[rest[i]]
      <4>1. CASE g = f
        BY <3>5, <3>7, <4>1
      <4>2. ASSUME NEW i \in DOMAIN unwritten, unwritten[i] = g, g # f
            PROVE  \E j \in DOMAIN rest : rest[j] = g
        <5>1. i # 1 /\ i - 1 \in 1 .. Len(unwritten) - 1 /\ (i - 1) + 1 = i
          BY <2>3, <4>2
        <5> QED
          BY <3>2, <4>2, <5>1
      <4>3. CASE /\ Stored(g, FilePages[g])
                 /\ \A i \in DOMAIN unwritten : EndOf(g) <= DeviceStart[unwritten[i]]
        BY <2>1, <2>3, <3>6, <4>3
      <4> HIDE DEF f
      <4> QED
        BY <1>1, <4>1, <4>2, <4>3 DEF ImageInvariant
    <3>9. \A i, j \in DOMAIN rest : i < j => EndOf(rest[i]) <= DeviceStart[rest[j]]
      <4> SUFFICES ASSUME NEW i \in DOMAIN rest, NEW j \in DOMAIN rest, i < j
                   PROVE  EndOf(rest[i]) <= DeviceStart[rest[j]]
        OBVIOUS
      <4>1. /\ i + 1 \in DOMAIN unwritten /\ j + 1 \in DOMAIN unwritten /\ i + 1 < j + 1
            /\ rest[i] = unwritten[i + 1] /\ rest[j] = unwritten[j + 1]
        BY <3>2, <3>6
      <4> QED
        BY <1>1, <4>1 DEF ImageInvariant
    <3>10. Stored(unwritten[1], written)'
      BY <3>1 DEF Stored
    <3> HIDE DEF f, end
    <3> QED
      BY <1>1, <3>1, <3>2, <3>8, <3>9, <3>10 DEF ImageInvariant, EndOf
  <2> QED
    BY <2>4, <2>5
<1> QED
  BY <1>2, <1>3 DEF Write

LEMMA OthersKeepImage ==
  ASSUME [Next]_vars
  PROVE  \/ Write
         \/ /\ UNCHANGED imagevars /\ (pc' = "library" <=> pc = "library")
            /\ pc' = pc \/ unwritten = <<>> \/ pc \notin {"topology", "library"}
<1>1. CASE Build
  BY <1>1 DEF Build, toolvars
<1>2. CASE ToolStep
  <2>1. UNCHANGED imagevars /\ unwritten = <<>>
    BY <1>2 DEF ToolStep
  <2>2. CASE OpenTopology \/ LoadTopology \/ LoadBase \/ LoadRefine \/ LoadHybrid \/ LoadStore
    BY <2>1, <2>2
    DEF OpenTopology, LoadTopology, LoadBase, LoadRefine, LoadHybrid, LoadStore, Loaded, Goto
  <2>3. CASE Plan \/ ComputeEntries \/ Keep \/ Clear \/ Drop \/ Activate
    BY <2>1, <2>3 DEF Plan, ComputeEntries, Keep, Clear, Drop, Activate, Goto
  <2>4. CASE StageASeeds \/ StageAReads \/ StageBReads \/ EndRun \/ Done
    BY <2>1, <2>4 DEF StageASeeds, StageAReads, StageBReads, EndRun, Done, Goto
  <2>5. CASE OpenTrace \/ Alone \/ Repeat \/ EndTrace
    BY <2>1, <2>5 DEF OpenTrace, Alone, Repeat, EndTrace, Goto
  <2> QED
    BY <1>2, <2>2, <2>3, <2>4, <2>5 DEF ToolStep
<1>3. CASE Together \/ CallFails
  BY <1>3 DEF Together, CallFails, Goto
<1>4. CASE LibraryLoads \/ LibrarySearch \/ Terminated \/ UNCHANGED vars
  BY <1>4 DEF LibraryLoads, LibrarySearch, Terminated, vars, toolvars, imagevars
<1> QED
  BY <1>1, <1>2, <1>3, <1>4 DEF Next

(* What a provider in use delivers for a page, from the cache or from the  *)
(* device, is that page of its file.                                       *)
OwnPages ==
  Serving => \A P \in InUse : \A p \in 0 .. FilePages[P.file] - 1 :
               image[Delivered(P, p)] = <<P.file, p>>

(* A run and the trace benchmark read, through each provider and for each  *)
(* page, that page of the provider's file: also after the cache has served *)
(* other files under the same range numbers, whatever was evicted, and     *)
(* although the tools that wrote the files cleared pages behind them.      *)
THEOREM ProvidersReadOwnPages ==
  ASSUME NewCache, WrittenUpwards PROVE Spec => []OwnPages
<1> DEFINE Inv == CacheInvariant /\ ImageInvariant
<1>1. Init => Inv
  <2>1. Init => CacheInvariant
    BY CacheStarts
  <2>2. ASSUME Init PROVE ImageInvariant
    <3>1. CASE pc = "topology" /\ \E order \in WriteOrders : InitImage(order)
      BY <3>1, DeviceImageAssumption DEF InitImage, WrittenUpwards, ImageInvariant, Stored
    <3>2. CASE pc = "library" /\ InitImage(<<>>)
      BY <3>2 DEF InitImage, ImageInvariant
    <3> QED
      BY <2>2, <3>1, <3>2 DEF Init
  <2> QED
    BY <2>1, <2>2
<1>2. ASSUME Inv, [Next]_vars PROVE Inv'
  <2>1. CacheInvariant'
    BY <1>2, CacheStep
  <2>2. CASE Write
    BY <1>2, <2>1, <2>2, WriteKeepsImage
  <2>3. CASE /\ UNCHANGED imagevars /\ (pc' = "library" <=> pc = "library")
             /\ pc' = pc \/ unwritten = <<>> \/ pc \notin {"topology", "library"}
    <3>1. UNCHANGED <<image, unwritten, written>>
      BY <2>3 DEF imagevars
    <3> QED
      BY <1>2, <2>1, <2>3, <3>1 DEF ImageInvariant, Stored
  <2> QED
    BY <1>2, <2>2, <2>3, OthersKeepImage
<1>3. ASSUME Inv, Serving, NEW P \in InUse, NEW p \in 0 .. FilePages[P.file] - 1
      PROVE  image[Delivered(P, p)] = <<P.file, p>>
  <2>1. Registered(P) /\ (Cached(P, p) => SlotHolds(P, p))
    BY <1>3 DEF CacheInvariant, ProvidersServe
  <2>2. Delivered(P, p) = DeviceStart[P.file] + p
    BY <2>1 DEF Delivered, SlotHolds
  <2>3. Stored(P.file, FilePages[P.file]) /\ P.file \in Files
    BY <1>3, <2>1 DEF ImageInvariant, Serving, Registered
  <2>4. p < FilePages[P.file]
    <3> DEFINE pages == FilePages[P.file]
    <3>1. pages \in Nat /\ p \in 0 .. pages - 1
      BY <2>3, DeviceImageAssumption
    <3> HIDE DEF pages
    <3>2. p < pages
      BY <3>1
    <3> QED
      BY <3>2 DEF pages
  <2>5. image[DeviceStart[P.file] + p] = <<P.file, p>>
    BY <2>3, <2>4 DEF Stored
  <2> QED
    BY <2>2, <2>5
<1>4. Inv => OwnPages
  BY <1>3 DEF OwnPages
<1> QED
  BY <1>1, <1>2, <1>4, PTL DEF Spec
-----------------------------------------------------------------------------
(* The entries of a query, on the host and on the device.                  *)
(* A part of a sequence.                                                   *)
LEMMA Part ==
  ASSUME NEW S, NEW s, NEW a \in Nat, NEW n \in Nat, \A i \in a + 1 .. a + n : s[i] \in S
  PROVE  SubSeq(s, a + 1, a + n) = [k \in 1 .. n |-> s[a + k]]
<1> DEFINE t == SubSeq(s, a + 1, a + n)
<1>1. a + 1 \in Int /\ a + n \in Int
  OBVIOUS
<1>2. /\ t \in Seq(S) /\ Len(t) = IF a + 1 <= a + n THEN (a + n) - (a + 1) + 1 ELSE 0
      /\ \A k \in 1 .. (a + n) - (a + 1) + 1 : t[k] = s[(a + 1) + k - 1]
  BY <1>1, SubSeqProperties
<1> HIDE DEF t
<1>3. Len(t) = n /\ (a + n) - (a + 1) + 1 = n /\ \A k \in 1 .. n : (a + 1) + k - 1 = a + k
  BY <1>2
<1>4. \A k \in 1 .. n : t[k] = s[a + k]
  BY <1>2, <1>3
<1>5. t = [k \in 1 .. n |-> s[a + k]]
  BY <1>2, <1>3, <1>4
<1> QED
  BY <1>5 DEF t

(* Lists one behind the other: where they are, and what is in the array.   *)
LEMMA PlacesFinite ==
  ASSUME NEW lists \in Seq(Seq(Nat))
  PROVE  /\ IsFiniteSet(Places(lists)) /\ Cardinality(Places(lists)) \in Nat
         /\ \A l : BeginOf(lists, l) \in Nat /\ BeginOf(lists, l) <= Cardinality(Places(lists))
         /\ \A p : p \in Places(lists)
                     <=> \E l \in 1 .. Len(lists) : \E i \in 1 .. Len(lists[l]) : p = <<l, i>>
<1> DEFINE n == Len(lists)
           list == [l \in 1 .. n |-> {l} \X (1 .. Len(lists[l]))]
           all == {list[l] : l \in 1 .. n}
<1>1. n \in Nat /\ DOMAIN lists = 1 .. n /\ \A l \in 1 .. n : lists[l] \in Seq(Nat)
  OBVIOUS
<1>2. \A l \in 1 .. n : Len(lists[l]) \in Nat /\ DOMAIN lists[l] = 1 .. Len(lists[l])
  BY <1>1
<1>3. Places(lists) = UNION all
  <2>1. {{l} \X DOMAIN lists[l] : l \in DOMAIN lists} = all
    BY <1>1, <1>2
  <2> HIDE DEF all
  <2> QED
    BY <2>1 DEF Places
<1>4. IsFiniteSet(all)
  <2>1. IsFiniteSet(1 .. n)
    BY <1>1, FS_Interval
  <2> DEFINE f == [l \in 1 .. n |-> list[l]]
  <2>2. f \in Surjection(1 .. n, all)
    BY DEF Surjection
  <2> HIDE DEF f, all
  <2> QED
    BY <2>1, <2>2, FS_Surjection
<1>5. \A T \in all : IsFiniteSet(T)
  <2> SUFFICES ASSUME NEW l \in 1 .. n PROVE IsFiniteSet({l} \X (1 .. Len(lists[l])))
    OBVIOUS
  <2>1. IsFiniteSet({l})
    BY FS_Singleton
  <2>2. IsFiniteSet(1 .. Len(lists[l]))
    <3>1. Len(lists[l]) \in Int /\ 1 \in Int
      BY <1>2
    <3> QED
      BY <3>1, FS_Interval
  <2> QED
    BY <2>1, <2>2, FS_Product
<1>6. IsFiniteSet(Places(lists))
  <2> HIDE DEF all
  <2> QED
    BY <1>3, <1>4, <1>5, FS_UNION
<1>7. ASSUME NEW l PROVE BeginOf(lists, l) \in Nat /\ BeginOf(lists, l) <= Cardinality(Places(lists))
  <2> DEFINE P == Places(lists)
             before == {place \in P : place[1] < l}
  <2>1. before \in SUBSET P
    OBVIOUS
  <2>2. IsFiniteSet(P)
    BY <1>6
  <2>3. BeginOf(lists, l) = Cardinality(before)
    BY DEF BeginOf
  <2> HIDE DEF P, before
  <2>4. IsFiniteSet(before) /\ Cardinality(before) <= Cardinality(P) /\ Cardinality(before) \in Nat
    BY <2>1, <2>2, FS_Subset, FS_CardinalityType
  <2> QED
    BY <2>3, <2>4 DEF P
<1>8. ASSUME NEW p
      PROVE  p \in Places(lists) <=> \E l \in 1 .. n : \E i \in 1 .. Len(lists[l]) : p = <<l, i>>
  <2>1. p \in Places(lists) <=> \E l \in 1 .. n : p \in {l} \X (1 .. Len(lists[l]))
    BY <1>3
  <2> QED
    BY <2>1
<1>9. Cardinality(Places(lists)) \in Nat
  BY <1>6, FS_CardinalityType
<1> QED
  BY <1>6, <1>7, <1>8, <1>9

(* The next list begins where one ends.                                    *)
LEMMA NextBegins ==
  ASSUME NEW lists \in Seq(Seq(Nat)), NEW l \in 1 .. Len(lists)
  PROVE  BeginOf(lists, l + 1) = BeginOf(lists, l) + Len(lists[l])
<1> DEFINE P == Places(lists)
           S == {p \in P : p[1] < l}
           T == {l} \X (1 .. Len(lists[l]))
           U == {p \in P : p[1] < l + 1}
<1>1. l \in Nat /\ lists[l] \in Seq(Nat) /\ Len(lists[l]) \in Nat
  OBVIOUS
<1>2. IsFiniteSet(P) /\ \A p : p \in P <=> \E m \in 1 .. Len(lists) : \E i \in 1 .. Len(lists[m]) : p = <<m, i>>
  BY PlacesFinite
<1>3. IsFiniteSet(S)
  <2>1. S \in SUBSET P
    OBVIOUS
  <2> HIDE DEF S, P
  <2> QED
    BY <1>2, <2>1, FS_Subset
<1>4. IsFiniteSet(T) /\ Cardinality(T) = Len(lists[l])
  <2> DEFINE A == {l}
             B == 1 .. Len(lists[l])
  <2>1. IsFiniteSet(A) /\ Cardinality(A) = 1
    BY FS_Singleton
  <2>2. IsFiniteSet(B) /\ Cardinality(B) = Len(lists[l])
    <3>1. Len(lists[l]) \in Int /\ 1 \in Int
      BY <1>1
    <3>2. IsFiniteSet(B) /\ Cardinality(B) = IF 1 > Len(lists[l]) THEN 0 ELSE Len(lists[l]) - 1 + 1
      BY <3>1, FS_Interval
    <3> QED
      BY <1>1, <3>2
  <2>3. T = A \X B
    OBVIOUS
  <2> HIDE DEF A, B, T
  <2>4. IsFiniteSet(T) /\ Cardinality(T) = Cardinality(A) * Cardinality(B)
    BY <2>1, <2>2, <2>3, FS_Product
  <2> QED
    BY <1>1, <2>1, <2>2, <2>4
<1>5. U = S \cup T /\ S \cap T = {}
  <2> HIDE DEF P
  <2>1. ASSUME NEW p \in U PROVE p \in S \cup T
    <3>0. PICK m \in 1 .. Len(lists) : \E i \in 1 .. Len(lists[m]) : p = <<m, i>>
      BY <1>2
    <3>1. PICK i \in 1 .. Len(lists[m]) : p = <<m, i>>
      BY <3>0
    <3>2. p[1] = m /\ m < l + 1 /\ m \in Nat
      BY <3>1
    <3>3. CASE m = l
      BY <3>1, <3>3
    <3>4. CASE m < l
      BY <3>2, <3>4
    <3> QED
      BY <1>1, <3>2, <3>3, <3>4
  <2>2. ASSUME NEW p \in S PROVE p \in U /\ p \notin T
    <3>0. PICK m \in 1 .. Len(lists) : \E i \in 1 .. Len(lists[m]) : p = <<m, i>>
      BY <1>2
    <3>1. PICK i \in 1 .. Len(lists[m]) : p = <<m, i>>
      BY <3>0
    <3>2. p[1] = m /\ m < l /\ m \in Nat
      BY <3>1
    <3> QED
      BY <1>1, <3>1, <3>2
  <2>3. ASSUME NEW p \in T PROVE p \in U
    <3>1. PICK i \in 1 .. Len(lists[l]) : p = <<l, i>>
      OBVIOUS
    <3>2. p \in P
      BY <1>2, <3>1
    <3> QED
      BY <1>1, <3>1, <3>2
  <2> HIDE DEF S, T, U
  <2> QED
    BY <2>1, <2>2, <2>3
<1>6. BeginOf(lists, l) = Cardinality(S) /\ BeginOf(lists, l + 1) = Cardinality(U)
  BY DEF BeginOf
<1>7. BeginOf(lists, l) \in Nat
  BY PlacesFinite
<1> HIDE DEF S, T, U
<1>8. Cardinality(U) = Cardinality(S) + Cardinality(T) - Cardinality(S \cap T)
  BY <1>3, <1>4, <1>5, FS_Union
<1>9. Cardinality(S \cap T) = 0
  BY <1>5, FS_EmptySet
<1> QED
  BY <1>1, <1>4, <1>6, <1>7, <1>8, <1>9

(* Lists begin in their order.                                             *)
LEMMA BeginsInOrder ==
  ASSUME NEW lists \in Seq(Seq(Nat)), NEW l \in Int, NEW m \in Int, l <= m
  PROVE  BeginOf(lists, l) <= BeginOf(lists, m)
<1> DEFINE P == Places(lists)
           S == {p \in P : p[1] < l}
           U == {p \in P : p[1] < m}
<1>1. IsFiniteSet(P) /\ \A p : p \in P <=> \E k \in 1 .. Len(lists) : \E i \in 1 .. Len(lists[k]) : p = <<k, i>>
  BY PlacesFinite
<1>2. U \in SUBSET P
  OBVIOUS
<1>3. S \in SUBSET U
  <2> HIDE DEF P
  <2> SUFFICES ASSUME NEW p \in P, p[1] < l PROVE p[1] < m
    OBVIOUS
  <2>0. PICK k \in 1 .. Len(lists) : \E i \in 1 .. Len(lists[k]) : p = <<k, i>>
    BY <1>1
  <2>1. PICK i \in 1 .. Len(lists[k]) : p = <<k, i>>
    BY <2>0
  <2> QED
    BY <2>1
<1>4. BeginOf(lists, l) = Cardinality(S) /\ BeginOf(lists, m) = Cardinality(U)
  BY DEF BeginOf
<1> HIDE DEF P, S, U
<1>5. IsFiniteSet(U)
  BY <1>1, <1>2, FS_Subset
<1> QED
  BY <1>3, <1>4, <1>5, FS_Subset

(* The joined array has every list at the place where it begins.           *)
LEMMA JoinedAt ==
  ASSUME NEW lists \in Seq(Seq(Nat)), NEW l \in 1 .. Len(lists), NEW k \in 1 .. Len(lists[l])
  PROVE  /\ BeginOf(lists, l) + k \in 1 .. Cardinality(Places(lists))
         /\ Joined(lists)[BeginOf(lists, l) + k] = lists[l][k]
<1> DEFINE P == Places(lists)
           b(m) == BeginOf(lists, m)
           at == b(l) + k
<1>1. /\ l \in Nat /\ Len(lists) \in Nat
      /\ \A m \in 1 .. Len(lists) : m \in Int /\ lists[m] \in Seq(Nat) /\ Len(lists[m]) \in Nat
  OBVIOUS
<1>2. /\ Cardinality(P) \in Nat /\ \A m : b(m) \in Nat /\ b(m) <= Cardinality(P)
      /\ \A p : p \in P <=> \E m \in 1 .. Len(lists) : \E i \in 1 .. Len(lists[m]) : p = <<m, i>>
  BY PlacesFinite
<1>3. b(l + 1) = b(l) + Len(lists[l])
  BY NextBegins
<1> HIDE DEF P
<1>4. at \in 1 .. Cardinality(P)
  <2> HIDE DEF b
  <2>1. b(l) \in Nat /\ b(l + 1) \in Nat /\ b(l + 1) <= Cardinality(P) /\ Cardinality(P) \in Nat
    BY <1>2
  <2>2. k \in Nat /\ k >= 1 /\ k <= Len(lists[l]) /\ Len(lists[l]) \in Nat
    BY <1>1
  <2>3. b(l) + Len(lists[l]) <= Cardinality(P)
    BY <1>3, <2>1
  <2>4. \A u, v, w, c \in Nat : v >= 1 /\ v <= w /\ u + w <= c => u + v \in 1 .. c
    OBVIOUS
  <2> QED
    BY <2>1, <2>2, <2>3, <2>4
<1>5. <<l, k>> \in P /\ b(<<l, k>>[1]) + <<l, k>>[2] = at
  BY <1>2
<1>6. ASSUME NEW p \in P, b(p[1]) + p[2] = at PROVE p = <<l, k>>
  <2>0. PICK m \in 1 .. Len(lists) : \E i \in 1 .. Len(lists[m]) : p = <<m, i>>
    BY <1>2
  <2>1. PICK i \in 1 .. Len(lists[m]) : p = <<m, i>>
    BY <2>0
  <2>2. b(m + 1) = b(m) + Len(lists[m])
    BY NextBegins
  <2>3. m < l => b(m + 1) <= b(l)
    BY <1>1, BeginsInOrder
  <2>4. l < m => b(l + 1) <= b(m)
    BY <1>1, BeginsInOrder
  <2>5. b(m) + i = b(l) + k
    BY <1>6, <2>1
  <2>6. b(m) \in Nat /\ b(l) \in Nat /\ Len(lists[m]) \in Nat /\ Len(lists[l]) \in Nat /\ m \in Nat
    <3>1. b(m) \in Nat /\ b(l) \in Nat
      BY <1>2
    <3>2. m \in Nat /\ Len(lists[m]) \in Nat /\ Len(lists[l]) \in Nat
      BY <1>1
    <3> QED
      BY <3>1, <3>2
  <2>9. i \in Nat /\ i >= 1 /\ k \in Nat /\ k >= 1 /\ i <= Len(lists[m]) /\ k <= Len(lists[l])
    <3>1. Len(lists[m]) \in Nat /\ Len(lists[l]) \in Nat
      BY <2>6
    <3>2. i \in Nat /\ i >= 1 /\ i <= Len(lists[m])
      BY <3>1
    <3>3. k \in Nat /\ k >= 1 /\ k <= Len(lists[l])
      BY <3>1
    <3> QED
      BY <3>2, <3>3
  <2> HIDE DEF b
  <2>7. m = l
    <3>4. \A u, v, x, y, w \in Nat : u + x = v + y /\ y >= 1 /\ x <= w => ~(u + w <= v)
      OBVIOUS
    <3>1. ~(b(m) + Len(lists[m]) <= b(l))
      BY <2>5, <2>6, <2>9, <3>4
    <3>2. ~(b(l) + Len(lists[l]) <= b(m))
      BY <2>5, <2>6, <2>9, <3>4
    <3>3. l \in Nat /\ m \in Nat
      BY <1>1, <2>6
    <3> QED
      BY <1>3, <2>2, <2>3, <2>4, <3>1, <3>2, <3>3
  <2>8. i = k
    BY <2>5, <2>6, <2>7, <2>9
  <2> QED
    BY <2>1, <2>7, <2>8
<1> DEFINE Here(p) == b(p[1]) + p[2] = at
           place == CHOOSE p \in P : Here(p)
<1>7. Joined(lists)[at] = lists[place[1]][place[2]]
  BY <1>4 DEF Joined, P
<1>8. \A p \in P : Here(p) <=> p = <<l, k>>
  BY <1>5, <1>6
<1>9. place = <<l, k>>
  <2> HIDE DEF b, Here
  <2>1. \E p \in P : Here(p)
    BY <1>5, <1>8
  <2>2. place \in P /\ Here(place)
    BY <2>1
  <2> QED
    BY <1>8, <2>2
<1> HIDE DEF place, Here
<1> QED
  BY <1>4, <1>7, <1>9 DEF P

(* The beginning of a list, cut out of the array.                          *)
LEMMA CutOut ==
  ASSUME NEW lists \in Seq(Seq(Nat)), NEW l \in 1 .. Len(lists), NEW c \in 0 .. Len(lists[l])
  PROVE  SubSeq(Joined(lists), BeginOf(lists, l) + 1, BeginOf(lists, l) + c)
           = [k \in 1 .. c |-> lists[l][k]]
<1> DEFINE b == BeginOf(lists, l)
           s == Joined(lists)
           t == SubSeq(s, b + 1, b + c)
<1>1. b \in Nat /\ lists[l] \in Seq(Nat) /\ Len(lists[l]) \in Nat /\ c \in Nat
  BY PlacesFinite
<1>2. ASSUME NEW k \in 1 .. c PROVE s[b + k] = lists[l][k] /\ lists[l][k] \in Nat
  <2>1. k \in 1 .. Len(lists[l])
    BY <1>1
  <2>2. Joined(lists)[BeginOf(lists, l) + k] = lists[l][k]
    BY <2>1, JoinedAt
  <2> QED
    BY <1>1, <2>1, <2>2
<1> HIDE DEF b, s
<1>3. \A i \in b + 1 .. b + c : s[i] \in Nat
  <2> SUFFICES ASSUME NEW i \in b + 1 .. b + c PROVE s[i] \in Nat
    OBVIOUS
  <2>1. i - b \in 1 .. c /\ b + (i - b) = i
    BY <1>1
  <2> QED
    BY <1>2, <2>1
<1>4. t = [k \in 1 .. c |-> s[b + k]]
  <2>1. b \in Nat /\ c \in Nat
    BY <1>1
  <2> QED
    BY <1>3, <2>1, Part
<1> HIDE DEF t
<1>5. t = [k \in 1 .. c |-> lists[l][k]]
  BY <1>2, <1>4
<1> QED
  BY <1>5 DEF b, s, t

(* A row that is filled from the front seeds with what it is filled with.  *)
LEMMA UnpaddedIsFront ==
  ASSUME NEW list \in Seq(Nat), NEW n \in Nat, Len(list) <= n
  PROVE  Unpadded([i \in 1 .. n |-> IF i <= Len(list) THEN list[i] ELSE Padding]) = list
<1> DEFINE c == Len(list)
           row == [i \in 1 .. n |-> IF i <= c THEN list[i] ELSE Padding]
<1>1. c \in Nat /\ c <= n /\ DOMAIN row = 1 .. n /\ \A i \in 1 .. c : row[i] = list[i]
  OBVIOUS
<1>0. \A i \in 1 .. n : row[i] # Padding <=> i <= c
  <2> SUFFICES ASSUME NEW i \in 1 .. n PROVE row[i] # Padding <=> i <= c
    OBVIOUS
  <2>1. CASE i <= c
    <3>1. list[i] \in Nat /\ row[i] = list[i]
      BY <2>1
    <3> QED
      BY <2>1, <3>1, EntryAssumption
  <2>2. CASE ~ (i <= c)
    BY <2>2
  <2> QED
    BY <2>1, <2>2
<1> HIDE DEF row, c
<1> DEFINE F == {i \in DOMAIN row : row[i] # Padding}
           Taken(G) == [k \in 1 .. Cardinality(G) |->
                          row[CHOOSE i \in G : Cardinality({j \in G : j <= i}) = k]]
<1>2. F = 1 .. c
  BY <1>0, <1>1
<1>3. Unpadded(row) = Taken(1 .. c)
  <2>1. Unpadded(row) = Taken(F)
    BY DEF Unpadded
  <2> HIDE DEF F, Taken
  <2> QED
    BY <1>2, <2>1
<1> HIDE DEF F, Taken
<1>4. Cardinality(1 .. c) = c
  <2>1. 1 \in Int /\ c \in Int /\ c \in Nat
    BY <1>1
  <2>2. Cardinality(1 .. c) = IF 1 > c THEN 0 ELSE c - 1 + 1
    BY <2>1, FS_Interval, Zenon
  <2> QED
    BY <2>1, <2>2, SMT
<1>5. ASSUME NEW k \in 1 .. c
      PROVE  row[CHOOSE i \in 1 .. c : Cardinality({j \in 1 .. c : j <= i}) = k] = row[k]
  <2>1. ASSUME NEW i \in 1 .. c PROVE Cardinality({j \in 1 .. c : j <= i}) = i
    <3>1. {j \in 1 .. c : j <= i} = 1 .. i /\ i \in Nat
      BY <1>1
    <3>2. Cardinality(1 .. i) = IF 1 > i THEN 0 ELSE i - 1 + 1
      <4>1. 1 \in Int /\ i \in Int
        BY <3>1
      <4> QED
        BY <4>1, FS_Interval, Zenon
    <3>3. Cardinality(1 .. i) = i
      BY <3>1, <3>2
    <3> QED
      BY <3>1, <3>3, Zenon
  <2> DEFINE P(i) == Cardinality({j \in 1 .. c : j <= i}) = k
  <2>2. \A i \in 1 .. c : P(i) <=> i = k
    BY <2>1
  <2> HIDE DEF P
  <2>3. (CHOOSE i \in 1 .. c : P(i)) = k
    BY <2>2
  <2> QED
    BY <2>3 DEF P
<1>6. Unpadded(row) = [k \in 1 .. c |->
                         row[CHOOSE i \in 1 .. c : Cardinality({j \in 1 .. c : j <= i}) = k]]
  BY <1>3, <1>4 DEF Taken
<1>7. Unpadded(row) = [k \in 1 .. c |-> list[k]]
  BY <1>1, <1>5, <1>6
<1>8. list = [k \in 1 .. c |-> list[k]]
  BY DEF c
<1> QED
  BY <1>7, <1>8 DEF row, c

(* The block of a query of a joined batch starts with its list.            *)
LEMMA JoinedSeeds ==
  ASSUME NEW lists \in Seq(Seq(Nat)), NEW q \in 1 .. Len(lists)
  PROVE  Seeds(JoinedLists(lists), q - 1) = lists[q]
<1> DEFINE c == Len(lists[q])
           b == BeginOf(lists, q)
           row == SubSeq(Joined(lists), b + 1, b + c)
           batch == JoinedLists(lists)
<1>1. /\ Len(lists) \in Nat /\ q \in Nat /\ q >= 1 /\ q <= Len(lists)
      /\ lists[q] \in Seq(Nat) /\ c \in Nat
  OBVIOUS
<1>2. BeginOf(lists, q + 1) = b + c
  BY NextBegins
<1>3. batch.offsets[q - 1] = b /\ batch.offsets[q] = b + c /\ batch.ids = Joined(lists)
  <2>1. q - 1 \in 0 .. Len(lists) /\ q \in 0 .. Len(lists) /\ (q - 1) + 1 = q
    BY <1>1
  <2> QED
    BY <1>2, <2>1 DEF JoinedLists
<1>4. row = [k \in 1 .. c |-> lists[q][k]]
  <2>1. c \in 0 .. Len(lists[q])
    BY <1>1
  <2> QED
    BY <2>1, CutOut
<1>5. lists[q] = [k \in 1 .. c |-> lists[q][k]]
  BY <1>1
<1>6. Seeds(batch, q - 1) = Unpadded(lists[q])
  <2>1. (q - 1) + 1 = q
    BY <1>1
  <2>2. Seeds(batch, q - 1) = Unpadded(SubSeq(batch.ids, batch.offsets[q - 1] + 1, batch.offsets[q]))
    BY <2>1 DEF Seeds
  <2> HIDE DEF batch
  <2>3. Seeds(batch, q - 1) = Unpadded(row)
    BY <1>3, <2>2
  <2> HIDE DEF row
  <2> QED
    BY <1>4, <1>5, <2>3
<1>7. Unpadded(lists[q]) = lists[q]
  <2> DEFINE list == lists[q]
             n == Len(list)
  <2>1. list \in Seq(Nat) /\ n \in Nat /\ n <= n
    <3>1. list \in Seq(Nat)
      BY <1>1
    <3> HIDE DEF list
    <3> QED
      BY <3>1
  <2>2. list = [i \in 1 .. n |-> IF i <= n THEN list[i] ELSE Padding]
    <3>1. list = [i \in 1 .. n |-> list[i]]
      <4> HIDE DEF list
      <4> QED
        BY <2>1
    <3>2. \A i \in 1 .. n : list[i] = IF i <= n THEN list[i] ELSE Padding
      BY <2>1
    <3> HIDE DEF list, n
    <3> QED
      BY <3>1, <3>2
  <2> HIDE DEF list
  <2>3. Unpadded([i \in 1 .. n |-> IF i <= n THEN list[i] ELSE Padding]) = list
    BY <2>1, UnpaddedIsFront
  <2> HIDE DEF n
  <2>4. Unpadded(list) = list
    BY <2>2, <2>3
  <2> QED
    BY <2>4 DEF list
<1> QED
  BY <1>6, <1>7

(* The beginning of a list.                                                *)
LEMMA FirstOf ==
  ASSUME NEW list \in Seq(Nat), NEW n \in Nat
  PROVE  LET m == IF n < Len(list) THEN n ELSE Len(list)
         IN  /\ m \in 0 .. Len(list) /\ First(list, n) = [k \in 1 .. m |-> list[k]]
             /\ First(list, n) \in Seq(Nat) /\ Len(First(list, n)) = m
<1> DEFINE m == IF n < Len(list) THEN n ELSE Len(list)
           t == SubSeq(list, 1, m)
<1>1. Len(list) \in Nat /\ m \in Nat /\ m <= Len(list) /\ \A i \in 1 .. m : list[i] \in Nat
  OBVIOUS
<1>2. First(list, n) = t
  BY DEF First
<1> HIDE DEF m
<1>3. t = [k \in 1 .. m |-> list[k]]
  <2>1. 0 + 1 = 1 /\ 0 + m = m /\ \A k \in 1 .. m : 0 + k = k
    BY <1>1
  <2>2. \A i \in 0 + 1 .. 0 + m : list[i] \in Nat
    BY <1>1, <2>1
  <2>3. SubSeq(list, 0 + 1, 0 + m) = [k \in 1 .. m |-> list[0 + k]]
    BY <1>1, <2>2, Part
  <2> QED
    BY <2>1, <2>3
<1> HIDE DEF t
<1>4. t \in Seq(Nat) /\ Len(t) = m
  BY <1>1, <1>3
<1>7. m \in 0 .. Len(list)
  BY <1>1
<1> QED
  BY <1>2, <1>3, <1>4, <1>7 DEF m

(* A cluster has a posting list.                                           *)
LEMMA BucketIsList ==
  ASSUME NEW cluster \in 0 .. ClusterCount - 1
  PROVE  Bucket(cluster) \in Seq(Nat)
<1> DEFINE c == cluster \div FineCentroids
           f == cluster % FineCentroids
           n == Len(Postings)
<1>1. /\ FineCentroids \in Nat /\ FineCentroids > 0 /\ n \in Nat
      /\ Postings \in Seq(Seq(Seq(Nat)))
      /\ \A coarse \in 1 .. n : Len(Postings[coarse]) = FineCentroids
  BY EntryAssumption
<1>2. cluster \in Nat /\ cluster < n * FineCentroids
  <2>1. n * FineCentroids \in Nat
    BY <1>1
  <2> QED
    BY <2>1 DEF ClusterCount
<1>3. c \in Nat /\ f \in 0 .. FineCentroids - 1 /\ cluster = c * FineCentroids + f
  <2>1. \A x, y \in Nat : y > 0 => x \div y \in Nat
    OBVIOUS
  <2>2. \A x, y \in Nat : y > 0 => x % y \in 0 .. y - 1
    OBVIOUS
  <2>3. \A x, y \in Nat : y > 0 => x = (x \div y) * y + (x % y)
    OBVIOUS
  <2> QED
    BY <1>1, <1>2, <2>1, <2>2, <2>3
<1>4. c < n
  <2> SUFFICES ASSUME c >= n PROVE FALSE
    BY <1>1, <1>3
  <2> HIDE DEF c, f, n
  <2>1. PICK d \in Nat : c = n + d
    <3>1. c - n \in Nat /\ c = n + (c - n)
      BY <1>1, <1>3
    <3> QED
      BY <3>1
  <2>2. c * FineCentroids = n * FineCentroids + d * FineCentroids
    BY <1>1, <2>1
  <2>3. d * FineCentroids \in Nat /\ n * FineCentroids \in Nat
    BY <1>1
  <2> QED
    BY <1>2, <1>3, <2>2, <2>3
<1>5. c + 1 \in 1 .. n /\ f + 1 \in 1 .. FineCentroids
  BY <1>1, <1>3, <1>4
<1> HIDE DEF c, f, n
<1>6. Postings[c + 1] \in Seq(Seq(Nat)) /\ Len(Postings[c + 1]) = FineCentroids
  BY <1>1, <1>5 DEF n
<1>7. Postings[c + 1][f + 1] \in Seq(Nat)
  BY <1>5, <1>6
<1> QED
  BY <1>7 DEF Bucket, c, f

(* What the device has of each of them.                                    *)
LEMMA KeptLists ==
  /\ ClusterCount \in Nat /\ KeptPostings \in Seq(Seq(Nat)) /\ Len(KeptPostings) = ClusterCount
  /\ \A cluster \in 0 .. ClusterCount - 1 :
       /\ cluster + 1 \in 1 .. ClusterCount
       /\ KeptPostings[cluster + 1] = First(Bucket(cluster), PostingLimit)
<1>1. ClusterCount \in Nat /\ PostingLimit \in Nat
  <2>1. Len(Postings) \in Nat /\ FineCentroids \in Nat /\ PostingLimit \in Nat
    BY EntryAssumption
  <2> QED
    BY <2>1 DEF ClusterCount
<1> DEFINE N == ClusterCount
<1> HIDE DEF N
<1>2. N \in Nat /\ KeptPostings = [c \in 1 .. N |-> First(Bucket(c - 1), PostingLimit)]
  BY <1>1 DEF KeptPostings, N
<1>3. ASSUME NEW c \in 1 .. N PROVE First(Bucket(c - 1), PostingLimit) \in Seq(Nat)
  <2>1. c - 1 \in 0 .. ClusterCount - 1
    BY <1>2 DEF N
  <2>2. Bucket(c - 1) \in Seq(Nat)
    BY <2>1, BucketIsList
  <2> QED
    BY <1>1, <2>2, FirstOf
<1>4. KeptPostings \in [1 .. N -> Seq(Nat)]
  BY <1>2, <1>3
<1>5. KeptPostings \in Seq(Seq(Nat)) /\ Len(KeptPostings) = N
  BY <1>2, <1>4
<1>6. ASSUME NEW cluster \in 0 .. N - 1
      PROVE  /\ cluster + 1 \in 1 .. N
             /\ KeptPostings[cluster + 1] = First(Bucket(cluster), PostingLimit)
  <2>1. cluster + 1 \in 1 .. N /\ (cluster + 1) - 1 = cluster
    BY <1>2
  <2> QED
    BY <1>2, <2>1
<1> QED
  BY <1>2, <1>5, <1>6 DEF N

(* The entries the host finds, up to the limit of a posting list on the    *)
(* device.                                                                 *)
Start(cluster) == First(HostEntries(cluster), PostingLimit)

(* The host finds a list of node ids for every cluster, or for none.       *)
LEMMA HostFinds ==
  ASSUME NEW cluster \in -1 .. ClusterCount - 1
  PROVE  HostEntries(cluster) \in Seq(Nat)
<1>1. <<Fallback>> \in Seq(Nat) /\ EntryCount \in Nat
  BY EntryAssumption
<1>2. ASSUME ~ (cluster < 0) PROVE First(Bucket(cluster), EntryCount) \in Seq(Nat)
  <2>1. cluster \in 0 .. ClusterCount - 1
    BY <1>2, KeptLists
  <2>2. Bucket(cluster) \in Seq(Nat)
    BY <2>1, BucketIsList
  <2> QED
    BY <1>1, <2>2, FirstOf
<1> QED
  BY <1>1, <1>2 DEF HostEntries

(* A row of the device has them in front.                                  *)
LEMMA RowIsPadded ==
  ASSUME NEW cluster \in -1 .. ClusterCount - 1
  PROVE  /\ Start(cluster) \in Seq(Nat) /\ Len(Start(cluster)) \in 0 .. EntryCount
         /\ GatheredRow(cluster) = [i \in 1 .. EntryCount |->
                                      IF i <= Len(Start(cluster)) THEN Start(cluster)[i] ELSE Padding]
<1> DEFINE size   == IF cluster < 0 THEN 0 ELSE ClusterOffset(cluster + 1) - ClusterOffset(cluster)
           found  == IF size < EntryCount THEN size ELSE EntryCount
           filled == IF found = 0 THEN <<Fallback>>
                     ELSE SubSeq(ClusterIds, ClusterOffset(cluster) + 1, ClusterOffset(cluster) + found)
<1>1. /\ EntryCount \in Nat /\ EntryCount > 0 /\ PostingLimit \in Nat /\ PostingLimit > 0
      /\ Fallback \in Nat /\ ClusterCount \in Nat
  BY EntryAssumption, KeptLists
<1>2. HostEntries(cluster) \in Seq(Nat)
  BY HostFinds
<1>3. Start(cluster) \in Seq(Nat)
  BY <1>1, <1>2, FirstOf DEF Start
<1>4. CASE cluster < 0 \/ Bucket(cluster) = <<>>
  <2>1. Start(cluster) = <<Fallback>>
    <3>1. HostEntries(cluster) = <<Fallback>>
      BY <1>4 DEF HostEntries
    <3>2. <<Fallback>> \in Seq(Nat) /\ Len(<<Fallback>>) = 1
      BY <1>1
    <3>3. (IF PostingLimit < Len(<<Fallback>>) THEN PostingLimit ELSE Len(<<Fallback>>)) = 1
      BY <1>1, <3>2
    <3>4. First(<<Fallback>>, PostingLimit) = [k \in 1 .. 1 |-> <<Fallback>>[k]]
      BY <1>1, <3>2, <3>3, FirstOf
    <3>5. First(<<Fallback>>, PostingLimit) = <<Fallback>>
      BY <3>4
    <3> QED
      BY <3>1, <3>5 DEF Start
  <2>2. found = 0
    <3>1. CASE cluster < 0
      BY <1>1, <3>1
    <3>2. CASE ~ (cluster < 0)
      <4>1. cluster \in 0 .. ClusterCount - 1 /\ Bucket(cluster) = <<>>
        BY <1>1, <1>4, <3>2
      <4>2. cluster + 1 \in 1 .. Len(KeptPostings) /\ KeptPostings \in Seq(Seq(Nat))
            /\ KeptPostings[cluster + 1] = First(<<>>, PostingLimit)
        BY <4>1, KeptLists
      <4>3. Len(First(<<>>, PostingLimit)) = 0
        <5>1. <<>> \in Seq(Nat) /\ Len(<<>>) = 0
          OBVIOUS
        <5>2. (IF PostingLimit < Len(<<>>) THEN PostingLimit ELSE Len(<<>>)) = 0
          BY <1>1, <5>1
        <5> QED
          BY <1>1, <5>1, <5>2, FirstOf
      <4>4. BeginOf(KeptPostings, (cluster + 1) + 1) = BeginOf(KeptPostings, cluster + 1) + 0
        BY <4>2, <4>3, NextBegins
      <4>5. BeginOf(KeptPostings, cluster + 1) \in Nat
        BY <4>2, PlacesFinite
      <4>6. size = 0
        BY <3>2, <4>4, <4>5 DEF ClusterOffset
      <4> QED
        BY <1>1, <4>6
    <3> QED
      BY <3>1, <3>2
  <2>3. filled = Start(cluster)
    BY <2>1, <2>2
  <2>4. Len(Start(cluster)) = 1
    BY <2>1
  <2> HIDE DEF filled
  <2>5. GatheredRow(cluster) = [i \in 1 .. EntryCount |-> IF i <= Len(filled) THEN filled[i] ELSE Padding]
    BY DEF GatheredRow, filled
  <2>6. Len(Start(cluster)) \in 0 .. EntryCount
    BY <1>1, <2>4
  <2>7. GatheredRow(cluster) = [i \in 1 .. EntryCount |->
                                  IF i <= Len(Start(cluster)) THEN Start(cluster)[i] ELSE Padding]
    BY <2>3, <2>5
  <2> QED
    BY <1>3, <2>6, <2>7
<1>5. CASE ~ (cluster < 0 \/ Bucket(cluster) = <<>>)
  <2> DEFINE list == Bucket(cluster)
             L == Len(list)
             kept == First(list, PostingLimit)
             b == BeginOf(KeptPostings, cluster + 1)
  <2>1. cluster \in 0 .. ClusterCount - 1
    BY <1>1, <1>5
  <2>2. list \in Seq(Nat) /\ L \in Nat /\ L > 0
    <3>1. list \in Seq(Nat)
      BY <2>1, BucketIsList
    <3> QED
      BY <1>5, <3>1
  <2>3. /\ cluster + 1 \in 1 .. Len(KeptPostings) /\ KeptPostings \in Seq(Seq(Nat))
        /\ KeptPostings[cluster + 1] = kept
    BY <2>1, KeptLists
  <2> DEFINE p == IF PostingLimit < L THEN PostingLimit ELSE L
             e == IF EntryCount < L THEN EntryCount ELSE L
             m == IF PostingLimit < e THEN PostingLimit ELSE e
  <2> HIDE DEF list
  <2>4. kept = [k \in 1 .. p |-> list[k]] /\ Len(kept) = p /\ p \in Nat
    BY <1>1, <2>2, FirstOf
  <2>5. HostEntries(cluster) = [k \in 1 .. e |-> list[k]] /\ Len(HostEntries(cluster)) = e /\ e \in Nat
    <3>1. HostEntries(cluster) = First(list, EntryCount)
      BY <1>5 DEF HostEntries, list
    <3>2. First(list, EntryCount) = [k \in 1 .. e |-> list[k]] /\ Len(First(list, EntryCount)) = e
      BY <1>1, <2>2, FirstOf
    <3>3. e \in Nat
      BY <1>1, <2>2
    <3> QED
      BY <3>1, <3>2, <3>3
  <2>6. /\ Start(cluster) = [k \in 1 .. m |-> HostEntries(cluster)[k]]
        /\ Len(Start(cluster)) = m
    <3> DEFINE h == HostEntries(cluster)
    <3>1. h \in Seq(Nat) /\ Len(h) = e /\ Start(cluster) = First(h, PostingLimit)
      BY <1>2, <2>5 DEF Start
    <3>2. (IF PostingLimit < Len(h) THEN PostingLimit ELSE Len(h)) = m
      BY <3>1
    <3> HIDE DEF h, m
    <3> QED
      BY <1>1, <3>1, <3>2, FirstOf DEF h
  <2>7. /\ m \in Nat /\ m <= e /\ m > 0 /\ m <= EntryCount /\ m <= p
        /\ m = IF p < EntryCount THEN p ELSE EntryCount
    BY <1>1, <2>2
  <2>8. Start(cluster) = [k \in 1 .. m |-> list[k]]
    <3> HIDE DEF m, e
    <3>1. \A k \in 1 .. m : k \in 1 .. e
      BY <2>5, <2>7
    <3>2. \A k \in 1 .. m : HostEntries(cluster)[k] = list[k]
      BY <2>5, <3>1
    <3> QED
      BY <2>6, <3>2
  <2>9. b \in Nat
    BY <2>3, PlacesFinite
  <2> HIDE DEF m, e, p
  <2>10. found = m
    <3>1. BeginOf(KeptPostings, (cluster + 1) + 1) = b + p
      BY <2>3, <2>4, NextBegins
    <3>2. size = p
      BY <1>5, <2>4, <2>9, <3>1 DEF ClusterOffset
    <3> QED
      BY <2>7, <3>2
  <2>11. SubSeq(ClusterIds, b + 1, b + m) = [k \in 1 .. m |-> kept[k]]
    <3>1. m \in 0 .. Len(KeptPostings[cluster + 1])
      BY <2>3, <2>4, <2>7
    <3>2. SubSeq(Joined(KeptPostings), b + 1, b + m) = [k \in 1 .. m |-> KeptPostings[cluster + 1][k]]
      BY <2>3, <3>1, CutOut
    <3> QED
      BY <2>3, <3>2 DEF ClusterIds
  <2>12. filled = SubSeq(ClusterIds, b + 1, b + m)
    <3>1. found # 0
      BY <2>7, <2>10
    <3>2. ClusterOffset(cluster) = b
      BY DEF ClusterOffset
    <3>3. filled = SubSeq(ClusterIds, ClusterOffset(cluster) + 1, ClusterOffset(cluster) + found)
      <4> HIDE DEF found
      <4> QED
        BY <3>1
    <3> HIDE DEF found, filled
    <3> QED
      BY <2>10, <3>2, <3>3
  <2>13. \A k \in 1 .. m : kept[k] = list[k]
    BY <2>4, <2>7
  <2>14. filled = Start(cluster)
    <3> HIDE DEF filled, kept
    <3> QED
      BY <2>8, <2>11, <2>12, <2>13
  <2> HIDE DEF filled
  <2>15. GatheredRow(cluster) = [i \in 1 .. EntryCount |-> IF i <= Len(filled) THEN filled[i] ELSE Padding]
    BY DEF GatheredRow, filled
  <2> QED
    BY <1>1, <1>3, <2>6, <2>7, <2>14, <2>15
<1> QED
  BY <1>4, <1>5

(* Where the rows lie.                                                     *)
LEMMA PlaceInRows ==
  ASSUME NEW r \in Nat, NEW n \in Nat, r < n, NEW j \in 1 .. EntryCount
  PROVE  /\ r * EntryCount + j \in 1 .. n * EntryCount
         /\ ((r * EntryCount + j) - 1) \div EntryCount = r
         /\ ((r * EntryCount + j) - 1) % EntryCount = j - 1
<1>1. EntryCount \in Nat /\ EntryCount > 0
  BY EntryAssumption
<1> DEFINE E == EntryCount
<1> HIDE DEF E
<1>2. E \in Nat /\ E > 0 /\ j \in 1 .. E /\ r * E \in Nat /\ n * E \in Nat
  BY <1>1 DEF E
<1>3. r * E + E <= n * E
  <2>1. n - (r + 1) \in Nat
    OBVIOUS
  <2>2. n * E = (r + 1) * E + (n - (r + 1)) * E
    BY <1>2
  <2>3. (n - (r + 1)) * E \in Nat /\ (r + 1) * E = r * E + E
    BY <1>2, <2>1
  <2> QED
    BY <1>2, <2>2, <2>3
<1>4. r * E + j \in 1 .. n * E
  BY <1>2, <1>3
<1>5. ((r * E + j) - 1) \div E = r
  BY <1>2
<1>6. ((r * E + j) - 1) % E = j - 1
  BY <1>2
<1> QED
  BY <1>4, <1>5, <1>6 DEF E

(* A query of a batch that is cut out of the rows of all queries starts    *)
(* where the host would start it.                                          *)
LEMMA SliceSeeds ==
  ASSUME NEW clusters \in Seq(-1 .. ClusterCount - 1), NEW offset \in Nat, NEW num \in Nat,
         offset + num <= Len(clusters), NEW q \in 1 .. num
  PROVE  Seeds(SliceDeviceEntryBatch(DeviceEntryBatch(clusters), offset, num), q - 1)
           = Start(clusters[offset + q])
<1> DEFINE E == EntryCount
           N == Len(clusters)
           full == DeviceEntryBatch(clusters)
           part == SliceDeviceEntryBatch(full, offset, num)
           cluster == clusters[offset + q]
           h == Start(cluster)
<1>1. E \in Nat /\ E > 0 /\ N \in Nat /\ q \in Nat /\ q >= 1 /\ q <= num /\ offset + q \in 1 .. N
  BY EntryAssumption
<1>0. \A i \in 1 .. N : clusters[i] \in -1 .. ClusterCount - 1
  <2> DEFINE C == -1 .. ClusterCount - 1
  <2>1. clusters \in Seq(C)
    OBVIOUS
  <2> HIDE DEF C
  <2>2. \A i \in 1 .. N : clusters[i] \in C
    BY <2>1
  <2> QED
    BY <2>2 DEF C
<1>2. cluster \in -1 .. ClusterCount - 1
  BY <1>0, <1>1
<1>3. /\ h \in Seq(Nat) /\ Len(h) \in 0 .. E
      /\ GatheredRow(cluster) = [i \in 1 .. E |-> IF i <= Len(h) THEN h[i] ELSE Padding]
  BY <1>2, RowIsPadded
<1> DEFINE x == (q - 1) * E
           row == SubSeq(part.ids, x + 1, x + E)
<1>4. Seeds(part, q - 1) = Unpadded(row)
  <2>1. part.offsets = [i \in 0 .. num |-> i * E]
    BY DEF SliceDeviceEntryBatch, RowOffsets
  <2>2. q - 1 \in 0 .. num /\ q \in 0 .. num /\ (q - 1) + 1 = q
    BY <1>1
  <2>3. part.offsets[q - 1] = x /\ part.offsets[q] = q * E
    BY <2>1, <2>2
  <2>4. q * E = x + E
    BY <1>1
  <2> HIDE DEF part, x, E
  <2>5. Seeds(part, q - 1) = Unpadded(SubSeq(part.ids, part.offsets[q - 1] + 1, part.offsets[q]))
    BY <2>2 DEF Seeds
  <2> QED
    BY <2>3, <2>4, <2>5
<1>5. ASSUME NEW i \in 1 .. N, NEW j \in 1 .. E
      PROVE  full.ids[(i - 1) * E + j] = GatheredRow(clusters[i])[j]
  <2>1. i - 1 \in Nat /\ i - 1 < N /\ (i - 1) + 1 = i /\ (j - 1) + 1 = j
    BY <1>1
  <2>2. /\ (i - 1) * E + j \in 1 .. N * E
        /\ (((i - 1) * E + j) - 1) \div E = i - 1 /\ (((i - 1) * E + j) - 1) % E = j - 1
    BY <1>1, <2>1, PlaceInRows
  <2>3. full.ids = [k \in 1 .. N * E |-> GatheredRow(clusters[((k - 1) \div E) + 1])[((k - 1) % E) + 1]]
    BY DEF DeviceEntryBatch
  <2> DEFINE k == (i - 1) * E + j
  <2>4. full.ids[k] = GatheredRow(clusters[((k - 1) \div E) + 1])[((k - 1) % E) + 1]
    BY <2>2, <2>3
  <2>5. ((k - 1) \div E) + 1 = i /\ ((k - 1) % E) + 1 = j
    BY <2>1, <2>2
  <2> HIDE DEF full
  <2> QED
    BY <2>4, <2>5
<1> DEFINE z == offset * E
           S == Nat \cup {Padding}
<1>6. \A i \in 1 .. N, j \in 1 .. E : GatheredRow(clusters[i])[j] \in S
  <2> SUFFICES ASSUME NEW i \in 1 .. N, NEW j \in 1 .. E PROVE GatheredRow(clusters[i])[j] \in S
    OBVIOUS
  <2> DEFINE c == clusters[i]
  <2>1. c \in -1 .. ClusterCount - 1
    BY <1>0
  <2>2. /\ Start(c) \in Seq(Nat)
        /\ GatheredRow(c) = [k \in 1 .. E |-> IF k <= Len(Start(c)) THEN Start(c)[k] ELSE Padding]
    BY <2>1, RowIsPadded
  <2> HIDE DEF c
  <2>3. GatheredRow(c)[j] \in S
    BY <2>2
  <2> QED
    BY <2>3 DEF c
<1>7. \A k \in 1 .. num * E : part.ids[k] = full.ids[z + k] /\ part.ids[k] \in S
  <2> DEFINE m == z + 1
             e == (offset + num) * E
  <2>1. part.ids = SubSeq(full.ids, m, e)
    BY DEF SliceDeviceEntryBatch
  <2>2. /\ z \in Nat /\ num * E \in Nat /\ N * E \in Nat /\ m \in Int /\ e \in Int
        /\ e = z + num * E /\ e - m + 1 = num * E
    BY <1>1
  <2>3. \A k \in m .. e : full.ids[k] \in S
    <3> SUFFICES ASSUME NEW k \in m .. e PROVE full.ids[k] \in S
      OBVIOUS
    <3>1. (offset + num) * E <= N * E
      <4>1. N - (offset + num) \in Nat
        BY <1>1
      <4>2. N * E = (offset + num) * E + (N - (offset + num)) * E
        BY <1>1
      <4>3. (N - (offset + num)) * E \in Nat /\ (offset + num) * E \in Nat
        BY <1>1, <4>1
      <4> QED
        BY <2>2, <4>2, <4>3
    <3>2. k \in 1 .. N * E
      <4>1. m >= 1
        BY <2>2
      <4> HIDE DEF m
      <4> QED
        BY <2>2, <3>1, <4>1
    <3>3. (k - 1) \div E \in 0 .. N - 1 /\ (k - 1) % E \in 0 .. E - 1
      <4>1. k - 1 \in Nat /\ k - 1 < N * E
        BY <2>2, <3>2
      <4>2. \A x1, y \in Nat : y > 0 => x1 \div y \in Nat
        OBVIOUS
      <4>3. \A x1, y \in Nat : y > 0 => x1 % y \in 0 .. y - 1
        OBVIOUS
      <4>4. \A x1, y \in Nat : y > 0 => x1 = (x1 \div y) * y + (x1 % y)
        OBVIOUS
      <4> DEFINE d == (k - 1) \div E
                 f == (k - 1) % E
      <4>5. d \in Nat /\ f \in 0 .. E - 1 /\ k - 1 = d * E + f
        BY <1>1, <4>1, <4>2, <4>3, <4>4
      <4> HIDE DEF d, f
      <4>6. ~ (d >= N)
        <5> SUFFICES ASSUME d >= N PROVE FALSE
          OBVIOUS
        <5>1. d - N \in Nat /\ d * E = N * E + (d - N) * E
          BY <1>1, <4>5
        <5>2. (d - N) * E \in Nat
          BY <1>1, <5>1
        <5>3. d * E \in Nat /\ k - 1 >= d * E
          BY <1>1, <4>5
        <5> DEFINE NE == N * E
                   dE == d * E
                   rE == (d - N) * E
        <5>4. NE \in Nat /\ dE \in Nat /\ rE \in Nat /\ dE = NE + rE /\ k - 1 < NE /\ k - 1 >= dE /\ k - 1 \in Nat
          BY <2>2, <4>1, <5>1, <5>2, <5>3
        <5> HIDE DEF NE, dE, rE
        <5> QED
          BY <5>4
      <4> QED
        BY <1>1, <4>5, <4>6 DEF d, f
    <3>4. full.ids[k] = GatheredRow(clusters[((k - 1) \div E) + 1])[((k - 1) % E) + 1]
      BY <3>2 DEF DeviceEntryBatch
    <3>5. ((k - 1) \div E) + 1 \in 1 .. N /\ ((k - 1) % E) + 1 \in 1 .. E
      BY <1>1, <3>3
    <3> HIDE DEF full, E, N, S
    <3> QED
      BY <1>6, <3>4, <3>5
  <2> DEFINE s == full.ids
             y == num * E
  <2>4. z \in Nat /\ y \in Nat /\ m = z + 1 /\ e = z + y
    BY <2>2
  <2>5. \A k \in z + 1 .. z + y : s[k] \in S
    BY <2>3, <2>4
  <2> HIDE DEF s, m, e, S, z, y
  <2>6. SubSeq(s, z + 1, z + y) = [k \in 1 .. y |-> s[z + k]]
    BY <2>4, <2>5, Part
  <2>7. part.ids = [k \in 1 .. y |-> s[z + k]]
    BY <2>1, <2>4, <2>6 DEF s
  <2>8. \A k \in 1 .. y : z + k \in z + 1 .. z + y
    BY <2>4
  <2> QED
    BY <2>5, <2>7, <2>8 DEF s, y
<1>8. \A k \in 1 .. E : x + k \in 1 .. num * E
  <2> SUFFICES ASSUME NEW k \in 1 .. E PROVE x + k \in 1 .. num * E
    OBVIOUS
  <2>1. q - 1 \in Nat /\ q - 1 < num
    BY <1>1
  <2> QED
    BY <1>1, <2>1, PlaceInRows
<1>9. \A k \in 1 .. E : part.ids[x + k] = GatheredRow(cluster)[k] /\ part.ids[x + k] \in S
  <2> SUFFICES ASSUME NEW k \in 1 .. E
               PROVE  part.ids[x + k] = GatheredRow(cluster)[k] /\ part.ids[x + k] \in S
    OBVIOUS
  <2>1. part.ids[x + k] = full.ids[z + (x + k)] /\ part.ids[x + k] \in S
    BY <1>7, <1>8
  <2>2. z + (x + k) = ((offset + q) - 1) * E + k
    BY <1>1
  <2>3. full.ids[((offset + q) - 1) * E + k] = GatheredRow(cluster)[k]
    BY <1>1, <1>5
  <2> HIDE DEF full, part
  <2> QED
    BY <2>1, <2>2, <2>3
<1>10. row = GatheredRow(cluster)
  <2> DEFINE s == part.ids
             t == SubSeq(s, x + 1, x + E)
  <2>1. x \in Nat /\ x + E - (x + 1) + 1 = E /\ x + 1 <= x + E
    BY <1>1
  <2>2. \A i \in x + 1 .. x + E : s[i] \in S
    <3> SUFFICES ASSUME NEW i \in x + 1 .. x + E PROVE s[i] \in S
      OBVIOUS
    <3>1. i - x \in 1 .. E /\ x + (i - x) = i
      BY <1>1, <2>1
    <3> HIDE DEF part, x, E, S
    <3> QED
      BY <1>9, <3>1
  <2>3. x \in Nat /\ E \in Nat
    BY <1>1, <2>1
  <2> HIDE DEF s, S, x, E
  <2>4. t = [k \in 1 .. E |-> s[x + k]]
    BY <2>2, <2>3, Part
  <2>5. \A k \in 1 .. E : s[x + k] = GatheredRow(cluster)[k]
    BY <1>9 DEF s
  <2>6. t = [k \in 1 .. E |-> GatheredRow(cluster)[k]]
    BY <2>4, <2>5
  <2>7. GatheredRow(cluster) = [i \in 1 .. E |-> GatheredRow(cluster)[i]]
    BY <1>3
  <2> HIDE DEF t
  <2> QED
    BY <2>6, <2>7 DEF t, s
<1>11. Unpadded(GatheredRow(cluster)) = h
  <2>1. h \in Seq(Nat) /\ E \in Nat /\ Len(h) <= E
    BY <1>1, <1>3
  <2> HIDE DEF h, E
  <2>2. Unpadded([i \in 1 .. E |-> IF i <= Len(h) THEN h[i] ELSE Padding]) = h
    BY <2>1, UnpaddedIsFront
  <2> QED
    BY <1>3, <2>2
<1> HIDE DEF row, h, part
<1> QED
  BY <1>4, <1>10, <1>11 DEF part, h, full, cluster
-----------------------------------------------------------------------------
(* What a run reads.                                                       *)
(* The phases that are left: each has the provider it needs, which is one  *)
(* of those the tool has a place for, and one without a provider of its    *)
(* own comes behind one that reads the vectors.                            *)
ReadsVectors(phase) == phase.provider \in {"vector", "same"}

PhasesKnown == [provider : {"vector", "same", "combined", "topology"},
                cached : 0 .. NodeCount, reuse : BOOLEAN]

PhaseFits(phase) ==
  /\ phase \in PhasesKnown
  /\ phase.provider \in Options \cup {"same"}
  /\ ReadsVectors(phase) <=> ~Partial(phase.cached)
  /\ phase.provider = "combined" => phase.reuse
  /\ phase.provider = "topology" => ~phase.reuse

ScriptFits ==
  /\ script \in Seq(PhasesKnown)
  /\ \A i \in DOMAIN script : PhaseFits(script[i])
  /\ \A i \in DOMAIN script : i > 1 /\ script[i].provider = "same" => ReadsVectors(script[i - 1])

(* The providers of a run are of the files it reads.                       *)
OfFile(provider, file) == provider # None /\ provider.file = file

ProvidersFit ==
  IF Reuses THEN OfFile(vector_page_provider, "combined") /\ OfFile(combined, "combined")
  ELSE /\ OfFile(vector_page_provider, "vectors")
       /\ Partial(Run.cached) => OfFile(topology, "topology")

(* The entries are those of clusters the quantiser has named.              *)
EntriesOf(clusters) == [clusters |-> clusters, batch |-> DeviceEntryBatch(clusters)]

Running == {"switch", "clear", "activate", "run"}

RunInvariant ==
  /\ pc # "library" => args \in CommandLines
  /\ pc \in Running \cup {"entries"} => ScriptFits
  /\ pc = "entries" => script # <<>> /\ script[1].provider # "same"
  /\ pc \in Running => \E clusters \in Assignments : entries = EntriesOf(clusters)
  /\ pc \in {"clear", "activate", "run"} => script # <<>>
  /\ pc \in {"clear", "activate"} => Run.provider # "same"
  /\ pc = "switch" /\ Served => OfFile(vector_page_provider, "vectors")
  /\ pc = "run" => ProvidersFit
  /\ pc \in {"alone", "together"} => held.file = "combined"
  /\ ReadsExpected

(* A slice of the plan is of queries there are.                            *)
LEMMA SliceWithin ==
  ASSUME NEW e \in Plans!ExperimentOptions, NEW b \in 1 .. Plans!Batches(e)
  PROVE  /\ Plans!Slice(e, b).query_offset \in Nat /\ Plans!Slice(e, b).num_queries \in Nat
         /\ Plans!Slice(e, b).query_offset + Plans!Slice(e, b).num_queries <= e.num_queries
<1> DEFINE n == e.num_queries
           m == e.microbatch
           B == Plans!Batches(e)
<1>1. n \in Nat /\ m \in Nat /\ m > 0
  BY DEF Plans!ExperimentOptions
<1>2. B = n \div m \/ B = (n + m - 1) \div m
  BY DEF Plans!Batches
<1>3. Plans!Slice(e, b) = [query_offset |-> (b - 1) * m,
                           num_queries |-> IF b = B THEN n - (b - 1) * m ELSE m]
  BY DEF Plans!Slice
<1> HIDE DEF n, m, B
<1>4. B \in Nat /\ (B - 1) * m <= n
  <2>0. \A x, y \in Nat : y > 0 => x \div y \in Nat /\ (x \div y) * y <= x
    <3> SUFFICES ASSUME NEW x \in Nat, NEW y \in Nat, y > 0
                 PROVE  x \div y \in Nat /\ (x \div y) * y <= x
      OBVIOUS
    <3>1. x \div y \in Nat /\ x = (x \div y) * y + (x % y)
      OBVIOUS
    <3>2. x % y \in 0 .. y - 1
      OBVIOUS
    <3>3. (x \div y) * y \in Nat
      BY <3>1
    <3> QED
      BY <3>1, <3>2, <3>3
  <2>1. n + m - 1 \in Nat
    BY <1>1
  <2>2. B \in Nat /\ (B * m <= n \/ B * m <= n + m - 1)
    BY <1>1, <1>2, <2>0, <2>1
  <2>3. (B - 1) * m = B * m - m /\ B * m \in Nat
    BY <1>1, <2>2
  <2> QED
    BY <1>1, <2>2, <2>3
<1>5. b \in Nat /\ b >= 1 /\ b <= B
  BY <1>4 DEF B
<1>6. (b - 1) * m \in Nat
  BY <1>1, <1>5
<1>7. CASE b = B
  BY <1>1, <1>3, <1>4, <1>6, <1>7 DEF n
<1>8. CASE b # B
  <2>1. B - 1 - b \in Nat /\ (B - 1) * m = b * m + (B - 1 - b) * m
    BY <1>1, <1>4, <1>5, <1>8
  <2>2. b * m \in Nat /\ (B - 1 - b) * m \in Nat /\ (b - 1) * m + m = b * m
    BY <1>1, <1>5, <2>1
  <2>3. b * m <= n
    BY <1>1, <1>4, <2>1, <2>2
  <2> QED
    BY <1>1, <1>3, <1>6, <1>8, <2>2, <2>3 DEF n
<1> QED
  BY <1>7, <1>8

(* A batch of the run has an entry for each of its queries, and each of    *)
(* them starts where the host would start it.                              *)
LEMMA BatchesStart ==
  ASSUME args \in CommandLines, NEW clusters \in Assignments, entries = EntriesOf(clusters),
         NEW batch \in BatchesOfRun
  PROVE  /\ ~RunBatchRefused(batch.batch, batch.queries)
         /\ \A q \in DOMAIN batch.queries : Seeds(batch.batch, q - 1) = Start(batch.queries[q])
<1> DEFINE plan == Plans!BuildBatchPlan(args.plan)
           C == -1 .. ClusterCount - 1
<1>1. /\ args.plan \in Plans!ExperimentOptions
      /\ clusters \in Seq(C) /\ Len(clusters) = args.plan.num_queries
  BY ToolAssumption
<1>2. PICK b \in DOMAIN plan : batch = BatchOf(plan[b])
  BY DEF BatchesOfRun
<1> DEFINE B == Plans!Batches(args.plan)
<1>3. plan = [i \in 1 .. B |-> Plans!Slice(args.plan, i)]
  BY DEF Plans!BuildBatchPlan
<1> DEFINE slice == plan[b]
           offset == slice.query_offset
           num == slice.num_queries
<1>4. offset \in Nat /\ num \in Nat /\ offset + num <= Len(clusters)
  <2>1. b \in 1 .. B /\ plan[b] = Plans!Slice(args.plan, b)
    BY <1>3
  <2> HIDE DEF plan
  <2> QED
    BY <1>1, <2>1, SliceWithin
<1> HIDE DEF slice, offset, num
<1>5. /\ batch.queries = SubSeq(clusters, offset + 1, offset + num)
      /\ batch.batch = SliceDeviceEntryBatch(DeviceEntryBatch(clusters), offset, num)
  BY <1>2 DEF BatchOf, EntriesOf, SliceHostQueries, slice, offset, num
<1> HIDE DEF plan
<1>6. batch.queries = [k \in 1 .. num |-> clusters[offset + k]]
  <2> DEFINE s == clusters
  <2>1. \A i \in offset + 1 .. offset + num : s[i] \in C
    <3>1. \A i \in offset + 1 .. offset + num : i \in 1 .. Len(s)
      BY <1>1, <1>4
    <3>2. \A i \in 1 .. Len(s) : s[i] \in C
      <4> HIDE DEF C
      <4> QED
        BY <1>1
    <3> HIDE DEF C
    <3> QED
      BY <3>1, <3>2
  <2> HIDE DEF C, s
  <2>2. SubSeq(s, offset + 1, offset + num) = [k \in 1 .. num |-> s[offset + k]]
    BY <1>4, <2>1, Part
  <2> QED
    BY <1>5, <2>2 DEF s
<1>7. Len(batch.queries) = num /\ DOMAIN batch.queries = 1 .. num
  BY <1>4, <1>6
<1>8. batch.batch.num_queries = num
  BY <1>5 DEF SliceDeviceEntryBatch
<1>9. ASSUME NEW q \in DOMAIN batch.queries PROVE Seeds(batch.batch, q - 1) = Start(batch.queries[q])
  <2>1. q \in 1 .. num /\ batch.queries[q] = clusters[offset + q]
    BY <1>6
  <2>2. Seeds(SliceDeviceEntryBatch(DeviceEntryBatch(clusters), offset, num), q - 1)
          = Start(clusters[offset + q])
    BY <1>1, <1>4, <2>1, SliceSeeds
  <2> QED
    BY <1>5, <2>1, <2>2
<1> QED
  BY <1>7, <1>8, <1>9 DEF RunBatchRefused

(* A record that is read through a provider of its file, with the records  *)
(* of a page of that file, is that record.                                 *)
LEMMA RecordComes ==
  ASSUME CacheInvariant, OwnPages, Serving, NEW P \in InUse, NEW file \in Files, P.file = file,
         NEW n \in Nat, NEW wanted, ReadRecord(P, PerPage[file], n, wanted)
  PROVE  read'.wanted = wanted /\ read'.came = <<file, n>>
<1> DEFINE k == PerPage[file]
           p == PageOf(n, k)
           pages == FilePages[file]
<1>1. k \in Nat \ {0} /\ pages \in Nat /\ file \in Files
  BY ToolAssumption, DeviceImageAssumption
<1>2. buffers[P.buffer] \in StatesOf(file)
  BY DEF CacheInvariant, ProvidersServe, Registered
<1>3. p \in 0 .. pages - 1
  <2>1. p \in DOMAIN buffers[P.buffer]
    BY DEF ReadRecord
  <2>2. DOMAIN buffers[P.buffer] = 0 .. pages - 1
    BY <1>2 DEF StatesOf
  <2> HIDE DEF p
  <2> QED
    BY <2>1, <2>2
<1>4. image[Delivered(P, p)] = <<file, p>>
  <2> HIDE DEF p
  <2> QED
    BY <1>3 DEF OwnPages
<1>5. <<file, p>> # Zeros
  <2>1. p \in Nat
    <3> HIDE DEF p, pages
    <3> QED
      BY <1>1, <1>3
  <2> HIDE DEF p
  <2> QED
    BY <1>1, <2>1, DeviceImageAssumption
<1>6. p * k + PlaceOf(n, k) = n
  <2>1. \A x, y \in Nat : y > 0 => (x \div y) * y + (x % y) = x
    OBVIOUS
  <2> HIDE DEF k
  <2> QED
    BY <1>1, <2>1 DEF PageOf, PlaceOf
<1>7. read'.wanted = wanted /\ read'.came = Record(image[Delivered(P, p)], PlaceOf(n, k), k)
  BY DEF ReadRecord
<1>8. Record(<<file, p>>, PlaceOf(n, k), k) = <<file, p * k + PlaceOf(n, k)>>
  <2> HIDE DEF p
  <2> QED
    BY <1>5 DEF Record
<1> HIDE DEF p, k
<1> QED
  BY <1>4, <1>6, <1>7, <1>8

(* What a step does to the run's own state when it is none of the steps    *)
(* below.                                                                  *)
Early == {"topology", "load", "pq", "pq2", "hpq", "store", "plan"}

Elsewhere ==
  /\ UNCHANGED <<args, script, entries, held, read>>
  /\ \/ pc' = pc /\ UNCHANGED providers
     \/ pc \in Early /\ pc' \in Early
     \/ pc # "library" /\ pc' \in {"done", "failed"}
     \/ pc = "together" /\ pc' = "alone"

LEMMA ElsewhereKeeps ==
  ASSUME RunInvariant, Elsewhere PROVE RunInvariant'
<1>1. ReadsExpected'
  BY DEF RunInvariant, Elsewhere, ReadsExpected, Early
<1>2. ScriptFits' = ScriptFits /\ Options' = Options /\ Run' = Run
  BY DEF Elsewhere, ScriptFits, PhaseFits, ReadsVectors, PhasesKnown, Options, AnyPartial, Partial, Run
<1>3. CASE pc' = pc /\ UNCHANGED providers
  <2>1. ProvidersFit' = ProvidersFit /\ Served' = Served
        /\ OfFile(vector_page_provider, "vectors")' = OfFile(vector_page_provider, "vectors")
    BY <1>2, <1>3
    DEF Elsewhere, ProvidersFit, OfFile, Reuses, Partial, Served, providers, vector_page_provider, Run
  <2> QED
    BY <1>1, <1>2, <1>3, <2>1 DEF RunInvariant, Elsewhere
<1>4. CASE pc \in Early /\ pc' \in Early
  BY <1>1, <1>4 DEF RunInvariant, Elsewhere, Early, Running
<1>5. CASE pc # "library" /\ pc' \in {"done", "failed"}
  BY <1>1, <1>5 DEF RunInvariant, Elsewhere, Running
<1>6. CASE pc = "together" /\ pc' = "alone"
  BY <1>1, <1>6 DEF RunInvariant, Elsewhere, Running
<1> QED
  BY <1>3, <1>4, <1>5, <1>6 DEF Elsewhere

(* The tool starts with a command line, and has read nothing.              *)
LEMMA RunStarts ==
  ASSUME Init PROVE RunInvariant
BY DEF Init, RunInvariant, Running, ReadsExpected, NoRead

(* The runs of a command line that is not refused fit each other.          *)
LEMMA ScriptsFit ==
  ASSUME args \in CommandLines, Accepted
  PROVE  /\ Script \in Seq(PhasesKnown) /\ Script # <<>> /\ Script[1].provider # "same"
         /\ \A i \in DOMAIN Script : PhaseFits(Script[i])
         /\ \A i \in DOMAIN Script : i > 1 /\ Script[i].provider = "same" => ReadsVectors(Script[i - 1])
<1> DEFINE N == 0 .. NodeCount
           sweep == args.sweep
<1>1. /\ sweep \in Seq(N) /\ sweep # <<>> /\ args.reuse \in BOOLEAN /\ args.ab \in BOOLEAN
  BY ToolAssumption
<1>2. DOMAIN sweep = 1 .. Len(sweep) /\ Len(sweep) \in Nat /\ Len(sweep) >= 1 /\ sweep[1] \in N
      /\ \A i \in DOMAIN sweep : sweep[i] \in N
  <2> HIDE DEF N, sweep
  <2> QED
    BY <1>1
<1>3. \A i \in DOMAIN sweep : Partial(sweep[i]) => AnyPartial
  BY DEF AnyPartial
<1>4. "vector" \in Options /\ Options \subseteq {"vector", "topology", "combined"}
  BY DEF Options
<1>5. AnyPartial /\ args.reuse => "combined" \in Options
  BY DEF Options
<1>6. AnyPartial /\ (args.reuse => args.ab) => "topology" \in Options
  BY DEF Options
<1>7. CASE args.ab
  <2> DEFINE c == sweep[1]
             a == Phase("topology", c, FALSE)
             b == Phase("combined", c, TRUE)
             d == Phase("vector", c, FALSE)
             e == Phase("same", c, TRUE)
             f == Phase("same", c, FALSE)
  <2>1. args.reuse
    BY <1>7 DEF Accepted
  <2>2. Script = IF Partial(c) THEN <<a, b, a>> ELSE <<d, e, f>>
    BY <1>7 DEF Script, Phases
  <2>3. c \in N /\ (Partial(c) => AnyPartial)
    BY <1>2, <1>3
  <2> HIDE DEF c
  <2>4. CASE Partial(c)
    <3>1. PhaseFits(a) /\ PhaseFits(b)
      BY <1>5, <1>6, <1>7, <2>1, <2>3, <2>4 DEF PhaseFits, PhasesKnown, Phase, ReadsVectors
    <3>2. a \in PhasesKnown /\ b \in PhasesKnown /\ a.provider = "topology" /\ b.provider = "combined"
      BY <3>1 DEF PhaseFits, Phase
    <3> HIDE DEF a, b
    <3>3. Script \in Seq(PhasesKnown) /\ Len(Script) = 3 /\ Script[1] = a /\ Script[2] = b /\ Script[3] = a
      BY <2>2, <2>4, <3>2
    <3>4. \A i \in 1 .. 3 : i = 1 \/ i = 2 \/ i = 3
      OBVIOUS
    <3>5. \A i \in DOMAIN Script : PhaseFits(Script[i]) /\ Script[i].provider # "same"
      BY <3>1, <3>2, <3>3, <3>4
    <3> QED
      BY <3>2, <3>3, <3>5
  <2>5. CASE ~Partial(c)
    <3>1. PhaseFits(d) /\ PhaseFits(e) /\ PhaseFits(f)
      BY <1>4, <2>3, <2>5 DEF PhaseFits, PhasesKnown, Phase, ReadsVectors
    <3>2. /\ d \in PhasesKnown /\ e \in PhasesKnown /\ f \in PhasesKnown
          /\ d.provider = "vector" /\ ReadsVectors(d) /\ ReadsVectors(e)
      BY <3>1 DEF PhaseFits, Phase, ReadsVectors
    <3> HIDE DEF d, e, f
    <3>3. Script \in Seq(PhasesKnown) /\ Len(Script) = 3 /\ Script[1] = d /\ Script[2] = e /\ Script[3] = f
      BY <2>2, <2>5, <3>2
    <3>4. \A i \in 1 .. 3 : i = 1 \/ i = 2 \/ i = 3
      OBVIOUS
    <3> QED
      BY <3>1, <3>2, <3>3, <3>4
  <2> QED
    BY <2>4, <2>5
<1>8. CASE ~args.ab
  <2>1. Script = [i \in DOMAIN sweep |-> PhaseOf(sweep[i])]
    BY <1>8 DEF Script
  <2>2. ASSUME NEW i \in DOMAIN sweep PROVE PhaseFits(PhaseOf(sweep[i])) /\ PhaseOf(sweep[i]).provider # "same"
    <3> DEFINE c == sweep[i]
    <3>1. c \in N /\ (Partial(c) => AnyPartial)
      BY <1>2, <1>3, <2>2
    <3> HIDE DEF c
    <3>2. CASE ~Partial(c)
      <4>1. PhaseOf(c) = Phase("vector", c, args.reuse)
        BY <3>2 DEF PhaseOf
      <4> QED
        BY <1>1, <1>4, <3>1, <3>2, <4>1 DEF PhaseFits, PhasesKnown, Phase, ReadsVectors, c
    <3>3. CASE Partial(c) /\ args.reuse
      <4>1. PhaseOf(c) = Phase("combined", c, args.reuse)
        BY <3>3 DEF PhaseOf
      <4> QED
        BY <1>1, <1>5, <3>1, <3>3, <4>1 DEF PhaseFits, PhasesKnown, Phase, ReadsVectors, c
    <3>4. CASE Partial(c) /\ ~args.reuse
      <4>1. PhaseOf(c) = Phase("topology", c, args.reuse)
        BY <3>4 DEF PhaseOf
      <4> QED
        BY <1>1, <1>6, <3>1, <3>4, <4>1 DEF PhaseFits, PhasesKnown, Phase, ReadsVectors, c
    <3> QED
      BY <1>1, <3>2, <3>3, <3>4
  <2>3. \A i \in DOMAIN sweep : PhaseOf(sweep[i]) \in PhasesKnown
    BY <2>2 DEF PhaseFits
  <2> HIDE DEF sweep
  <2>4. Script \in Seq(PhasesKnown) /\ DOMAIN Script = DOMAIN sweep /\ 1 \in DOMAIN sweep /\ Len(Script) >= 1
    <3>1. Script \in [1 .. Len(sweep) -> PhasesKnown]
      BY <1>2, <2>1, <2>3
    <3> QED
      BY <1>2, <3>1
  <2>5. \A i \in DOMAIN Script : PhaseFits(Script[i]) /\ Script[i].provider # "same"
    BY <2>1, <2>2, <2>4
  <2> QED
    BY <2>4, <2>5
<1> QED
  BY <1>1, <1>7, <1>8

(* The plan leaves the phases of the command line.                         *)
LEMMA PlanKeeps ==
  ASSUME RunInvariant, Plan PROVE RunInvariant'
<1>1. pc = "plan" /\ args \in CommandLines
  BY DEF Plan, RunInvariant
<1>2. /\ UNCHANGED <<args, entries, held, read>> /\ script' = Script
      /\ pc' = IF Accepted THEN "entries" ELSE "failed"
  BY DEF Plan
<1>3. ReadsExpected'
  BY <1>2 DEF RunInvariant, ReadsExpected
<1>4. CASE Accepted
  <2>1. /\ Script \in Seq(PhasesKnown) /\ Script # <<>> /\ Script[1].provider # "same"
        /\ \A i \in DOMAIN Script : PhaseFits(Script[i])
        /\ \A i \in DOMAIN Script : i > 1 /\ Script[i].provider = "same" => ReadsVectors(Script[i - 1])
    BY <1>1, <1>4, ScriptsFit
  <2>2. Options' = Options
    BY <1>2 DEF Options, AnyPartial, Partial
  <2>3. \A phase : PhaseFits(phase)' = PhaseFits(phase)
    BY <2>2 DEF PhaseFits, PhasesKnown, ReadsVectors, Partial
  <2> DEFINE s == Script
  <2>4. s \in Seq(PhasesKnown) /\ s # <<>> /\ s[1].provider # "same" /\ script' = s
    BY <1>2, <2>1
  <2>5. \A i \in DOMAIN s : PhaseFits(s[i])
    BY <2>1
  <2>6. \A i \in DOMAIN s : i > 1 /\ s[i].provider = "same" => ReadsVectors(s[i - 1])
    BY <2>1
  <2> HIDE DEF s
  <2>7. ScriptFits'
    BY <2>3, <2>4, <2>5, <2>6 DEF ScriptFits, ReadsVectors, PhasesKnown
  <2> QED
    BY <1>1, <1>2, <1>3, <1>4, <2>4, <2>7 DEF RunInvariant, Running
<1>5. CASE ~Accepted
  BY <1>1, <1>2, <1>3, <1>5 DEF RunInvariant, Running
<1> QED
  BY <1>4, <1>5

(* Steps that leave the phases and the entries as they are.                *)
LEMMA PhasesStay ==
  ASSUME RunInvariant, UNCHANGED <<args, script>>
  PROVE  /\ ScriptFits' = ScriptFits /\ Options' = Options /\ Run' = Run
         /\ \A phase : PhaseFits(phase)' = PhaseFits(phase)
BY DEF ScriptFits, PhaseFits, ReadsVectors, PhasesKnown, Options, AnyPartial, Partial, Run

(* The entries are those of the clusters the quantiser names.              *)
LEMMA ComputeKeeps ==
  ASSUME RunInvariant, ComputeEntries PROVE RunInvariant'
<1>1. /\ pc = "entries" /\ pc' \in {"open_trace", "switch"} /\ UNCHANGED <<args, script, held, read>>
      /\ \E clusters \in Assignments : entries' = EntriesOf(clusters)
  BY DEF ComputeEntries, EntriesOf
<1>2. \E clusters \in Assignments : entries' = EntriesOf(clusters)'
  BY <1>1 DEF EntriesOf
<1>3. ScriptFits' /\ script # <<>> /\ script[1].provider # "same" /\ Run' = Run
  BY <1>1, PhasesStay DEF RunInvariant
<1>4. ~Served'
  BY <1>1, <1>3 DEF Served, Run
<1>5. ReadsExpected'
  BY <1>1 DEF RunInvariant, ReadsExpected
<1> QED
  BY <1>1, <1>2, <1>3, <1>4, <1>5 DEF RunInvariant, Running

(* The run that is next fits.                                              *)
LEMMA HeadFits ==
  ASSUME ScriptFits, script # <<>> PROVE PhaseFits(Run)
<1>1. 1 \in DOMAIN script /\ Run = script[1]
  BY DEF ScriptFits, Run
<1> QED
  BY <1>1 DEF ScriptFits

(* A run whose provider is kept reads the vectors.                         *)
LEMMA KeepKeeps ==
  ASSUME RunInvariant, Keep PROVE RunInvariant'
<1>1. /\ pc = "switch" /\ pc' = "run" /\ Served
      /\ UNCHANGED <<args, script, entries, held, read, providers>>
  BY DEF Keep, Goto
<1>2. ScriptFits' /\ Run' = Run /\ script # <<>>
  BY <1>1, PhasesStay DEF RunInvariant, Running, Served
<1>3. PhaseFits(Run) /\ Run.provider = "same"
  BY <1>1, <1>2, HeadFits DEF RunInvariant, Running, Served
<1>4. ~Partial(Run.cached)
  BY <1>3 DEF PhaseFits, ReadsVectors
<1>5. OfFile(vector_page_provider, "vectors")' /\ ~Partial(Run'.cached)
  BY <1>1, <1>2, <1>4 DEF RunInvariant, OfFile, providers, vector_page_provider, Partial
<1>6. ProvidersFit'
  BY <1>5 DEF ProvidersFit, Reuses, Partial
<1>7. ReadsExpected'
  BY <1>1 DEF RunInvariant, ReadsExpected
<1>8. \E clusters \in Assignments : entries' = EntriesOf(clusters)'
  BY <1>1 DEF RunInvariant, Running, EntriesOf
<1> QED
  BY <1>1, <1>2, <1>6, <1>7, <1>8 DEF RunInvariant, Running

(* The tool has a place on the device for the provider of every phase.     *)
LEMMA ClearKeepsRun ==
  ASSUME RunInvariant, Clear PROVE RunInvariant'
<1>1. /\ pc = "switch" /\ script # <<>> /\ ~Served
      /\ UNCHANGED <<args, script, entries, held, read>>
      /\ pc' = IF Run.provider \in Options THEN "clear" ELSE "refused"
  BY DEF Clear, Goto
<1>2. ScriptFits' /\ Run' = Run
  BY <1>1, PhasesStay DEF RunInvariant, Running
<1>3. PhaseFits(Run) /\ Run.provider # "same"
  BY <1>1, <1>2, HeadFits DEF RunInvariant, Running, Served
<1>4. pc' = "clear"
  BY <1>1, <1>3 DEF PhaseFits
<1>5. ReadsExpected'
  BY <1>1, <1>4 DEF RunInvariant, ReadsExpected
<1>6. \E clusters \in Assignments : entries' = EntriesOf(clusters)'
  BY <1>1 DEF RunInvariant, Running, EntriesOf
<1> QED
  BY <1>1, <1>2, <1>3, <1>4, <1>5, <1>6 DEF RunInvariant, Running

(* Clearing leaves the phases and the entries.                             *)
LEMMA DropKeepsRun ==
  ASSUME RunInvariant, Drop PROVE RunInvariant'
<1>1. /\ pc = "clear" /\ pc' = "activate" /\ UNCHANGED <<args, script, entries, held, read>>
  BY DEF Drop
<1>2. ScriptFits' /\ Run' = Run
  BY <1>1, PhasesStay DEF RunInvariant, Running
<1>3. ReadsExpected'
  BY <1>1 DEF RunInvariant, ReadsExpected
<1>4. \E clusters \in Assignments : entries' = EntriesOf(clusters)'
  BY <1>1 DEF RunInvariant, Running, EntriesOf
<1> QED
  BY <1>1, <1>2, <1>3, <1>4 DEF RunInvariant, Running

(* The provider of a phase reads the files of its runs.                    *)
LEMMA ActivateKeepsRun ==
  ASSUME RunInvariant, CacheInvariant, Activate PROVE RunInvariant'
<1> DEFINE files == FilesOf(Run.provider)
<1>1. /\ pc = "activate" /\ pc' = "run" /\ UNCHANGED <<args, script, entries, held, read>>
      /\ AttachVector(Provider(files[1], 1))
      /\ Run.provider = "topology" => AttachTopology(Provider(files[2], 2))
      /\ Run.provider = "combined" => AttachCombined(Provider(files[1], 1))
  BY DEF Activate
<1>2. ScriptFits' /\ Run' = Run
  BY <1>1, PhasesStay DEF RunInvariant, Running
<1>3. PhaseFits(Run) /\ Run.provider # "same"
  BY <1>1, HeadFits DEF RunInvariant, Running
<1>4. \A f, i : Provider(f, i).file = f
  BY DEF Provider
<1> DEFINE first == Provider(files[1], 1)
           second == Provider(files[2], 2)
<1>5. /\ vector_page_provider' = first /\ first # None
      /\ Run.provider = "topology" => topology' = second /\ second # None
      /\ Run.provider = "combined" => combined' = first
  <2> HIDE DEF files, first, second
  <2>1. AttachVector(first) /\ (Run.provider = "topology" => AttachTopology(second))
        /\ (Run.provider = "combined" => AttachCombined(first))
    BY <1>1 DEF first, second
  <2>2. store' = [provider |-> first] /\ first # None
    BY <2>1 DEF AttachVector
  <2>3. [provider |-> first] # None
    <3>1. files[1] \in Files
      <4>1. Run.provider \in {"vector", "topology", "combined"}
        BY <1>3 DEF PhaseFits, PhasesKnown
      <4>2. files[1] \in {"vectors", "combined"}
        BY <4>1 DEF FilesOf, files
      <4> QED
        BY <4>2, ToolAssumption
    <3>2. n_ranges \in Nat /\ Len(buffers) \in Nat
      BY DEF CacheInvariant, CacheTypes
    <3>3. n_ranges + 1 - 1 \in Nat /\ Len(buffers) + 1 \in Nat
      BY <3>2
    <3>4. first \in [file : Files, range : Nat, buffer : Nat]
      BY <3>1, <3>3 DEF first, Provider
    <3> DEFINE S == [file : Files, range : Nat, buffer : Nat]
    <3>5. first \in S
      BY <3>4
    <3>6. None \notin [provider : S]
      BY ToolAssumption
    <3> HIDE DEF S
    <3> QED
      BY <3>5, <3>6
  <2>4. vector_page_provider' = first
    BY <2>2, <2>3 DEF vector_page_provider
  <2> QED
    BY <2>1, <2>2, <2>4 DEF AttachTopology, AttachCombined
<1>8. first.file = files[1] /\ second.file = files[2]
  BY <1>4
<1> HIDE DEF first, second
<1>9. ProvidersFit'
  <2>1. CASE Run.provider = "vector"
    <3>1. ~Partial(Run.cached) /\ files[1] = "vectors"
      BY <1>3, <2>1 DEF PhaseFits, ReadsVectors, FilesOf
    <3> QED
      BY <1>2, <1>5, <1>8, <3>1 DEF ProvidersFit, Reuses, OfFile, Partial
  <2>2. CASE Run.provider = "topology"
    <3>1. ~Run.reuse /\ files[1] = "vectors" /\ files[2] = "topology"
      BY <1>3, <2>2 DEF PhaseFits, FilesOf
    <3> QED
      BY <1>2, <1>5, <1>8, <2>2, <3>1 DEF ProvidersFit, Reuses, OfFile, Partial
  <2>3. CASE Run.provider = "combined"
    <3>1. Run.reuse /\ Partial(Run.cached) /\ files[1] = "combined"
      BY <1>3, <2>3 DEF PhaseFits, ReadsVectors, FilesOf
    <3> QED
      BY <1>2, <1>5, <1>8, <2>3, <3>1 DEF ProvidersFit, Reuses, OfFile, Partial
  <2> QED
    BY <1>3, <2>1, <2>2, <2>3 DEF PhaseFits, PhasesKnown
<1>6. ReadsExpected'
  BY <1>1 DEF RunInvariant, ReadsExpected
<1>7. \E clusters \in Assignments : entries' = EntriesOf(clusters)'
  BY <1>1 DEF RunInvariant, Running, EntriesOf
<1> QED
  BY <1>1, <1>2, <1>6, <1>7, <1>9 DEF RunInvariant, Running

(* Steps of a run that change nothing but the cache and what was read.     *)
LEMMA ReadingKeeps ==
  ASSUME RunInvariant, pc = "run", UNCHANGED <<args, script, entries, held, pc, providers>>,
         read'.came = read'.wanted
  PROVE  RunInvariant'
<1>1. ScriptFits' /\ Run' = Run
  BY PhasesStay DEF RunInvariant, Running
<1>2. ProvidersFit'
  <2>1. ProvidersFit' = ProvidersFit
    BY <1>1 DEF ProvidersFit, OfFile, Reuses, Partial, providers, vector_page_provider
  <2> QED
    BY <2>1 DEF RunInvariant
<1>3. \E clusters \in Assignments : entries' = EntriesOf(clusters)'
  BY DEF RunInvariant, Running, EntriesOf
<1> QED
  BY <1>1, <1>2, <1>3 DEF RunInvariant, Running, ReadsExpected

(* A query's entries are those the host finds.                             *)
LEMMA SeedsKeep ==
  ASSUME RunInvariant, StageASeeds PROVE RunInvariant'
<1>1. pc = "run" /\ UNCHANGED <<args, script, entries, held, pc, providers>>
  BY DEF StageASeeds
<1>2. PICK b \in BatchesOfRun : \E q \in DOMAIN b.queries :
        read' = [wanted |-> <<"entries", First(HostEntries(b.queries[q]), PostingLimit)>>,
                 came   |-> <<"entries", Seeds(b.batch, q - 1)>>]
  BY DEF StageASeeds
<1>3. PICK q \in DOMAIN b.queries :
        read' = [wanted |-> <<"entries", First(HostEntries(b.queries[q]), PostingLimit)>>,
                 came   |-> <<"entries", Seeds(b.batch, q - 1)>>]
  BY <1>2
<1>4. PICK clusters \in Assignments : entries = EntriesOf(clusters)
  BY <1>1 DEF RunInvariant, Running
<1>5. Seeds(b.batch, q - 1) = Start(b.queries[q])
  <2>1. args \in CommandLines
    BY <1>1 DEF RunInvariant
  <2> QED
    BY <1>4, <2>1, BatchesStart
<1>6. read'.came = read'.wanted
  BY <1>3, <1>5 DEF Start
<1> QED
  BY <1>1, <1>6, ReadingKeeps

(* Before a run, its providers are served.                                 *)
LEMMA RunIsServed ==
  ASSUME RunInvariant, CacheInvariant, pc = "run"
  PROVE  Serving /\ vector_page_provider # None /\ vector_page_provider \in InUse
<1>1. vector_page_provider # None
  BY DEF RunInvariant, ProvidersFit, OfFile
<1>2. active
  BY <1>1 DEF CacheInvariant, NotServing, NoProviders
<1> QED
  BY <1>1, <1>2 DEF Serving, InUse

(* The neighbours of an uncached node are read from the file that has them.*)
LEMMA NeighborsKeep ==
  ASSUME RunInvariant, CacheInvariant, OwnPages, StageAReads PROVE RunInvariant'
<1> DEFINE file == IF Reuses THEN "combined" ELSE "topology"
           P == IF Reuses THEN combined ELSE topology
<1>1. pc = "run" /\ UNCHANGED <<args, script, entries, held, pc, providers>>
      /\ Partial(Run.cached) /\ P # None
  BY DEF StageAReads, StageARefuses
<1>2. PICK n \in Nodes : ReadRecord(P, PerPage[file], n, <<file, n>>)
  BY DEF StageAReads
<1>3. P \in InUse
  BY <1>1 DEF InUse
<1>4. P.file = file
  BY <1>1 DEF RunInvariant, ProvidersFit, OfFile
<1>5. Serving
  BY <1>1, RunIsServed
<1>6. n \in Nat /\ file \in Files
  BY ToolAssumption, TopologyAssumption DEF Nodes
<1> HIDE DEF P, file
<1>7. read'.wanted = <<file, n>> /\ read'.came = <<file, n>>
  BY <1>2, <1>3, <1>4, <1>5, <1>6, RecordComes
<1> QED
  BY <1>1, <1>7, ReadingKeeps

(* The vectors are read with the page layout of the provider's file.       *)
LEMMA VectorsKeep ==
  ASSUME RunInvariant, CacheInvariant, OwnPages, StageBReads PROVE RunInvariant'
<1> DEFINE file == IF Reuses THEN "combined" ELSE "vectors"
           P == vector_page_provider
<1>1. pc = "run" /\ UNCHANGED <<args, script, entries, held, pc, providers>>
  BY DEF StageBReads
<1>2. RecordsPerPage = PerPage[file]
  BY DEF RecordsPerPage, Override, Reuses
<1>3. PICK n \in Nodes : ReadRecord(P, PerPage[file], n, <<file, n>>)
  BY <1>2 DEF StageBReads
<1>4. P \in InUse /\ Serving
  BY <1>1, RunIsServed
<1>5. P.file = file
  BY <1>1 DEF RunInvariant, ProvidersFit, OfFile
<1>6. n \in Nat /\ file \in Files
  BY ToolAssumption, TopologyAssumption DEF Nodes
<1> HIDE DEF P, file
<1>7. read'.wanted = <<file, n>> /\ read'.came = <<file, n>>
  BY <1>3, <1>4, <1>5, <1>6, RecordComes
<1> QED
  BY <1>1, <1>7, ReadingKeeps

(* A run is not refused, and the one after it that keeps its provider      *)
(* finds the vectors there.                                                *)
LEMMA EndRunKeeps ==
  ASSUME RunInvariant, CacheInvariant, EndRun PROVE RunInvariant'
<1>1. /\ pc = "run" /\ script' = Tail(script) /\ read' = NoRead
      /\ UNCHANGED <<args, entries, held, providers>>
      /\ pc' = IF RunRefused THEN "refused" ELSE "switch"
  BY DEF EndRun
<1>2. ~RunRefused
  <2>1. PICK clusters \in Assignments : entries = EntriesOf(clusters)
    BY <1>1 DEF RunInvariant, Running
  <2>2. \A b \in BatchesOfRun : ~RunBatchRefused(b.batch, b.queries)
    <3>1. args \in CommandLines
      BY <1>1 DEF RunInvariant
    <3> QED
      BY <2>1, <3>1, BatchesStart
  <2>3. vector_page_provider # None
    BY <1>1, RunIsServed
  <2>4. ~(Partial(Run.cached) /\ (IF Reuses THEN combined ELSE topology) = None)
    BY <1>1 DEF RunInvariant, ProvidersFit, OfFile
  <2> QED
    BY <2>2, <2>3, <2>4 DEF RunRefused, StageARefuses
<1> DEFINE s == script
           t == Tail(s)
<1>3. s \in Seq(PhasesKnown) /\ s # <<>> /\ ScriptFits
  BY <1>1 DEF RunInvariant, Running, ScriptFits
<1>4. /\ t \in Seq(PhasesKnown) /\ \A i \in DOMAIN t : i + 1 \in DOMAIN s /\ t[i] = s[i + 1] /\ i \in Nat /\ i >= 1
      /\ \A i \in DOMAIN t : i > 1 => i - 1 \in DOMAIN t
  <2> HIDE DEF s
  <2> QED
    BY <1>3
<1>5. \A phase : PhaseFits(phase)' = PhaseFits(phase)
  BY <1>1 DEF PhaseFits, Options, AnyPartial, Partial, ReadsVectors, PhasesKnown
<1>6. ScriptFits'
  <2>1. script' = t
    BY <1>1
  <2>2. \A i \in DOMAIN t : PhaseFits(t[i])
    BY <1>3, <1>4 DEF ScriptFits
  <2>3. ASSUME NEW i \in DOMAIN t, i > 1, t[i].provider = "same" PROVE ReadsVectors(t[i - 1])
    <3>1. i + 1 \in DOMAIN s /\ i + 1 > 1 /\ s[i + 1].provider = "same" /\ (i + 1) - 1 = i
          /\ t[i - 1] = s[(i - 1) + 1] /\ (i - 1) + 1 = i
      BY <1>4, <2>3
    <3>2. ReadsVectors(s[i])
      BY <1>3, <3>1 DEF ScriptFits
    <3> QED
      BY <3>1, <3>2
  <2> HIDE DEF t
  <2> QED
    BY <1>4, <1>5, <2>1, <2>2, <2>3 DEF ScriptFits, ReadsVectors, PhasesKnown
<1>7. ASSUME Served' PROVE OfFile(vector_page_provider, "vectors")'
  <2>1. t # <<>> /\ t[1].provider = "same"
    BY <1>1, <1>7 DEF Served, Run
  <2>2. 2 \in DOMAIN s /\ s[2].provider = "same" /\ s[1] = Run
    <3>1. 1 \in DOMAIN t
      BY <1>4, <2>1
    <3>2. 1 + 1 \in DOMAIN s /\ t[1] = s[1 + 1]
      BY <1>4, <3>1
    <3> QED
      BY <2>1, <3>2 DEF Run
  <2>3. ReadsVectors(Run)
    <3>1. 2 > 1 /\ 2 - 1 = 1
      OBVIOUS
    <3>2. ReadsVectors(script[2 - 1])
      BY <1>3, <2>2, <3>1 DEF ScriptFits
    <3> QED
      BY <2>2, <3>1, <3>2
  <2>4. ~Partial(Run.cached)
    BY <1>3, <2>3, HeadFits DEF PhaseFits
  <2>5. OfFile(vector_page_provider, "vectors")
    BY <1>1, <2>4 DEF RunInvariant, ProvidersFit, Reuses
  <2> QED
    BY <1>1, <2>5 DEF OfFile, providers, vector_page_provider
<1>8. ReadsExpected' /\ pc' = "switch"
  BY <1>1, <1>2 DEF ReadsExpected, NoRead
<1>9. \E clusters \in Assignments : entries' = EntriesOf(clusters)'
  BY <1>1 DEF RunInvariant, Running, EntriesOf
<1> QED
  BY <1>1, <1>6, <1>7, <1>8, <1>9 DEF RunInvariant, Running

(* The trace benchmark reads combined nodes through a provider of them.    *)
LEMMA TraceReads ==
  ASSUME RunInvariant, CacheInvariant, OwnPages, pc \in {"alone", "together"}, ReadTrace
  PROVE  read'.came = read'.wanted
<1>1. PICK p \in 0 .. FilePages["combined"] - 1 :
        ReadRecord(held, PerPage["combined"], p * PerPage["combined"], <<"combined", p * PerPage["combined"]>>)
  BY DEF ReadTrace
<1> DEFINE k == PerPage["combined"]
           n == p * k
<1>2. "combined" \in Files /\ k \in Nat /\ FilePages["combined"] \in Nat
  BY ToolAssumption, DeviceImageAssumption
<1>3. n \in Nat
  <2> DEFINE pages == FilePages["combined"]
  <2>1. p \in 0 .. pages - 1 /\ pages \in Nat
    BY <1>2
  <2> HIDE DEF pages, k
  <2>2. p \in Nat
    BY <2>1
  <2> QED
    BY <1>2, <2>2
<1>4. held # None /\ held \in InUse /\ held.file = "combined" /\ Serving
  BY DEF CacheInvariant, NotServing, InUse, RunInvariant, Serving
<1> HIDE DEF n
<1>5. ReadRecord(held, PerPage["combined"], n, <<"combined", n>>)
  BY <1>1 DEF n
<1>6. read'.wanted = <<"combined", n>> /\ read'.came = <<"combined", n>>
  BY <1>2, <1>3, <1>4, <1>5, RecordComes
<1> QED
  BY <1>6

(* The trace benchmark keeps the provider it opened while it reads.        *)
LEMMA TraceKeeps ==
  ASSUME RunInvariant, CacheInvariant, OwnPages,
         OpenTrace \/ Alone \/ Together \/ Repeat
  PROVE  RunInvariant'
<1>1. CASE OpenTrace
  <2>1. /\ pc = "open_trace" /\ pc' = "alone" /\ UNCHANGED <<args, read>>
        /\ held' = Provider("combined", 1)
    BY <1>1 DEF OpenTrace
  <2>2. held'.file = "combined"
    BY <2>1 DEF Provider
  <2> QED
    BY <2>1, <2>2 DEF RunInvariant, Running, ReadsExpected
<1>2. CASE Alone
  <2>1. pc = "alone" /\ pc' = "together" /\ UNCHANGED <<args, held>> /\ ReadTrace
    BY <1>2 DEF Alone
  <2>2. read'.came = read'.wanted
    BY <2>1, TraceReads
  <2> QED
    BY <2>1, <2>2 DEF RunInvariant, Running, ReadsExpected
<1>3. CASE Together
  <2>1. pc = "together" /\ pc' = pc /\ UNCHANGED <<args, held>> /\ (ReadTrace \/ UNCHANGED read)
    BY <1>3 DEF Together
  <2>2. read'.came = read'.wanted
    BY <2>1, TraceReads DEF RunInvariant, ReadsExpected
  <2> QED
    BY <2>1, <2>2 DEF RunInvariant, Running, ReadsExpected
<1>4. CASE Repeat
  <2>1. pc = "together" /\ pc' \in {"alone", "failed"} /\ UNCHANGED <<args, held, read>>
    BY <1>4 DEF Repeat
  <2> QED
    BY <2>1 DEF RunInvariant, Running, ReadsExpected
<1> QED
  BY <1>1, <1>2, <1>3, <1>4

(* The lists of the library's entry provider are what the launch joins.    *)
LEMMA LibraryKeeps ==
  ASSUME RunInvariant, LibrarySearch PROVE RunInvariant'
<1>1. pc = "library" /\ pc' = pc
  BY DEF LibrarySearch
<1>2. PICK clusters \in Assignments : \E q \in DOMAIN clusters :
        LET lists == [i \in DOMAIN clusters |-> HostEntries(clusters[i])]
        IN  read' = [wanted |-> <<"entries", lists[q]>>,
                     came   |-> <<"entries", Seeds(JoinedLists(lists), q - 1)>>]
  BY DEF LibrarySearch
<1> DEFINE lists == [i \in DOMAIN clusters |-> HostEntries(clusters[i])]
           C == -1 .. ClusterCount - 1
<1>3. PICK q \in DOMAIN clusters :
        read' = [wanted |-> <<"entries", lists[q]>>,
                 came   |-> <<"entries", Seeds(JoinedLists(lists), q - 1)>>]
  BY <1>2
<1>4. DOMAIN clusters = 1 .. Len(clusters) /\ Len(clusters) \in Nat
      /\ \A i \in DOMAIN clusters : clusters[i] \in C
  <2>1. clusters \in Seq(C)
    BY ToolAssumption
  <2> HIDE DEF C
  <2> QED
    BY <2>1
<1>5. \A i \in DOMAIN clusters : HostEntries(clusters[i]) \in Seq(Nat)
  BY <1>4, HostFinds
<1>6. lists \in Seq(Seq(Nat)) /\ Len(lists) = Len(clusters)
  BY <1>4, <1>5
<1>7. q \in 1 .. Len(lists)
  BY <1>4, <1>6
<1> HIDE DEF lists
<1>8. Seeds(JoinedLists(lists), q - 1) = lists[q]
  BY <1>6, <1>7, JoinedSeeds
<1>9. read'.came = read'.wanted
  BY <1>3, <1>8
<1> QED
  BY <1>1, <1>9 DEF RunInvariant, Running, ReadsExpected

(* All other steps leave the run's own state as it is.                     *)
LEMMA OthersElsewhere ==
  ASSUME RunInvariant, [Next]_vars
  PROVE  \/ Plan \/ ComputeEntries \/ Keep \/ Clear \/ Drop \/ Activate
         \/ StageASeeds \/ StageAReads \/ StageBReads \/ EndRun
         \/ OpenTrace \/ Alone \/ Together \/ Repeat \/ LibrarySearch
         \/ Elsewhere
<1>1. CASE Write \/ Build
  BY <1>1 DEF Write, Build, toolvars, Elsewhere
<1>2. CASE ToolStep
  <2>1. CASE OpenTopology \/ LoadTopology
    BY <2>1 DEF OpenTopology, LoadTopology, Goto, Elsewhere, Early
  <2>2. CASE LoadBase \/ LoadRefine \/ LoadHybrid \/ LoadStore
    <3>1. /\ pc \in Early /\ pc' \in Early \cup {"failed"} /\ pc # "library"
          /\ UNCHANGED <<args, script, entries, held, read>>
      BY <2>2 DEF LoadBase, LoadRefine, LoadHybrid, LoadStore, Loaded, Goto, Early
    <3> QED
      BY <3>1 DEF Elsewhere
  <2>3. CASE Done \/ EndTrace
    BY <2>3 DEF Done, EndTrace, Goto, Elsewhere
  <2> QED
    BY <1>2, <2>1, <2>2, <2>3 DEF ToolStep
<1>3. CASE CallFails
  BY <1>3 DEF CallFails, Goto, Elsewhere
<1>4. CASE LibraryLoads
  <2>1. UNCHANGED toolvars /\ (UNCHANGED providers)
    BY <1>4 DEF LibraryLoads, LoadPqIndex, LoadPq2Index, LoadHpqIndex
  <2> QED
    BY <2>1 DEF toolvars, Elsewhere
<1>5. CASE Terminated \/ UNCHANGED vars
  BY <1>5 DEF Terminated, vars, toolvars, Elsewhere
<1> QED
  BY <1>1, <1>2, <1>3, <1>4, <1>5 DEF Next

(* A run reads the records and the entries it asks for.  What is read by   *)
(* number through a provider, a page layout and the cache is that record;  *)
(* a query of a batch starts where the host would start it; and no run is  *)
(* refused for a provider it lacks: for every command line, index, batch   *)
(* plan and order of steps.                                                *)
THEOREM ReadsAreExpected ==
  ASSUME NewCache, WrittenUpwards PROVE Spec => []ReadsExpected
<1>1. Spec => []CacheInvariant
  BY CacheStarts, CacheStep, PTL DEF Spec
<1>2. Spec => []OwnPages
  BY ProvidersReadOwnPages
<1>3. ASSUME RunInvariant, CacheInvariant, OwnPages, [Next]_vars PROVE RunInvariant'
  BY <1>3, OthersElsewhere, PlanKeeps, ComputeKeeps, KeepKeeps, ClearKeepsRun, DropKeepsRun,
     ActivateKeepsRun, SeedsKeep, NeighborsKeep, VectorsKeep, EndRunKeeps, TraceKeeps, LibraryKeeps,
     ElsewhereKeeps
<1>4. RunInvariant => ReadsExpected
  BY DEF RunInvariant
<1> QED
  BY <1>1, <1>2, <1>3, <1>4, RunStarts, PTL DEF Spec
=============================================================================
