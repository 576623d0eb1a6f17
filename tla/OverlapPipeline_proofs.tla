------------------------ MODULE OverlapPipeline_proofs ------------------------
(***************************************************************************)
(* Proofs about OverlapPipeline for every plan of batches, every depth of  *)
(* the ring and every failure: the caller never sees the exception that    *)
(* only says that the other thread gave up, device memory is bounded by    *)
(* the ring, the outcomes are those of the plan in its order, and so the   *)
(* whole is an implementation of the serial experiment.                    *)
(*                                                                         *)
(* The argument for the first: while stage A still runs, the queue is      *)
(* closed only by a stage B that has stored its own exception before, so   *)
(* whoever meets the closed queue comes second.                            *)
(***************************************************************************)
EXTENDS OverlapPipeline, FiniteSetTheorems, WellFoundedInduction, TLAPS

ErrorTypes ==
  /\ pc \in [Stages -> Labels]
  /\ thrown \in [Stages -> Errors]
  /\ worker_error \in Errors

ErrorsKept ==
  /\ \A s \in Stages : pc[s] = "failing" => thrown[s] # NoError
  /\ \A s \in Stages : pc[s] = "close_failed" => worker_error # NoError
  /\ pc["stage_b"] # "close"
  /\ thrown["stage_b"] # ClosedError
  /\ closed => pc["stage_a"] = "done" \/ worker_error # NoError
  /\ thrown["stage_a"] = ClosedError => worker_error # NoError
  /\ worker_error # ClosedError
  /\ result # ClosedError

ErrorInvariant == ErrorTypes /\ ErrorsKept
-----------------------------------------------------------------------------
(* No step of the two threads or the caller disturbs the order in which    *)
(* exceptions are stored.                                                  *)
LEMMA ErrorStep ==
  ASSUME ErrorInvariant, [Next]_vars PROVE ErrorInvariant'
<1> USE DEF ErrorInvariant, ErrorTypes, ErrorsKept, Stages, Labels, Errors,
            NoError, ClosedError, Goto, Awake
<1>1. CASE StartStageA
  BY <1>1 DEF StartStageA, NextBatch
<1>2. CASE RunStageA
  BY <1>2 DEF RunStageA
<1>3. CASE DestroyStageA
  BY <1>3 DEF DestroyStageA
<1>4. ASSUME WaitForRoom \/ WaitForTask \/ \E s \in Stages : SpuriousWakeup(s)
      PROVE  ErrorInvariant'
  <2>1. UNCHANGED <<pc, thrown, worker_error, closed, result>>
    BY <1>4 DEF WaitForRoom, WaitForTask, Wait, SpuriousWakeup
  <2>2. QED
    BY <2>1
<1>5. CASE Push
  BY <1>5 DEF Push, NextBatch
<1>6. CASE PushOnClosed
  BY <1>6 DEF PushOnClosed, Throw
<1>7. ASSUME NEW s \in Stages, CallFails(s) PROVE ErrorInvariant'
  BY <1>7 DEF CallFails, Throw
<1>8. ASSUME NEW s \in Stages, SetWorkerError(s) PROVE ErrorInvariant'
  BY <1>8 DEF SetWorkerError
<1>9. ASSUME NEW s \in Stages, Close(s) PROVE ErrorInvariant'
  <2>1. CASE CloseFrom(s, "close")
    BY <2>1 DEF CloseFrom
  <2>2. CASE CloseFrom(s, "close_failed")
    BY <2>2 DEF CloseFrom
  <2>3. QED
    BY <1>9, <2>1, <2>2 DEF Close
<1>10. CASE StartStageB
  BY <1>10 DEF StartStageB
<1>11. CASE Pop
  BY <1>11 DEF Pop
<1>12. CASE PopNothing
  BY <1>12 DEF PopNothing
<1>13. CASE RunStageB
  BY <1>13 DEF RunStageB
<1>14. CASE DestroyStageB
  BY <1>14 DEF DestroyStageB
<1>15. CASE Caller
  BY <1>15 DEF Caller, JoinAndRethrow, FinalizeMetrics
<1>16. CASE UNCHANGED vars
  BY <1>16 DEF vars
<1>17. QED
  BY <1>1, <1>2, <1>3, <1>4, <1>5, <1>6, <1>7, <1>8, <1>9, <1>10, <1>11,
     <1>12, <1>13, <1>14, <1>15, <1>16
  DEF Next, StageA, StageB

(* The exception the caller sees is one a stage threw or the failure of    *)
(* FinalizeMetrics, never "Push on closed queue." (lines 1199, 2000-2005). *)
THEOREM CauseIsReported == Spec => []CauseReported
<1>1. Init => ErrorInvariant
  BY DEF Init, ErrorInvariant, ErrorTypes, ErrorsKept, Stages, Labels, Errors,
         NoError, ClosedError
<1>2. ErrorInvariant /\ [Next]_vars => ErrorInvariant'
  BY ErrorStep
<1>3. ErrorInvariant => CauseReported
  BY DEF ErrorInvariant, ErrorsKept, CauseReported
<1>4. QED
  BY <1>1, <1>2, <1>3, PTL DEF Spec
-----------------------------------------------------------------------------
(* What has left stage A is answered, in stage B's hands or queued, in the *)
(* order of the plan, unless a failure of stage B has dropped its task.    *)
InOrder ==
  /\ result = "pending" =>
       \A i \in 1..Len(outcomes) : outcomes[i] = Slice(experiment, i)
  /\ thrown["stage_b"] = NoError /\ result = "pending" =>
       /\ Len(outcomes) + Len(task) + Len(queue) = made
       /\ task # <<>> => task[1] = Slice(experiment, Len(outcomes) + 1)
       /\ \A i \in 1..Len(queue) :
            queue[i] = Slice(experiment, Len(outcomes) + Len(task) + i)

(* A stage B that has thrown does not go on. *)
StageBStops ==
  pc["stage_b"] \in {"start", "hand_over", "run", "destroy"} =>
    thrown["stage_b"] = NoError

RingInvariant ==
  /\ TypeOK
  /\ Len(queue) <= experiment.ring_depth
  /\ pc["stage_a"] \in {"run", "hand_over"} => made < Len(Plan)
  /\ task # <<>> <=> pc["stage_b"] = "run"

(* The plan has a natural number of batches, and a batch number within it  *)
(* names one of its slices.                                                *)
LEMMA PlanLength ==
  ASSUME experiment \in ExperimentOptions
  PROVE  /\ Batches(experiment) \in Nat
         /\ Len(Plan) = Batches(experiment)
         /\ \A b \in 1..Batches(experiment) : Slice(experiment, b) \in Slices
<1>1. Batches(experiment) \in Nat
  <2>1. ASSUME NEW n \in Nat, NEW m \in Nat \ {0} PROVE n \div m \in Nat
    BY <2>1
  <2>2. /\ experiment.num_queries \in Nat
        /\ experiment.microbatch \in Nat \ {0}
        /\ experiment.num_queries + experiment.microbatch - 1 \in Nat
    BY DEF ExperimentOptions
  <2>3. QED
    BY <2>1, <2>2 DEF Batches
<1>2. Plan = [b \in 1..Batches(experiment) |-> Slice(experiment, b)]
  BY DEF Plan, BuildBatchPlan
<1>3. Len(Plan) = Batches(experiment) /\ DOMAIN Plan = 1..Batches(experiment)
  BY <1>1, <1>2
<1>4. QED
  BY <1>1, <1>2, <1>3 DEF Slices

(* Every step keeps the types and the depth of the ring.                   *)
LEMMA RingStep ==
  ASSUME RingInvariant, [Next]_vars PROVE RingInvariant'
<1> USE DEF RingInvariant, TypeOK, Goto, Awake, Stages, Labels
<1>0. /\ experiment \in ExperimentOptions /\ experiment.ring_depth \in Nat
      /\ made \in Nat /\ Len(queue) \in Nat
      /\ Batches(experiment) \in Nat /\ Len(Plan) = Batches(experiment)
      /\ \A b \in 1..Batches(experiment) : Slice(experiment, b) \in Slices
  <2>1. experiment \in ExperimentOptions
    BY ExperimentsAssumption
  <2>2. QED
    BY <2>1, PlanLength DEF ExperimentOptions
<1> DEFINE PlanKept == experiment' = experiment /\ Plan' = Plan /\ Slices' = Slices
<1>p. ASSUME experiment' = experiment PROVE PlanKept
  BY <1>p DEF Plan, Slices
<1>1. CASE StartStageA
  BY <1>0, <1>1, <1>p DEF StartStageA, NextBatch
<1>2. CASE RunStageA
  BY <1>0, <1>2, <1>p DEF RunStageA
<1>3. CASE DestroyStageA
  BY <1>0, <1>3, <1>p DEF DestroyStageA
<1>4. CASE WaitForRoom
  BY <1>0, <1>4, <1>p DEF WaitForRoom, Wait
<1>5. CASE WaitForTask
  BY <1>0, <1>5, <1>p DEF WaitForTask, Wait
<1>6. ASSUME NEW s \in Stages, SpuriousWakeup(s) PROVE RingInvariant'
  BY <1>0, <1>6, <1>p DEF SpuriousWakeup
<1>7. CASE Push
  BY <1>0, <1>7, <1>p DEF Push, NextBatch, HasRoom
<1>8. CASE PushOnClosed
  BY <1>0, <1>8, <1>p DEF PushOnClosed, Throw, Errors
<1>9. ASSUME NEW s \in Stages, CallFails(s) PROVE RingInvariant'
  BY <1>0, <1>9, <1>p DEF CallFails, Throw, Errors
<1>10. ASSUME NEW s \in Stages, SetWorkerError(s) PROVE RingInvariant'
  BY <1>0, <1>10, <1>p DEF SetWorkerError
<1>11. ASSUME NEW s \in Stages, Close(s) PROVE RingInvariant'
  BY <1>0, <1>11, <1>p DEF Close, CloseFrom
<1>12. CASE StartStageB
  BY <1>0, <1>12, <1>p DEF StartStageB
<1>13. CASE Pop
  BY <1>0, <1>13, <1>p DEF Pop
<1>14. CASE PopNothing
  BY <1>0, <1>14, <1>p DEF PopNothing
<1>15. CASE RunStageB
  <2>1. PICK x \in Slices : task = <<x>>
    BY <1>15 DEF RunStageB
  <2>2. outcomes \o task \in Seq(Slices)
    BY <2>1
  <2>3. QED
    BY <1>0, <1>15, <1>p, <2>2 DEF RunStageB
<1>16. CASE DestroyStageB
  BY <1>0, <1>16, <1>p DEF DestroyStageB
<1>17. CASE JoinAndRethrow
  BY <1>0, <1>17, <1>p DEF JoinAndRethrow
<1>18. CASE FinalizeMetrics
  <2>1. ASSUME NEW sorted \in SortedByOffset PROVE sorted \in Seq(Slices)
    <3>1. PICK p \in [DOMAIN outcomes -> DOMAIN outcomes] :
            sorted = [i \in DOMAIN outcomes |-> outcomes[p[i]]]
      BY <2>1 DEF SortedByOffset, Rearrangements
    <3>2. sorted \in [1..Len(outcomes) -> Slices]
      BY <3>1
    <3>3. QED
      BY <3>2
  <2>2. outcomes' \in Seq(Slices) /\ result' \in {"metrics", "finalize"}
    BY <1>18, <2>1 DEF FinalizeMetrics
  <2>3. QED
    BY <1>0, <1>18, <1>p, <2>2 DEF FinalizeMetrics
<1>19. CASE UNCHANGED vars
  BY <1>0, <1>19, <1>p DEF vars
<1>20. QED
  BY <1>1, <1>2, <1>3, <1>4, <1>5, <1>6, <1>7, <1>8, <1>9, <1>10, <1>11,
     <1>12, <1>13, <1>14, <1>15, <1>16, <1>17, <1>18, <1>19
  DEF Next, StageA, StageB, Caller

LEMMA RingInit == Init => RingInvariant
<1> SUFFICES ASSUME Init PROVE RingInvariant
  OBVIOUS
<1>1. experiment \in ExperimentOptions
  BY ExperimentsAssumption DEF Init
<1>2. experiment.ring_depth \in Nat /\ Len(Plan) \in Nat
  BY <1>1, PlanLength DEF ExperimentOptions
<1>3. TypeOK
  <2>1. queue \in Seq(Slices) /\ outcomes \in Seq(Slices)
    BY DEF Init
  <2>2. made \in 0..Len(Plan)
    BY <1>2 DEF Init
  <2>3. QED
    BY <2>1, <2>2 DEF Init, TypeOK, Stages, Labels, Errors
<1>4. QED
  BY <1>2, <1>3 DEF Init, RingInvariant, Stages

(* Every thread stands at one of its places, and queue, task and outcomes  *)
(* hold slices of the plan only.                                           *)
THEOREM OverlapTypes == Spec => []TypeOK
<1>1. RingInvariant => TypeOK
  BY DEF RingInvariant
<1>2. QED
  BY <1>1, RingInit, RingStep, PTL DEF Spec

(* Between the stages there are never more batches than the ring has       *)
(* places, and each thread holds at most one more (lines 1197, 1994).      *)
THEOREM RingBoundsMemory == Spec => []BuffersBounded
<1>1. ASSUME RingInvariant PROVE BuffersBounded
  <2>1. experiment.ring_depth \in Nat /\ Len(queue) \in Nat
    BY <1>1, ExperimentsAssumption DEF RingInvariant, TypeOK, ExperimentOptions
  <2>2. Len(task) \in 0..1
    BY <1>1 DEF RingInvariant, TypeOK
  <2>3. Len(queue) <= experiment.ring_depth
    BY <1>1 DEF RingInvariant
  <2>4. (IF pc["stage_a"] = "hand_over" THEN 1 ELSE 0) \in 0..1
    OBVIOUS
  <2>5. ASSUME NEW n \in Nat, NEW d \in Nat, n <= d, NEW t \in 0..1, NEW a \in 0..1
        PROVE  n + t + a <= d + 2
    BY <2>5
  <2>6. QED
    BY <2>1, <2>2, <2>3, <2>4, <2>5 DEF BuffersBounded
<1>2. QED
  BY <1>1, RingInit, RingStep, PTL DEF Spec
-----------------------------------------------------------------------------
(* Every step keeps the order.                                             *)
LEMMA OrderStep ==
  ASSUME RingInvariant, StageBStops, InOrder, [Next]_vars
  PROVE  StageBStops' /\ InOrder'
<1> USE DEF RingInvariant, TypeOK, StageBStops, InOrder, Goto, Awake, Stages,
            Labels, NoError
<1> DEFINE Same == UNCHANGED <<experiment, made, queue, task, outcomes, result>>
<1>1. CASE StartStageA \/ RunStageA \/ DestroyStageA \/ PushOnClosed
  <2>1. Same /\ pc'["stage_b"] = pc["stage_b"]
             /\ thrown'["stage_b"] = thrown["stage_b"]
    BY <1>1 DEF StartStageA, RunStageA, DestroyStageA, PushOnClosed, Throw
  <2>2. QED
    BY <2>1
<1>2. CASE WaitForRoom \/ WaitForTask \/ \E s \in Stages : SpuriousWakeup(s)
  <2>1. Same /\ UNCHANGED <<pc, thrown>>
    BY <1>2 DEF WaitForRoom, WaitForTask, Wait, SpuriousWakeup
  <2>2. QED
    BY <2>1
<1>3. CASE Push
  <2>1. /\ Len(queue') = Len(queue) + 1 /\ made' = made + 1
        /\ queue'[Len(queue) + 1] = Slice(experiment, made + 1)
        /\ \A i \in 1..Len(queue) : queue'[i] = queue[i]
        /\ UNCHANGED <<experiment, task, outcomes, result, thrown>>
        /\ pc'["stage_b"] = pc["stage_b"]
    BY <1>3 DEF Push
  <2>2. Len(outcomes) \in Nat /\ Len(task) \in Nat /\ Len(queue) \in Nat
    OBVIOUS
  <2>3. ASSUME thrown["stage_b"] = NoError, result = "pending",
               NEW i \in 1..Len(queue')
        PROVE  queue'[i] = Slice(experiment, Len(outcomes) + Len(task) + i)
    <3>1. CASE i = Len(queue) + 1
      <4>1. Len(outcomes) + Len(task) + i = made + 1
        BY <2>2, <2>3, <3>1
      <4>2. QED
        BY <2>1, <3>1, <4>1
    <3>2. CASE i \in 1..Len(queue)
      BY <2>1, <2>3, <3>2
    <3>3. QED
      BY <2>1, <2>2, <2>3, <3>1, <3>2
  <2>4. ASSUME thrown["stage_b"] = NoError, result = "pending"
        PROVE  Len(outcomes) + Len(task) + Len(queue') = made'
    <3>1. Len(outcomes) + Len(task) + Len(queue) = made
      BY <2>4
    <3>2. Len(queue') = Len(queue) + 1 /\ made' = made + 1
      BY <2>1
    <3> HIDE DEF RingInvariant, TypeOK, StageBStops, InOrder
    <3>3. QED
      BY <2>2, <3>1, <3>2
  <2>5. StageBStops'
    BY <2>1
  <2>6. result' = "pending" =>
          \A i \in 1..Len(outcomes') : outcomes'[i] = Slice(experiment', i)
    BY <2>1
  <2>7. thrown'["stage_b"] = NoError /\ result' = "pending" =>
          /\ Len(outcomes') + Len(task') + Len(queue') = made'
          /\ task' # <<>> => task'[1] = Slice(experiment', Len(outcomes') + 1)
    BY <2>1, <2>4
  <2>8. thrown'["stage_b"] = NoError /\ result' = "pending" =>
          \A i \in 1..Len(queue') :
            queue'[i] = Slice(experiment', Len(outcomes') + Len(task') + i)
    BY <2>1, <2>3
  <2>9. QED
    BY <2>5, <2>6, <2>7, <2>8
<1>4. ASSUME NEW s \in Stages, CallFails(s) PROVE StageBStops' /\ InOrder'
  <2>1. CASE s = "stage_a"
    BY <1>4, <2>1 DEF CallFails, Throw
  <2>2. CASE s = "stage_b"
    <3>1. /\ UNCHANGED <<experiment, outcomes, result>>
          /\ pc'["stage_b"] = "failing" /\ thrown'["stage_b"] = "stage_b"
      BY <1>4, <2>2 DEF CallFails, Throw
    <3>2. QED
      BY <3>1
  <2>3. QED
    BY <2>1, <2>2
<1>5. ASSUME NEW s \in Stages, SetWorkerError(s) \/ Close(s)
      PROVE  StageBStops' /\ InOrder'
  <2>1. /\ Same /\ thrown' = thrown
        /\ pc'["stage_b"] \in {pc["stage_b"], "close_failed", "done"}
    BY <1>5 DEF SetWorkerError, Close, CloseFrom
  <2>2. QED
    BY <2>1
<1>6. CASE StartStageB \/ PopNothing \/ DestroyStageB
  <2>1. Same /\ thrown' = thrown /\ thrown["stage_b"] = NoError
    BY <1>6 DEF StartStageB, PopNothing, DestroyStageB
  <2>2. QED
    BY <2>1
<1>7. CASE Pop
  <2>1. task = <<>> /\ queue # <<>>
    BY <1>7 DEF Pop
  <2>2. /\ Len(queue') = Len(queue) - 1 /\ Len(queue) \in Nat \ {0}
        /\ \A i \in 1..Len(queue') : queue'[i] = queue[i + 1]
        /\ task' = <<queue[1]>>
    BY <1>7, <2>1 DEF Pop
  <2>3. /\ UNCHANGED <<experiment, made, outcomes, result, thrown>>
        /\ thrown["stage_b"] = NoError
    BY <1>7 DEF Pop
  <2>4. Len(outcomes) \in Nat /\ Len(task) = 0 /\ Len(task') = 1 /\ task'[1] = queue[1]
    BY <2>1, <2>2
  <2>5. ASSUME result = "pending"
        PROVE  /\ Len(outcomes) + Len(task') + Len(queue') = made
               /\ task'[1] = Slice(experiment, Len(outcomes) + 1)
               /\ \A i \in 1..Len(queue') :
                    queue'[i] = Slice(experiment, Len(outcomes) + Len(task') + i)
    <3>1. Len(outcomes) + Len(task') + Len(queue') = made
      BY <2>2, <2>3, <2>4, <2>5
    <3>2. queue[1] = Slice(experiment, Len(outcomes) + 1)
      <4>1. 1 \in 1..Len(queue) /\ Len(outcomes) + Len(task) + 1 = Len(outcomes) + 1
        BY <2>2, <2>4
      <4>2. QED
        BY <2>3, <2>5, <4>1
    <3>3. ASSUME NEW i \in 1..Len(queue')
          PROVE  queue'[i] = Slice(experiment, Len(outcomes) + Len(task') + i)
      <4>1. /\ i + 1 \in 1..Len(queue)
            /\ Len(outcomes) + Len(task) + (i + 1) = Len(outcomes) + Len(task') + i
        BY <2>2, <2>4
      <4>2. queue[i + 1] = Slice(experiment, Len(outcomes) + Len(task) + (i + 1))
        BY <2>3, <2>5, <4>1
      <4>3. QED
        BY <2>2, <4>1, <4>2
    <3>4. QED
      BY <2>4, <3>1, <3>2, <3>3
  <2>6. QED
    BY <2>3, <2>5
<1>8. CASE RunStageB
  <2>1. PICK x \in Slices : task = <<x>>
    BY <1>8 DEF RunStageB
  <2>2. /\ Len(outcomes') = Len(outcomes) + 1
        /\ outcomes'[Len(outcomes) + 1] = x
        /\ \A i \in 1..Len(outcomes) : outcomes'[i] = outcomes[i]
    BY <1>8, <2>1 DEF RunStageB
  <2>3. /\ UNCHANGED <<experiment, made, queue, result, thrown>>
        /\ task' = <<>> /\ thrown["stage_b"] = NoError
    BY <1>8 DEF RunStageB
  <2>4. /\ Len(outcomes) \in Nat /\ Len(queue) \in Nat
        /\ Len(task) = 1 /\ task[1] = x /\ Len(task') = 0 /\ task # <<>>
    BY <2>1, <2>3
  <2>5. QED
    BY <2>2, <2>3, <2>4
<1>9. CASE Caller
  <2>1. result' # "pending" /\ UNCHANGED <<pc, thrown>>
    BY <1>9 DEF Caller, JoinAndRethrow, FinalizeMetrics, Errors, ClosedError
  <2>2. QED
    BY <2>1
<1>10. CASE UNCHANGED vars
  BY <1>10 DEF vars
<1>11. QED
  BY <1>1, <1>2, <1>3, <1>4, <1>5, <1>6, <1>7, <1>8, <1>9, <1>10
  DEF Next, StageA, StageB

(* Until the caller has the result, what is answered is a prefix of the    *)
(* plan, each batch once and in its order, even after a failure.           *)
AnsweredInOrder ==
  result = "pending" =>
    \A i \in 1..Len(outcomes) : outcomes[i] = Slice(experiment, i)

THEOREM OutcomesFollowPlan == Spec => []AnsweredInOrder
<1>1. Init => StageBStops /\ InOrder
  BY DEF Init, StageBStops, InOrder, Stages
<1>2. InOrder => AnsweredInOrder
  BY DEF InOrder, AnsweredInOrder
<1>3. QED
  BY <1>1, <1>2, RingInit, RingStep, OrderStep, PTL DEF Spec
-----------------------------------------------------------------------------
(* The overlapped experiment implements the serial one: what remains to    *)
(* show is that the caller finishes only with every batch answered, and    *)
(* that sorting what is answered in order changes nothing.                 *)

(* Every nonempty set of natural numbers has a least element: 0..x shrinks *)
(* strictly with x, and strict inclusion of finite sets is well founded.   *)
LEMMA LeastElement ==
  ASSUME NEW T, T \subseteq Nat, T # {}
  PROVE  \E x \in T : \A y \in T : x <= y
<1> DEFINE R == StrictSubsetOrdering(Nat)
           S == FiniteSubsetsOf(Nat)
           U == {0..x : x \in T}
<1>1. IsWellFoundedOn(R, S)
  BY FS_StrictSubsetOrderingWellFounded, Zenon
<1>2. U \subseteq S
  <2>1. ASSUME NEW x \in T PROVE 0..x \subseteq Nat /\ IsFiniteSet(0..x)
    BY FS_Interval, SMT
  <2>2. QED
    BY <2>1 DEF FiniteSubsetsOf
<1>3. U # {}
  OBVIOUS
<1>4. ASSUME NEW x \in T, NEW y \in T, y < x PROVE <<0..y, 0..x>> \in R
  <2>1. /\ 0..y \in SUBSET Nat /\ 0..x \in SUBSET Nat
        /\ 0..y \subseteq 0..x /\ x \notin 0..y /\ x \in 0..x
    BY <1>4, SMT
  <2>2. QED
    BY <2>1 DEF StrictSubsetOrdering
<1> HIDE DEF R, S
<1>5. PICK u \in U : \A v \in U : ~ (<<v, u>> \in R)
  <2> HIDE DEF U
  <2>1. QED
    BY <1>1, <1>2, <1>3, WFMin, Zenon
<1>6. PICK x \in T : u = 0..x
  OBVIOUS
<1>7. ASSUME NEW y \in T PROVE x <= y
  <2>1. ~ (<<0..y, 0..x>> \in R)
    BY <1>5, <1>6
  <2>2. ~ (y < x)
    BY <1>4, <2>1
  <2>3. QED
    BY <2>2
<1>8. QED
  BY <1>7

(* A permutation of 1..n that keeps the order moves nothing: the least     *)
(* place that moves down, or the last one that moves up, has a neighbour   *)
(* of its kind beyond it.                                                  *)
LEMMA OrderKeptIsIdentity ==
  ASSUME NEW n \in Nat, NEW p \in [1..n -> 1..n],
         \A i, j \in 1..n : i < j => p[i] < p[j]
  PROVE  \A i \in 1..n : p[i] = i
<1>1. ASSUME NEW a \in 1..n, p[a] < a PROVE FALSE
  <2> DEFINE Down == {i \in 1..n : p[i] < i}
  <2>1. PICK i \in Down : \A j \in Down : i <= j
    <3>1. Down \subseteq Nat /\ Down # {}
      BY <1>1
    <3>2. QED
      BY <3>1, LeastElement
  <2>2. p[i] \in 1..n /\ p[i] < i
    BY <2>1
  <2>3. p[p[i]] < p[i]
    BY <2>1, <2>2
  <2>4. p[i] \in Down
    BY <2>2, <2>3
  <2>5. QED
    BY <2>1, <2>2, <2>4
<1>2. ASSUME NEW a \in 1..n, p[a] > a PROVE FALSE
  <2> DEFINE Up == {d \in 0..n : \E i \in 1..n : d = n - i /\ p[i] > i}
  <2>1. PICK d \in Up : \A e \in Up : d <= e
    <3>1. n - a \in Up
      BY <1>2
    <3>2. 0..n \subseteq Nat
      OBVIOUS
    <3>3. Up \subseteq Nat /\ Up # {}
      BY <3>1, <3>2, Zenon
    <3>4. QED
      BY <3>3, LeastElement
  <2>2. PICK i \in 1..n : d = n - i /\ p[i] > i
    BY <2>1
  <2>3. p[i] \in 1..n /\ p[p[i]] > p[i]
    BY <2>2
  <2>4. n - p[i] \in Up
    <3>1. ASSUME NEW m \in Nat, NEW j \in 1..m PROVE m - j \in 0..m
      OBVIOUS
    <3>2. n - p[i] \in 0..n
      BY <2>3, <3>1, Zenon
    <3>3. QED
      BY <2>3, <3>2, Zenon
  <2>5. d <= n - p[i]
    BY <2>1, <2>4
  <2>6. i \in Nat /\ n \in Nat /\ p[i] \in Nat /\ d = n - i /\ p[i] > i
    BY <2>2, <2>3
  <2> HIDE DEF Up
  <2>7. QED
    BY <2>5, <2>6
<1>3. ASSUME NEW a \in 1..n PROVE p[a] = a
  <2>1. a \in Nat /\ p[a] \in Nat /\ ~(p[a] < a) /\ ~(p[a] > a)
    BY <1>1, <1>2
  <2>2. QED
    BY <2>1
<1>4. QED
  BY <1>3

(* The slices of a plan lie one after the other, so a sort by their        *)
(* offsets leaves the answered prefix as it is.                            *)
LEMMA SortKeepsOrder ==
  ASSUME experiment \in ExperimentOptions, outcomes \in Seq(Slices),
         \A i \in 1..Len(outcomes) : outcomes[i] = Slice(experiment, i),
         NEW sorted \in SortedByOffset
  PROVE  sorted = outcomes
<1>1. PICK p \in Rearrangements : sorted = [i \in DOMAIN outcomes |-> outcomes[p[i]]]
  BY DEF SortedByOffset
<1> DEFINE n == Len(outcomes)
<1>2. /\ n \in Nat /\ DOMAIN outcomes = 1..n
      /\ p \in [1..n -> 1..n]
      /\ \A i, j \in 1..n : p[i] = p[j] => i = j
  BY DEF Rearrangements
<1>3. DOMAIN sorted = 1..n
  BY <1>1, <1>2
<1>4. ASSUME NEW i \in 1..n
      PROVE  sorted[i].query_offset = (p[i] - 1) * experiment.microbatch
  <2>1. sorted[i] = Slice(experiment, p[i])
    BY <1>1, <1>2
  <2>2. QED
    BY <2>1 DEF Slice
<1>5. experiment.microbatch \in Nat \ {0}
  BY DEF ExperimentOptions
<1>6. ASSUME NEW i \in 1..n, NEW j \in 1..n, i < j PROVE p[i] < p[j]
  <2>1. sorted[i].query_offset <= sorted[j].query_offset
    BY <1>3, <1>6 DEF SortedByOffset
  <2>2. (p[i] - 1) * experiment.microbatch <= (p[j] - 1) * experiment.microbatch
    BY <1>4, <2>1
  <2>3. p[i] # p[j] /\ p[i] \in 1..n /\ p[j] \in 1..n
    BY <1>2, <1>6
  <2>4. ASSUME NEW x \in Nat, NEW y \in Nat, NEW m \in Nat \ {0}, x > y
        PROVE  x * m > y * m
    <3>1. PICK z \in Nat : x = y + 1 + z
      <4>1. x - y - 1 \in Nat /\ x = y + 1 + (x - y - 1)
        BY <2>4
      <4>2. QED
        BY <4>1
    <3>2. x * m = y * m + m + z * m /\ z * m \in Nat /\ y * m \in Nat
      BY <2>4, <3>1
    <3>3. QED
      BY <3>2
  <2>5. ~ (p[i] - 1 > p[j] - 1)
    <3>0. ASSUME NEW z \in Nat, NEW m \in Nat PROVE z * m \in Nat
      BY <3>0
    <3>1. /\ p[i] - 1 \in Nat /\ p[j] - 1 \in Nat
          /\ (p[i] - 1) * experiment.microbatch \in Nat
          /\ (p[j] - 1) * experiment.microbatch \in Nat
      <4>1. p[i] - 1 \in Nat /\ p[j] - 1 \in Nat /\ experiment.microbatch \in Nat
        BY <1>5, <2>3
      <4>2. QED
        BY <3>0, <4>1, Zenon
    <3>2. SUFFICES ASSUME p[i] - 1 > p[j] - 1 PROVE FALSE
      OBVIOUS
    <3>3. (p[i] - 1) * experiment.microbatch > (p[j] - 1) * experiment.microbatch
      BY <1>5, <2>4, <3>1, <3>2
    <3> DEFINE x == (p[i] - 1) * experiment.microbatch
               y == (p[j] - 1) * experiment.microbatch
    <3>4. x \in Nat /\ y \in Nat
      BY <3>1
    <3>5. x <= y /\ x > y
      BY <2>2, <3>3
    <3> HIDE DEF x, y
    <3>6. QED
      BY <3>4, <3>5
  <2>6. QED
    BY <2>3, <2>5
<1>7. \A i \in 1..n : p[i] = i
  <2> HIDE DEF n
  <2>1. QED
    BY <1>2, <1>6, OrderKeptIsIdentity
<1>8. QED
  BY <1>1, <1>2, <1>7

(* A thread that has ended without an exception has done all its work, and *)
(* an exception that was caught is not lost.                               *)
AllAnswered ==
  /\ \A s \in Stages :
       thrown[s] # NoError => pc[s] = "failing" \/ worker_error # NoError
  /\ pc["stage_a"] \in {"destroy", "close"} => made = Len(Plan)
  /\ pc["stage_a"] = "done" => made = Len(Plan) \/ worker_error # NoError
  /\ pc["stage_b"] = "destroy" => closed /\ queue = <<>>
  /\ pc["stage_b"] = "done" => (closed /\ queue = <<>>) \/ worker_error # NoError
  /\ result # "pending" => \A s \in Stages : pc[s] = "done"

LEMMA AllAnsweredStep ==
  ASSUME ErrorInvariant, RingInvariant, AllAnswered, [Next]_vars
  PROVE  AllAnswered'
<1>a. Len(Plan) \in Nat
  BY ExperimentsAssumption, PlanLength DEF RingInvariant, TypeOK
<1>b. made \in 0..Len(Plan)
  BY DEF RingInvariant, TypeOK
<1>c. ASSUME NEW l \in Nat, NEW n \in 0..l
      PROVE  /\ n \in Nat /\ n <= l
             /\ (IF n < l THEN "run" ELSE "destroy") \in {"run", "destroy"}
             /\ (IF n < l THEN "run" ELSE "destroy") = "destroy" => n = l
  BY <1>c
<1>d. experiment' = experiment => Plan' = Plan
  BY DEF Plan
<1>e. ASSUME NEW n \in 0..Len(Plan)
      PROVE  /\ NextBatch(n) \in {"run", "destroy"}
             /\ NextBatch(n) = "destroy" => n = Len(Plan)
  BY <1>a, <1>c DEF NextBatch
<1>f. \A n \in 0..Len(Plan) : n < Len(Plan) => n + 1 \in 0..Len(Plan)
  <2>1. ASSUME NEW l \in Nat, NEW n \in 0..l, n < l PROVE n + 1 \in 0..l
    BY <2>1
  <2>2. QED
    BY <1>a, <2>1, Zenon
<1>0. /\ made \in Nat /\ Len(Plan) \in Nat /\ made <= Len(Plan)
      /\ experiment' = experiment => Plan' = Plan
  BY <1>a, <1>b, <1>c, <1>d
<1> USE DEF ErrorInvariant, ErrorTypes, ErrorsKept, RingInvariant, TypeOK,
            AllAnswered, Stages, Labels, Errors, NoError, ClosedError, Goto, Awake
<1>1. CASE StartStageA
  BY <1>0, <1>1, <1>b, <1>e DEF StartStageA
<1>2. CASE RunStageA
  BY <1>0, <1>2 DEF RunStageA
<1>3. CASE DestroyStageA
  BY <1>0, <1>3 DEF DestroyStageA
<1>4. ASSUME WaitForRoom \/ WaitForTask \/ \E s \in Stages : SpuriousWakeup(s)
      PROVE  AllAnswered'
  <2>1. UNCHANGED <<experiment, pc, made, queue, closed, thrown, worker_error,
                    result>>
    BY <1>4 DEF WaitForRoom, WaitForTask, Wait, SpuriousWakeup
  <2>2. QED
    BY <1>0, <2>1
<1>5. CASE Push
  <2>1. made < Len(Plan)
    BY <1>5 DEF Push
  <2>2. made + 1 \in 0..Len(Plan)
    BY <1>b, <1>f, <2>1, Zenon
  <2>3. QED
    BY <1>0, <1>5, <1>e, <2>2 DEF Push
<1>6. CASE PushOnClosed
  BY <1>0, <1>6 DEF PushOnClosed, Throw
<1>7. ASSUME NEW s \in Stages, CallFails(s) PROVE AllAnswered'
  BY <1>0, <1>7 DEF CallFails, Throw
<1>8. ASSUME NEW s \in Stages, SetWorkerError(s) PROVE AllAnswered'
  BY <1>0, <1>8 DEF SetWorkerError
<1>9. ASSUME NEW s \in Stages, Close(s) PROVE AllAnswered'
  BY <1>0, <1>9 DEF Close, CloseFrom
<1>10. CASE StartStageB
  BY <1>0, <1>10 DEF StartStageB
<1>11. CASE Pop
  BY <1>0, <1>11 DEF Pop
<1>12. CASE PopNothing
  BY <1>0, <1>12 DEF PopNothing
<1>13. CASE RunStageB
  BY <1>0, <1>13 DEF RunStageB
<1>14. CASE DestroyStageB
  BY <1>0, <1>14 DEF DestroyStageB
<1>15. CASE JoinAndRethrow
  BY <1>0, <1>15 DEF JoinAndRethrow
<1>16. CASE FinalizeMetrics
  BY <1>0, <1>16 DEF FinalizeMetrics
<1>17. CASE UNCHANGED vars
  BY <1>0, <1>17 DEF vars
<1>18. QED
  BY <1>1, <1>2, <1>3, <1>4, <1>5, <1>6, <1>7, <1>8, <1>9, <1>10, <1>11,
     <1>12, <1>13, <1>14, <1>15, <1>16, <1>17
  DEF Next, StageA, StageB, Caller

ExperimentInvariant ==
  ErrorInvariant /\ RingInvariant /\ StageBStops /\ InOrder /\ AllAnswered

LEMMA ExperimentInvariantHolds == Spec => []ExperimentInvariant
<1>1. Init => ErrorInvariant
  BY DEF Init, ErrorInvariant, ErrorTypes, ErrorsKept, Stages, Labels, Errors,
         NoError, ClosedError
<1>2. Init => StageBStops /\ InOrder /\ AllAnswered
  BY DEF Init, StageBStops, InOrder, AllAnswered, Stages, NoError
<1>3. QED
  BY <1>1, <1>2, RingInit, RingStep, ErrorStep, OrderStep, AllAnsweredStep, PTL
  DEF Spec, ExperimentInvariant

(* Every step of the two threads and the caller is a step of the serial    *)
(* experiment or changes nothing that it shows.                            *)
LEMMA SerialStep ==
  ASSUME ExperimentInvariant, [Next]_vars
  PROVE  [Serial!Next]_(Serial!vars)
<1> DEFINE Shown == UNCHANGED <<experiment, outcomes, result>>
<1>1. ASSUME Shown PROVE [Serial!Next]_(Serial!vars)
  BY <1>1 DEF Serial!vars
<1>2. Serial!Plan = Plan
  BY DEF Serial!Plan, Serial!BuildBatchPlan, Serial!Batches, Serial!TailMerged,
         Serial!Slice, Plan, BuildBatchPlan, Batches, TailMerged, Slice
<1>3. /\ experiment \in ExperimentOptions /\ outcomes \in Seq(Slices)
      /\ Len(outcomes) \in Nat
  BY ExperimentsAssumption DEF ExperimentInvariant, RingInvariant, TypeOK
<1>4. CASE \/ StartStageA \/ RunStageA \/ DestroyStageA \/ WaitForRoom
           \/ Push \/ PushOnClosed
           \/ \E s \in Stages : CallFails(s) \/ SetWorkerError(s) \/ Close(s)
           \/ \E s \in Stages : SpuriousWakeup(s)
  <2>1. Shown
    BY <1>4 DEF StartStageA, RunStageA, DestroyStageA, WaitForRoom, Push,
       PushOnClosed, CallFails, SetWorkerError, Close, CloseFrom, Wait, SpuriousWakeup
  <2>2. QED
    BY <1>1, <2>1
<1>5. CASE StartStageB \/ DestroyStageB \/ WaitForTask \/ Pop \/ PopNothing
  <2>1. Shown
    BY <1>5 DEF StartStageB, DestroyStageB, WaitForTask, Pop, PopNothing, Wait
  <2>2. QED
    BY <1>1, <2>1
<1>6. CASE RunStageB
  <2>1. /\ pc["stage_b"] = "run" /\ outcomes' = outcomes \o task
        /\ UNCHANGED <<experiment, result>>
    BY <1>6 DEF RunStageB, Awake
  <2>2. /\ result = "pending" /\ thrown["stage_b"] = NoError /\ task # <<>>
        /\ made <= Len(Plan) /\ made \in Nat /\ Len(Plan) \in Nat
        /\ Len(queue) \in Nat
    <3>1. Len(Plan) \in Nat
      BY <1>3, PlanLength
    <3>2. QED
      BY <2>1, <3>1 DEF ExperimentInvariant, AllAnswered, StageBStops,
         RingInvariant, TypeOK, Stages
  <2>3. PICK x \in Slices : task = <<x>>
    BY <2>2 DEF ExperimentInvariant, RingInvariant, TypeOK
  <2>4. /\ Len(outcomes) + 1 + Len(queue) = made
        /\ x = Slice(experiment, Len(outcomes) + 1)
    BY <2>2, <2>3 DEF ExperimentInvariant, InOrder
  <2>5. Len(outcomes) < Len(Plan) /\ Len(outcomes) + 1 \in 1..Len(Plan)
    BY <1>3, <2>2, <2>4
  <2>6. x = Plan[Len(outcomes) + 1]
    <3>1. /\ Len(Plan) = Batches(experiment)
          /\ Plan = [b \in 1..Batches(experiment) |-> Slice(experiment, b)]
      BY <1>3, PlanLength DEF Plan, BuildBatchPlan
    <3>2. QED
      BY <2>4, <2>5, <3>1
  <2>7. outcomes' = Append(outcomes, Plan[Len(outcomes) + 1])
    BY <1>3, <2>1, <2>3, <2>6
  <2>8. QED
    BY <1>2, <2>1, <2>2, <2>5, <2>7 DEF Serial!Next, Serial!AnswerBatch
<1>7. CASE JoinAndRethrow
  <2>1. /\ result = "pending" /\ result' = worker_error
        /\ UNCHANGED <<experiment, outcomes>>
    BY <1>7 DEF JoinAndRethrow
  <2>2. worker_error \in {"stage_a", "stage_b"}
    BY <1>7 DEF JoinAndRethrow, ExperimentInvariant, ErrorInvariant, ErrorTypes,
                ErrorsKept, Errors, Stages
  <2>3. QED
    BY <2>1, <2>2 DEF Serial!Next, Serial!Fail
<1>8. CASE FinalizeMetrics
  <2>1. /\ result = "pending" /\ \A s \in Stages : pc[s] = "done"
        /\ worker_error = NoError /\ experiment' = experiment
    BY <1>8 DEF FinalizeMetrics
  <2>2. CASE result' = "finalize" /\ UNCHANGED outcomes
    BY <2>1, <2>2 DEF Serial!Next, Serial!Fail
  <2>3. CASE result' = "metrics" /\ outcomes' \in SortedByOffset
    <3>1. outcomes' = outcomes
      BY <1>3, <2>1, <2>3, SortKeepsOrder DEF ExperimentInvariant, InOrder
    <3>2. /\ thrown["stage_b"] = NoError /\ made = Len(Plan) /\ queue = <<>>
          /\ task = <<>>
      BY <2>1 DEF ExperimentInvariant, AllAnswered, RingInvariant, Stages
    <3>3. Len(outcomes) = Len(Plan)
      <4>1. Len(outcomes) + Len(task) + Len(queue) = made
        BY <2>1, <3>2 DEF ExperimentInvariant, InOrder
      <4>2. QED
        BY <1>3, <3>2, <4>1
    <3>4. QED
      BY <1>2, <2>1, <2>3, <3>1, <3>3 DEF Serial!Next, Serial!Finish
  <2>4. QED
    BY <1>8, <2>2, <2>3 DEF FinalizeMetrics
<1>9. CASE UNCHANGED vars
  BY <1>1, <1>9 DEF vars
<1>10. QED
  BY <1>4, <1>5, <1>6, <1>7, <1>8, <1>9 DEF Next, StageA, StageB, Caller, Stages

(* The two threads, the ring between them and every failure show the       *)
(* caller nothing that one thread would not have shown.                    *)
THEOREM OverlapImplementsSerial == Spec => ImplementsSerial
<1>1. Init => Serial!Init
  BY DEF Init, Serial!Init
<1>2. ExperimentInvariant /\ [Next]_vars => [Serial!Next]_(Serial!vars)
  BY SerialStep
<1>3. QED
  BY <1>1, <1>2, ExperimentInvariantHolds, PTL DEF Spec, ImplementsSerial, Serial!Spec
=============================================================================
