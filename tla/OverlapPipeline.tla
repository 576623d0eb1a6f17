--------------------------- MODULE OverlapPipeline ---------------------------
(***************************************************************************)
(* RunOverlapExperiment of tools/topoanns_overlap_pipeline_eval.cpp: one   *)
(* thread runs stage A (the traversal) batch after batch and hands what it *)
(* made to a second thread, which runs stage B (the rerank), through a     *)
(* BoundedQueue of ring_depth places.  Either thread may fail in any call; *)
(* it then stores its exception unless there is one already, and closes    *)
(* the queue.  The caller joins both and rethrows what was stored.         *)
(*                                                                         *)
(* A body that runs under a mutex is one step.  A wait on a condition      *)
(* variable puts the thread into asleep; a notification takes it out, and  *)
(* so may a spurious wake-up.  What a stage computes is a payload: a batch *)
(* is known by its slice of the queries.                                   *)
(***************************************************************************)
EXTENDS BatchPlan

CONSTANT Experiments  \* the command lines an execution is started with

ASSUME ExperimentsAssumption == Experiments \subseteq ExperimentOptions

VARIABLES
  experiment,    \* the command line, fixed for the execution
  pc,            \* [Stages -> Labels]: where each thread is
  asleep,        \* the threads blocked in a wait
  made,          \* batches stage A has handed over
  queue,         \* BoundedQueue::queue_: slices whose stage A is done
  closed,        \* BoundedQueue::closed_
  task,          \* what stage B holds: one slice, or none
  outcomes,      \* slices whose stage B is done, in the order they were stored
  thrown,        \* [Stages -> Errors]: what each thread caught last
  worker_error,  \* the exception kept for the caller
  result         \* what the caller has: nothing yet, the metrics or an exception

vars == <<experiment, pc, asleep, made, queue, closed, task, outcomes, thrown,
          worker_error, result>>

Stages == {"stage_a", "stage_b"}
Labels == {"start", "run", "hand_over", "destroy", "close", "failing",
           "close_failed", "done"}
NoError == "none"
ClosedError == "Push on closed queue."
Errors == {NoError, ClosedError} \cup Stages

-----------------------------------------------------------------------------
Plan == BuildBatchPlan(experiment)

Init ==
  /\ experiment \in Experiments
  /\ pc = [s \in Stages |-> "start"]
  /\ asleep = {}
  /\ made = 0
  /\ queue = <<>>
  /\ closed = FALSE
  /\ task = <<>>
  /\ outcomes = <<>>
  /\ thrown = [s \in Stages |-> NoError]
  /\ worker_error = NoError
  /\ result = "pending"

-----------------------------------------------------------------------------
(* What the two threads have in common. *)

Awake(s, label) == pc[s] = label /\ s \notin asleep
Goto(s, label) == pc' = [pc EXCEPT ![s] = label]

(* An exception leaves the try block. *)
Throw(s, error) ==
  /\ Goto(s, "failing")
  /\ thrown' = [thrown EXCEPT ![s] = error]

(* Any call of the CUDA runtime or of the library may throw. *)
CallFails(s) ==
  /\ \E label \in {"start", "run", "destroy"} : Awake(s, label)
  /\ Throw(s, s)
  /\ task' = IF s = "stage_b" THEN <<>> ELSE task
  /\ UNCHANGED <<experiment, asleep, made, queue, closed, outcomes,
                 worker_error, result>>

(* wait(lock, pred) with a false predicate. *)
Wait(s) ==
  /\ asleep' = asleep \cup {s}
  /\ UNCHANGED <<experiment, pc, made, queue, closed, task, outcomes, thrown,
                 worker_error, result>>

SpuriousWakeup(s) ==
  /\ s \in asleep
  /\ asleep' = asleep \ {s}
  /\ UNCHANGED <<experiment, pc, made, queue, closed, task, outcomes, thrown,
                 worker_error, result>>

(* Mutant: Close notifies the readers only. *)
CloseForReaders(s, label) ==
  /\ Awake(s, label)
  /\ closed' = TRUE
  /\ asleep' = asleep \ {"stage_b"}
  /\ Goto(s, "done")
  /\ UNCHANGED <<experiment, made, queue, task, outcomes, thrown, worker_error,
                 result>>

(* Close: both condition variables are notified. *)
CloseFrom(s, label) ==
  /\ Awake(s, label)
  /\ closed' = TRUE
  /\ asleep' = {}
  /\ Goto(s, "done")
  /\ UNCHANGED <<experiment, made, queue, task, outcomes, thrown, worker_error,
                 result>>

Close(s) == CloseFrom(s, "close") \/ CloseFrom(s, "close_failed")

(* Mutant: the last exception is kept. *)
SetLastError(s) ==
  /\ Awake(s, "failing")
  /\ worker_error' = thrown[s]
  /\ Goto(s, "close_failed")
  /\ UNCHANGED <<experiment, asleep, made, queue, closed, task, outcomes,
                 thrown, result>>

(* The first exception is the one the caller sees, and it is stored before
   the queue is closed. *)
SetWorkerError(s) ==
  /\ Awake(s, "failing")
  /\ worker_error' = IF worker_error = NoError THEN thrown[s] ELSE worker_error
  /\ Goto(s, "close_failed")
  /\ UNCHANGED <<experiment, asleep, made, queue, closed, task, outcomes,
                 thrown, result>>
-----------------------------------------------------------------------------
(* The thread of stage A. *)

(* Mutant: the loop over the plan ends one batch late. *)
NextBatchInclusive(n) == IF n <= Len(Plan) THEN "run" ELSE "destroy"

NextBatch(n) == IF n < Len(Plan) THEN "run" ELSE "destroy"

StartStageA ==
  /\ Awake("stage_a", "start")
  /\ Goto("stage_a", NextBatch(made))
  /\ UNCHANGED <<experiment, asleep, made, queue, closed, task, outcomes,
                 thrown, worker_error, result>>

RunStageA ==
  /\ Awake("stage_a", "run")
  /\ Goto("stage_a", "hand_over")
  /\ UNCHANGED <<experiment, asleep, made, queue, closed, task, outcomes,
                 thrown, worker_error, result>>

(* Mutant: the ring is full one place late. *)
HasRoomInclusive == Len(queue) <= experiment.ring_depth

HasRoom == Len(queue) < experiment.ring_depth

WaitForRoom ==
  /\ Awake("stage_a", "hand_over")
  /\ ~closed /\ ~HasRoom
  /\ Wait("stage_a")

Push ==
  /\ Awake("stage_a", "hand_over")
  /\ ~closed /\ HasRoom
  /\ queue' = Append(queue, Slice(experiment, made + 1))
  /\ made' = made + 1
  /\ asleep' = asleep \ {"stage_b"}
  /\ Goto("stage_a", NextBatch(made + 1))
  /\ UNCHANGED <<experiment, closed, task, outcomes, thrown, worker_error,
                 result>>

PushOnClosed ==
  /\ Awake("stage_a", "hand_over")
  /\ closed
  /\ Throw("stage_a", ClosedError)
  /\ UNCHANGED <<experiment, asleep, made, queue, closed, task, outcomes,
                 worker_error, result>>

DestroyStageA ==
  /\ Awake("stage_a", "destroy")
  /\ Goto("stage_a", "close")
  /\ UNCHANGED <<experiment, asleep, made, queue, closed, task, outcomes,
                 thrown, worker_error, result>>

StageA ==
  \/ StartStageA \/ RunStageA \/ DestroyStageA
  \/ WaitForRoom \/ Push \/ PushOnClosed
  \/ CallFails("stage_a") \/ SetWorkerError("stage_a") \/ Close("stage_a")

-----------------------------------------------------------------------------
(* The thread of stage B: it empties the queue even after it was closed. *)

StartStageB ==
  /\ Awake("stage_b", "start")
  /\ Goto("stage_b", "hand_over")
  /\ UNCHANGED <<experiment, asleep, made, queue, closed, task, outcomes,
                 thrown, worker_error, result>>

WaitForTask ==
  /\ Awake("stage_b", "hand_over")
  /\ ~closed /\ queue = <<>>
  /\ Wait("stage_b")

(* Mutant: the newest task first. *)
PopNewest ==
  /\ Awake("stage_b", "hand_over")
  /\ queue # <<>>
  /\ task' = <<queue[Len(queue)]>>
  /\ queue' = SubSeq(queue, 1, Len(queue) - 1)
  /\ asleep' = asleep \ {"stage_a"}
  /\ Goto("stage_b", "run")
  /\ UNCHANGED <<experiment, made, closed, outcomes, thrown, worker_error,
                 result>>

Pop ==
  /\ Awake("stage_b", "hand_over")
  /\ queue # <<>>
  /\ task' = <<Head(queue)>>
  /\ queue' = Tail(queue)
  /\ asleep' = asleep \ {"stage_a"}
  /\ Goto("stage_b", "run")
  /\ UNCHANGED <<experiment, made, closed, outcomes, thrown, worker_error,
                 result>>

PopNothing ==
  /\ Awake("stage_b", "hand_over")
  /\ closed /\ queue = <<>>
  /\ Goto("stage_b", "destroy")
  /\ UNCHANGED <<experiment, asleep, made, queue, closed, task, outcomes,
                 thrown, worker_error, result>>

RunStageB ==
  /\ Awake("stage_b", "run")
  /\ outcomes' = outcomes \o task
  /\ task' = <<>>
  /\ Goto("stage_b", "hand_over")
  /\ UNCHANGED <<experiment, asleep, made, queue, closed, thrown, worker_error,
                 result>>

DestroyStageB ==
  /\ Awake("stage_b", "destroy")
  /\ Goto("stage_b", "done")
  /\ UNCHANGED <<experiment, asleep, made, queue, closed, task, outcomes,
                 thrown, worker_error, result>>

StageB ==
  \/ StartStageB \/ RunStageB \/ DestroyStageB
  \/ WaitForTask \/ Pop \/ PopNothing
  \/ CallFails("stage_b") \/ SetWorkerError("stage_b") \/ Close("stage_b")

-----------------------------------------------------------------------------
(* The caller: join, rethrow, and FinalizeMetrics, which sorts the outcomes
   and calls the CUDA runtime itself. *)

(* What std::sort may leave in the vector: a permutation in order. *)
Rearrangements ==
  {p \in [DOMAIN outcomes -> DOMAIN outcomes] :
     \A i, j \in DOMAIN outcomes : p[i] = p[j] => i = j}

SortedByOffset ==
  {sorted \in {[i \in DOMAIN outcomes |-> outcomes[p[i]]] : p \in Rearrangements} :
     \A i, j \in DOMAIN sorted :
       i < j => sorted[i].query_offset <= sorted[j].query_offset}

JoinAndRethrow ==
  /\ result = "pending"
  /\ \A s \in Stages : pc[s] = "done"
  /\ worker_error # NoError
  /\ result' = worker_error
  /\ UNCHANGED <<experiment, pc, asleep, made, queue, closed, task, outcomes,
                 thrown, worker_error>>

FinalizeMetrics ==
  /\ result = "pending"
  /\ \A s \in Stages : pc[s] = "done"
  /\ worker_error = NoError
  /\ \/ result' = "metrics" /\ outcomes' \in SortedByOffset
     \/ result' = "finalize" /\ UNCHANGED outcomes
  /\ UNCHANGED <<experiment, pc, asleep, made, queue, closed, task, thrown,
                 worker_error>>

Caller == JoinAndRethrow \/ FinalizeMetrics

Next == StageA \/ StageB \/ Caller \/ \E s \in Stages : SpuriousWakeup(s)

(* The operating system runs every thread that can run; no call is known to
   fail, and no wake-up comes without a notification. *)
Spec == Init /\ [][Next]_vars /\ WF_vars(StageA) /\ WF_vars(StageB)
             /\ WF_vars(Caller)

-----------------------------------------------------------------------------
(* Properties. *)

Slices == {Plan[b] : b \in DOMAIN Plan}

(* No thread, buffer or result leaves its range; a thread sleeps only inside
   Push or Pop. *)
TypeOK ==
  /\ experiment \in Experiments
  /\ pc \in [Stages -> Labels]
  /\ asleep \subseteq {s \in Stages : pc[s] = "hand_over"}
  /\ made \in 0..Len(Plan)
  /\ queue \in Seq(Slices)
  /\ closed \in BOOLEAN
  /\ task \in {<<>>} \cup {<<x>> : x \in Slices}
  /\ outcomes \in Seq(Slices)
  /\ thrown \in [Stages -> Errors]
  /\ worker_error \in Errors
  /\ result \in {"pending", "metrics", "finalize"} \cup Errors

(* What stage A has made and stage B has not yet answered lives in device
   memory: never more than the ring depth, one batch in the hands of either
   thread included on top. *)
BuffersBounded ==
  Len(queue) + Len(task) + (IF pc["stage_a"] = "hand_over" THEN 1 ELSE 0)
    <= experiment.ring_depth + 2

(* A failure of stage B makes Push throw in the other thread, and that
   exception may be caught first; the caller still sees the cause. *)
CauseReported == result # ClosedError /\ worker_error # ClosedError

(* The two threads answer the batches in the order one thread would, and the
   caller gets what it would have got. *)
Serial == INSTANCE SerialExperiment
ImplementsSerial == Serial!Spec

(* Whatever fails and whoever sleeps, both threads end and the caller has a
   result, with at least one place in the ring. *)
Ends == (experiment.ring_depth > 0) ~> (result # "pending")
=============================================================================
