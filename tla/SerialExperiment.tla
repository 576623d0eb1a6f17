-------------------------- MODULE SerialExperiment --------------------------
(***************************************************************************)
(* RunSerialExperiment: stage A and stage B of one batch after the other,  *)
(* on one thread.  The caller gets the metrics of all batches or the       *)
(* exception of the call that failed.  What the overlapped experiment is   *)
(* to implement.                                                           *)
(***************************************************************************)
EXTENDS BatchPlan

CONSTANT Experiments

VARIABLES experiment, outcomes, result

vars == <<experiment, outcomes, result>>

Plan == BuildBatchPlan(experiment)

Init ==
  /\ experiment \in Experiments
  /\ outcomes = <<>>
  /\ result = "pending"

AnswerBatch ==
  /\ result = "pending"
  /\ Len(outcomes) < Len(Plan)
  /\ outcomes' = Append(outcomes, Plan[Len(outcomes) + 1])
  /\ UNCHANGED <<experiment, result>>

(* The exception is that of a stage or of FinalizeMetrics. *)
Fail ==
  /\ result = "pending"
  /\ result' \in {"stage_a", "stage_b", "finalize"}
  /\ UNCHANGED <<experiment, outcomes>>

(* FinalizeMetrics: sorting the outcomes by their offset changes nothing. *)
Finish ==
  /\ result = "pending"
  /\ Len(outcomes) = Len(Plan)
  /\ result' = "metrics"
  /\ UNCHANGED <<experiment, outcomes>>

Next == AnswerBatch \/ Fail \/ Finish

Spec == Init /\ [][Next]_vars
=============================================================================
