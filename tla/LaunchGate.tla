----------------------------- MODULE LaunchGate ------------------------------
(***************************************************************************)
(* RunConcurrentMeasurement (tools/topoanns_overlap_pipeline_eval.cpp):    *)
(* the caller is to launch the traversal while an I/O benchmark, submitted *)
(* by a second thread, is running.  The traversal calls back just before   *)
(* its launch: it announces itself, wakes the I/O thread and waits until   *)
(* that has submitted its kernel or failed.  A caller that fails before    *)
(* the callback cancels the I/O thread; either is joined in the end.       *)
(*                                                                         *)
(* A body under the gate's mutex is one step; a notification that comes    *)
(* after the mutex is released is a step of its own.  A thread in asleep   *)
(* waits for a notification, or for a spurious wake-up.                    *)
(***************************************************************************)
EXTENDS Naturals, Sequences

VARIABLES
  gate,     \* TopologyLaunchGate: the flags that are set
  caller,   \* where the calling thread is
  worker,   \* where the I/O thread is
  asleep,   \* the threads blocked in condition.wait
  history,  \* what was announced, submitted and launched, in order
  errors    \* which of the two threw

measurement == <<gate, caller, worker, asleep, history, errors>>

NoMeasurement ==
  /\ gate = {} /\ caller = "idle" /\ worker = "done" /\ asleep = {}
  /\ history = <<>> /\ errors = {}

StartMeasurement ==
  /\ gate' = {} /\ caller' = "prepare" /\ worker' = "start" /\ asleep' = {}
  /\ history' = <<>> /\ errors' = {}

EndMeasurement ==
  /\ gate' = {} /\ caller' = "idle" /\ worker' = "done" /\ asleep' = {}
  /\ history' = <<>> /\ errors' = {}

(* A call between two points of the caller or of the worker that may throw. *)
CallerMayThrow(from, to) ==
  /\ caller = from /\ from \notin {"idle"}
  /\ \/ caller' = to /\ UNCHANGED errors
     \/ caller' = "cancel" /\ errors' = errors \cup {"topology"}

WorkerMayThrow(from, to) ==
  /\ worker = from
  /\ \/ worker' = to /\ UNCHANGED errors
     \/ worker' = "fail" /\ errors' = errors \cup {"io"}
-----------------------------------------------------------------------------
(* RunTopologySearchKernelBatchDevice up to the callback may refuse its    *)
(* arguments or run out of memory.                                         *)
Prepare == CallerMayThrow("prepare", "announce") /\ UNCHANGED <<gate, worker, asleep, history>>

IoDecided == gate \cap {"io_submitted", "io_failed"} # {}

(* NotifyTopologyLaunch holds the mutex from the announcement to its wait. *)
Announce ==
  /\ caller = "announce"
  /\ gate' = gate \cup {"launched"}
  /\ history' = Append(history, "announced")
  /\ asleep' = IF IoDecided THEN {} ELSE {"caller"}
  /\ caller' = IF IoDecided THEN "launch" ELSE "wait"
  /\ UNCHANGED <<worker, errors>>

CallerWakes ==
  /\ caller = "wait" /\ "caller" \notin asleep
  /\ IF IoDecided THEN caller' = "launch" /\ UNCHANGED asleep
     ELSE asleep' = asleep \cup {"caller"} /\ UNCHANGED caller
  /\ UNCHANGED <<gate, worker, history, errors>>

Launch ==
  /\ CallerMayThrow("launch", "join")
  /\ history' = IF caller' = "join" THEN Append(history, "topology") ELSE history
  /\ UNCHANGED <<gate, worker, asleep>>

Cancel ==
  /\ caller = "cancel"
  /\ gate' = gate \cup {"cancelled"}
  /\ caller' = "notify_cancel"
  /\ UNCHANGED <<worker, asleep, history, errors>>

NotifyCancel ==
  /\ caller = "notify_cancel"
  /\ IF asleep = {} THEN UNCHANGED asleep ELSE \E t \in asleep : asleep' = asleep \ {t}
  /\ caller' = "join"
  /\ UNCHANGED <<gate, worker, history, errors>>

(* The traversal's exception is rethrown after the join, else the I/O's.   *)
SwallowingIoError == IF "topology" \in errors THEN "topology" ELSE "measured"

Outcome ==
  IF "topology" \in errors THEN "topology"
  ELSE IF "io" \in errors THEN "io" ELSE "measured"

Join ==
  /\ caller = "join" /\ worker = "done"
  /\ caller' = Outcome
  /\ UNCHANGED <<gate, worker, asleep, history, errors>>
-----------------------------------------------------------------------------
SetDevice == WorkerMayThrow("start", "wait") /\ UNCHANGED <<gate, caller, asleep, history>>

AwaitLaunch ==
  /\ worker = "wait" /\ "worker" \notin asleep
  /\ IF gate \cap {"launched", "cancelled"} = {}
     THEN asleep' = asleep \cup {"worker"} /\ UNCHANGED worker
     ELSE /\ worker' = IF "cancelled" \in gate THEN "done" ELSE "submit"
          /\ UNCHANGED asleep
  /\ UNCHANGED <<gate, caller, history, errors>>

(* RunPreparedBam4kTraceBenchmark: the I/O kernel is launched, then the    *)
(* callback NotifyIoSubmitted, then the wait for the kernel.               *)
Submit ==
  /\ WorkerMayThrow("submit", "tell")
  /\ history' = IF worker' = "tell" THEN Append(history, "io") ELSE history
  /\ UNCHANGED <<gate, caller, asleep>>

Tell ==
  /\ worker = "tell"
  /\ gate' = gate \cup {"io_submitted"}
  /\ worker' = "notify"
  /\ UNCHANGED <<caller, asleep, history, errors>>

FailQuietly ==
  /\ worker = "fail"
  /\ worker' = "notify_failed"
  /\ UNCHANGED <<gate, caller, asleep, history, errors>>

Fail ==
  /\ worker = "fail"
  /\ gate' = gate \cup {"io_failed"}
  /\ worker' = "notify_failed"
  /\ UNCHANGED <<caller, asleep, history, errors>>

Notify ==
  /\ worker \in {"notify", "notify_failed"}
  /\ asleep' = {}
  /\ worker' = IF worker = "notify" THEN "finish" ELSE "done"
  /\ UNCHANGED <<gate, caller, history, errors>>

Finish == WorkerMayThrow("finish", "done") /\ UNCHANGED <<gate, caller, asleep, history>>

SpuriousWakeUp ==
  /\ \E t \in asleep : asleep' = asleep \ {t}
  /\ UNCHANGED <<gate, caller, worker, history, errors>>
-----------------------------------------------------------------------------
CallerStep ==
  Prepare \/ Announce \/ CallerWakes \/ Launch \/ Cancel \/ NotifyCancel \/ Join

WorkerStep == SetDevice \/ AwaitLaunch \/ Submit \/ Tell \/ Fail \/ Notify \/ Finish

(* A measurement is reported only if both kernels ran, the I/O was         *)
(* submitted after the announcement and the traversal launched after that; *)
(* a failure of either is what the caller gets, the traversal's first.  I/O *)
(* never starts for a traversal that did not get to its launch.            *)
MeasuredTogether ==
  /\ caller = "measured" => errors = {} /\ history = <<"announced", "io", "topology">>
  /\ caller \in {"io", "topology"} => caller \in errors
  /\ caller = "io" => "topology" \notin errors
  /\ \A i \in DOMAIN history : history[i] = "io" => i > 1 /\ history[1] = "announced"
=============================================================================
