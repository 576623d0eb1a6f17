---------------------------- MODULE ReadService ----------------------------
(***************************************************************************)
(* What the threads that share an NVMe queue pair are promised: a thread   *)
(* asks for a page, the device writes that page once, and only then does   *)
(* the call return.  Every call returns.                                   *)
(***************************************************************************)
EXTENDS Naturals

CONSTANTS Threads, Reads

VARIABLES
    state,  \* what a thread's read is waiting for
    left    \* the reads a thread has not yet made

vars == << state, left >>

Init ==
    /\ state = [t \in Threads |-> "idle"]
    /\ left = Reads

Move(t, from, to) == state[t] = from /\ state' = [state EXCEPT ![t] = to]

Ask(t) == left[t] > 0 /\ Move(t, "idle", "asked") /\ UNCHANGED left

Land(t) == Move(t, "asked", "landed") /\ UNCHANGED left

Return(t) ==
    /\ Move(t, "landed", "idle")
    /\ left' = [left EXCEPT ![t] = @ - 1]

Step(t) == Ask(t) \/ Land(t) \/ Return(t)

Next == \E t \in Threads : Step(t)

\* Every call has returned.
Done == \A t \in Threads : left[t] = 0

Spec == Init /\ [][Next]_vars /\ <>Done
=============================================================================
