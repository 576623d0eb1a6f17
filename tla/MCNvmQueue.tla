------------------------------ MODULE MCNvmQueue ------------------------------
(* Small instances of NvmQueue.                                             *)
EXTENDS NvmQueue

CONSTANTS t1, t2, t3

(* While one read of t2 is with the device, four of t1 with their second    *)
(* reads go twice around a queue of four.                                   *)
MCPassing == [t \in Threads |-> IF t = t1 THEN 4 ELSE 1]
MCOnce    == [t \in Threads |-> 1]
MCLong    == [t \in Threads |-> 5]
=============================================================================
