------------------------------ MODULE QueryRounds ------------------------------
(***************************************************************************)
(* What the microbatched execution promises of each query of a batch:      *)
(* rounds that select some nodes and then merge the rows of exactly these  *)
(* nodes, as if the query had the device for itself.  Expansion e of a     *)
(* query stands for the node it expands e-th and for the row of that node. *)
(***************************************************************************)
EXTENDS Naturals

CONSTANTS Queries, Width, MaxExpansions

VARIABLE query

State == [phase : {"waiting", "selecting", "merging", "ended"},
          expanded : Nat, merged : SUBSET Nat]

Successors(state) ==
  CASE state.phase = "waiting" ->
         {[state EXCEPT !.phase = p] : p \in {"selecting", "ended"}}
    [] state.phase = "selecting" ->
         {[state EXCEPT !.phase = "ended"]} \cup
         {[state EXCEPT !.phase = "merging", !.expanded = @ + n] :
            n \in IF state.expanded < MaxExpansions THEN 1 .. Width ELSE {}}
    [] state.phase = "merging" ->
         {[state EXCEPT !.phase = "selecting", !.merged = 1 .. state.expanded]}
    [] OTHER -> {}

Init == query = [q \in Queries |-> [phase |-> "waiting", expanded |-> 0, merged |-> {}]]

(* The queries of one kernel launch move together.                         *)
Next ==
  /\ query' = [q \in Queries |-> query'[q]]
  /\ \A q \in Queries :
       query'[q] = query[q] \/ query'[q] \in Successors(query[q])

Finished == \A q \in Queries : query[q].phase = "ended"

Spec == Init /\ [][Next]_query /\ <>Finished
=============================================================================
