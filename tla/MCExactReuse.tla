----------------------------- MODULE MCExactReuse -----------------------------
(* Small instances of ExactReuse.  Nodes 1, 2 and 5 start at one slot of a  *)
(* table of four.                                                           *)
EXTENDS ExactReuse

MCNodes      == 1 .. 5
MCHash       == <<3, 7, 0, 2, 3>>
MCWarps      == {"w1", "w2", "w3"}
MCCapacities == {0, 1, 2}
=============================================================================
