----------------------------- MODULE TopologyFile ----------------------------
(***************************************************************************)
(* The topology on its way from the DiskANN index to the GPU: the file     *)
(* that ExtractTopology (tools/topoanns_build_sift_subset.cpp) writes node *)
(* by node and TopologyLayout (src/io/topology_layout.cpp) checks, and the *)
(* copy in pinned memory that PinnedTopology (src/providers) makes of it.  *)
(* Nothing locks the file: a build may stop early, and one may start again *)
(* while a tool loads what the last one wrote.                             *)
(*                                                                         *)
(* The file is known by its length, in rows, with the header as the first; *)
(* what is in a row follows from its place.                                *)
(***************************************************************************)
EXTENDS Integers, Sequences

CONSTANTS
  NodeCount,   \* num_nodes
  Degree,      \* kFixedTopologyDegree
  Adjacency,   \* the neighbors of a node in the DiskANN index
  Invalid,     \* kInvalidNodeId
  Garbage,     \* what new memory holds
  Rebuilds     \* bound: builds that start while a tool loads

Nodes == 0 .. NodeCount - 1

(* The build refuses to make a subset without nodes.                       *)
ASSUME TopologyAssumption ==
  /\ NodeCount \in Nat \ {0} /\ Degree \in Nat \ {0} /\ Rebuilds \in Nat
  /\ Adjacency \in [Nodes -> Seq(Nat)]
  /\ Invalid \notin Nat

VARIABLES
  topology_file, \* rows of the file, the header counting as one
  rebuilds,      \* builds that have started since
  pinned,        \* host_data_: its elements, or none
  position       \* elements FromFile has read

topologyvars == <<topology_file, rebuilds, pinned, position>>

Elements == 0 .. NodeCount * Degree - 1
NoMemory == <<>>

InitTopology ==
  /\ topology_file \in 0 .. NodeCount + 1 /\ rebuilds = 0
  /\ pinned = NoMemory /\ position = 0
-----------------------------------------------------------------------------
(* ExtractTopology.  A row has the first neighbors of a node; in place of  *)
(* one that the subset does not have there is a hole.                      *)
Row(n) ==
  [i \in 1 .. Degree |->
     IF i <= Len(Adjacency[n]) /\ Adjacency[n][i] \in Nodes THEN Adjacency[n][i] ELSE Invalid]

Element(e) == Row(e \div Degree)[(e % Degree) + 1]

StartBuild ==
  /\ rebuilds < Rebuilds
  /\ topology_file' = 0 /\ rebuilds' = rebuilds + 1
  /\ UNCHANGED <<pinned, position>>

WriteRow ==
  /\ topology_file <= NodeCount
  /\ topology_file' = topology_file + 1
  /\ UNCHANGED <<rebuilds, pinned, position>>
-----------------------------------------------------------------------------
(* PinnedTopology::FromFile.  ReadHeader takes a file only if it is as     *)
(* long as its header says; the payload is read after that, in pieces as   *)
(* pread returns them.                                                     *)
HeaderAccepted == topology_file = NodeCount + 1

Allocate ==
  /\ HeaderAccepted
  /\ pinned' = [e \in Elements |-> Garbage] /\ position' = 0
  /\ UNCHANGED <<topology_file, rebuilds>>

InFile == {e \in Elements : e < (topology_file - 1) * Degree}

(* Mutant: each piece is read from the beginning of the payload.           *)
ReadFromStart ==
  \E n \in {e + 1 - position : e \in {i \in InFile : i >= position}} :
    /\ pinned' = [e \in Elements |->
                    IF e \in position .. position + n - 1 THEN Element(e - position)
                                                          ELSE pinned[e]]
    /\ position' = position + n
    /\ UNCHANGED <<topology_file, rebuilds>>

ReadPiece ==
  \E n \in {e + 1 - position : e \in {i \in InFile : i >= position}} :
    /\ pinned' = [e \in Elements |->
                    IF e \in position .. position + n - 1 THEN Element(e) ELSE pinned[e]]
    /\ position' = position + n
    /\ UNCHANGED <<topology_file, rebuilds>>

ReadAll == position = NodeCount * Degree

(* Also what an exception does, as it unwinds FromFile.                    *)
Release ==
  /\ pinned' = NoMemory /\ position' = 0
  /\ UNCHANGED <<topology_file, rebuilds>>

(* MakePadded and FromRaw: a dataset in memory instead of a file.          *)
FromDataset(lists) ==
  /\ \A n \in Nodes : Len(lists[n]) <= Degree
  /\ pinned' = [e \in Elements |->
                  LET list == lists[e \div Degree]
                  IN  IF e % Degree < Len(list) THEN list[(e % Degree) + 1] ELSE Invalid]
  /\ UNCHANGED <<topology_file, rebuilds, position>>
-----------------------------------------------------------------------------
(* ReadHostNode, CopyNodeFromDevice and the traversal, which passes over   *)
(* what is not a node.                                                     *)
NeighborsRead(n) == {pinned[n * Degree + i] : i \in 0 .. Degree - 1} \cap Nodes

(* The neighbors of a node that a search should see.                       *)
NeighborsBuilt(n) ==
  {Adjacency[n][i] : i \in {j \in DOMAIN Adjacency[n] : j <= Degree}} \cap Nodes

HoldsGraph == \A n \in Nodes : NeighborsRead(n) = NeighborsBuilt(n)
=============================================================================
