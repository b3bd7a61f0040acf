-------------------------- MODULE MC_MeshPartition --------------------------
(***************************************************************************)
(* A small mesh for MeshPartition: a quadrilateral of the nodes 0 to 3,    *)
(* with two quadratic lines along it, whose middle nodes are 4 and 5.  Its *)
(* boundary mesh has the first of these lines and one more edge.           *)
(***************************************************************************)
EXTENDS MeshPartition

QuadWithLines ==
  [numNodes |-> 6, numBaseNodes |-> 4,
   elements |-> << <<0, 1, 4>>, <<2, 3, 5>>, <<0, 1, 3, 2>> >>,
   bulkNode |-> [n \in 0 .. 5 |-> n], bulkElement |-> [e \in 1 .. 3 |-> e]]

TwoEdges ==
  [numNodes |-> 4, numBaseNodes |-> 3, elements |-> << <<0, 1>>, <<1, 2, 3>> >>,
   bulkNode |-> (0 :> 3 @@ 1 :> 1 @@ 2 :> 0 @@ 3 :> 4), bulkElement |-> <<3, 1>>]
=============================================================================
