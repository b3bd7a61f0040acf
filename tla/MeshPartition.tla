---------------------------- MODULE MeshPartition ----------------------------
(***************************************************************************)
(* The way of a mesh into a parallel simulation: the tool partmesh divides *)
(* it, and the boundary meshes with it, by a partition of the nodes that   *)
(* METIS has computed; then each rank reads its part and numbers the       *)
(* degrees of freedom for PETSc.                                           *)
(*                                                                         *)
(* Nodes and positions in vectors count from 0 as in the code, elements    *)
(* and the places of TLA+ sequences from 1.                                *)
(***************************************************************************)
EXTENDS Integers, FiniteSets, SequencesExt

CONSTANTS
  NumParts,      \* the number of partitions and of ranks
  Bulk,          \* the mesh that is partitioned
  Boundary,      \* another mesh, which refers to its nodes and elements
  NumComponents  \* the number of components of the process variables

Ids(n) == 0 .. n - 1
Ranks == 1 .. NumParts
Components == Ids(NumComponents)

(* The nodes of each element, how many nodes are base nodes, which are the *)
(* first, and bulk_node_ids and bulk_element_ids; a mesh that is the bulk  *)
(* mesh itself refers to itself.                                           *)
IsMesh(m) ==
  /\ m.numNodes \in Nat \ {0} /\ m.numBaseNodes \in 1 .. m.numNodes
  /\ m.elements \in Seq(Seq(Ids(m.numNodes)))
  /\ \A e \in DOMAIN m.elements : IsInjective(m.elements[e])
  /\ m.bulkNode \in [Ids(m.numNodes) -> Ids(Bulk.numNodes)]
  /\ m.bulkElement \in [DOMAIN m.elements -> DOMAIN Bulk.elements]

ASSUME SizesAssumption == NumParts \in Nat \ {0} /\ NumComponents \in Nat \ {0}
ASSUME BulkAssumption ==
  /\ IsMesh(Bulk)
  /\ \A n \in Ids(Bulk.numNodes) : Bulk.bulkNode[n] = n
  /\ \A e \in DOMAIN Bulk.elements : Bulk.bulkElement[e] = e
(* A boundary mesh consists of faces of bulk elements.                     *)
ASSUME BoundaryAssumption ==
  /\ IsMesh(Boundary) /\ IsInjective(Boundary.bulkNode)
  /\ \A e \in DOMAIN Boundary.elements :
       {Boundary.bulkNode[n] : n \in ToSet(Boundary.elements[e])}
         \subseteq ToSet(Bulk.elements[Boundary.bulkElement[e]])

VARIABLES
  phase,         \* what has been done
  mixed,         \* is_mixed_high_order_linear_elems, a flag of the command line
  partitionIds,  \* _nodes_partition_ids, read from METIS's output
  partitions,    \* _partitions, those that are processed
  globalIds,     \* _nodes_global_ids
  others,        \* the partitions of the boundary mesh
  bulkNodeIds,   \* the partitioned property of the boundary mesh, by partition
  bulkElementIds,
  dofs,          \* of each rank that has it, _dict and _ghosts_indices of the bulk mesh
  subset         \* of each rank that has it, _dict of the boundary mesh

tool == <<mixed, partitionIds, partitions, globalIds, others, bulkNodeIds, bulkElementIds>>
vars == <<phase, tool, dofs, subset>>

-----------------------------------------------------------------------------
(* One partition *)

(* The elements of a sequence that a set has, in their order: copy_if.     *)
Those(s, S) ==
  LET those[i \in 0 .. Len(s)] ==
        IF i = 0 THEN << >>
        ELSE IF s[i] \in S THEN Append(those[i - 1], s[i]) ELSE those[i - 1]
  IN  those[Len(s)]

(* The places of a sequence where an element occurs for the first time.    *)
Firsts(s) == {i \in DOMAIN s : \A j \in 1 .. i - 1 : s[j] # s[i]}

(* Each element once, where it occurs first.                               *)
EachOnce(s) ==
  LET at == Those([i \in DOMAIN s |-> i], Firsts(s)) IN [k \in DOMAIN at |-> s[at[k]]]

OwnerOf(m, n) == partitionIds[m.bulkNode[n]]   \* partitionLookup

OwnNodes(m, part) == {n \in Ids(m.numNodes) : OwnerOf(m, n) = part}
BaseNodes(m) == {n \in Ids(m.numNodes) : ~mixed \/ m.bulkNode[n] > m.numBaseNodes}

BasesOf(m, nodes) == Those(nodes, BaseNodes(m))
ExtrasOf(m, nodes) == Those(nodes, Ids(m.numNodes) \ BaseNodes(m))

Ascending(n) == [i \in 1 .. n |-> i - 1]

FindNonGhostNodes(m, part) == Those(Ascending(m.numNodes), OwnNodes(m, part))

RegularNodes(m, e, part) == ToSet(m.elements[e]) \cap OwnNodes(m, part)

(* findElementsInPartition: the elements all of whose nodes the partition  *)
(* has, and those of whose nodes it has some.                              *)
RegularElements(m, part) ==
  Those([e \in DOMAIN m.elements |-> e],
        {e \in DOMAIN m.elements : /\ RegularNodes(m, e, part) # {}
                                   /\ RegularNodes(m, e, part) = ToSet(m.elements[e])})

ElementsOfFirstNode(m, part) ==   \* a mutant of GhostElements
  Those([e \in DOMAIN m.elements |-> e],
        {e \in DOMAIN m.elements : /\ OwnerOf(m, m.elements[e][1]) = part
                                   /\ RegularNodes(m, e, part) # ToSet(m.elements[e])})

GhostElements(m, part) ==
  Those([e \in DOMAIN m.elements |-> e],
        {e \in DOMAIN m.elements :
           RegularNodes(m, e, part) \notin {{}, ToSet(m.elements[e])}})

(* The nodes of the ghost elements that other partitions have, each once.  *)
FindGhostNodes(m, part) ==
  LET ghosts == GhostElements(m, part)
      walked == FlattenSeq([i \in DOMAIN ghosts |-> m.elements[ghosts[i]]])
  IN  EachOnce(Those(walked, Ids(m.numNodes) \ OwnNodes(m, part)))

(* The loop body of processPartition and of partitionOtherMesh.            *)
Partition(m, part) ==
  LET own == FindNonGhostNodes(m, part)
      ghosts == FindGhostNodes(m, part)
  IN [nodes |-> BasesOf(m, own) \o BasesOf(m, ghosts)
                  \o ExtrasOf(m, own) \o ExtrasOf(m, ghosts),
      numBase |-> Len(BasesOf(m, own)) + Len(BasesOf(m, ghosts)),
      numActiveBase |-> Len(BasesOf(m, own)),
      numActive |-> Len(own),
      regular |-> RegularElements(m, part),
      ghost |-> GhostElements(m, part)]

NodeAt(p, j) == p.nodes[j + 1]
ElementsOf(p) == p.regular \o p.ghost

(* Where the map from ids to positions has no entry, it makes one of 0.    *)
PositionOf(id, seq) ==
  IF id \in ToSet(seq) THEN (CHOOSE i \in DOMAIN seq : seq[i] = id) - 1 ELSE 0

-----------------------------------------------------------------------------
(* The tool *)

(* partitionByMETIS *)
ProcessPartition ==
  /\ phase = "partitioning" /\ Len(partitions) < NumParts
  /\ partitions' = Append(partitions, Partition(Bulk, Len(partitions) + 1))
  /\ UNCHANGED <<phase, mixed, partitionIds, globalIds, others, bulkNodeIds, bulkElementIds,
                 dofs, subset>>

LastExtraOfAll(p) == Len(p.nodes)   \* a mutant of EndOfActiveExtras

EndOfActiveExtras(p) == p.numBase + p.numActive - p.numActiveBase

(* The order in which renumberNodeIndices counts the nodes.                *)
NumberingOrder ==
  LET bases(p) == SubSeq(p.nodes, 1, p.numActiveBase)
      extras(p) == SubSeq(p.nodes, p.numBase + 1, EndOfActiveExtras(p))
  IN FlattenSeq([r \in Ranks |-> bases(partitions[r])])
       \o (IF mixed THEN FlattenSeq([r \in Ranks |-> extras(partitions[r])]) ELSE << >>)

(* A node that is counted twice keeps the last number, and one that is not *)
(* counted the initial 0.                                                  *)
RenumberNodeIndices ==
  /\ phase = "partitioning" /\ Len(partitions) = NumParts
  /\ globalIds' =
       [n \in Ids(Bulk.numNodes) |->
          Max({0} \cup {i - 1 : i \in {j \in DOMAIN NumberingOrder : NumberingOrder[j] = n}})]
  /\ phase' = "renumbered"
  /\ UNCHANGED <<mixed, partitionIds, partitions, others, bulkNodeIds, bulkElementIds, dofs, subset>>

(* partitionOtherMesh, and partitionProperties for the two properties that *)
(* refer to the bulk mesh.                                                 *)
PartitionOtherMesh ==
  /\ phase = "renumbered"
  /\ others' = [r \in Ranks |-> Partition(Boundary, r)]
  /\ bulkNodeIds' = [r \in Ranks |->
       [j \in Ids(Len(others'[r].nodes)) |-> Boundary.bulkNode[NodeAt(others'[r], j)]]]
  /\ bulkElementIds' = [r \in Ranks |->
       [i \in DOMAIN ElementsOf(others'[r]) |-> Boundary.bulkElement[ElementsOf(others'[r])[i]]]]
  /\ phase' = "partitioned"
  /\ UNCHANGED <<mixed, partitionIds, partitions, globalIds, dofs, subset>>

ActiveOnly(r, id) ==   \* a mutant of LocalNode
  PositionOf(id, SubSeq(partitions[r].nodes, 1, partitions[r].numActive))

LocalNode(r, id) == PositionOf(id, partitions[r].nodes)

(* renumberBulkNodeIdsProperty and renumberBulkElementIdsProperty: the ids *)
(* become positions in the same partition of the bulk mesh.                *)
RenumberBulkIds ==
  /\ phase = "partitioned"
  /\ bulkNodeIds' = [r \in Ranks |->
       [j \in DOMAIN bulkNodeIds[r] |-> LocalNode(r, bulkNodeIds[r][j])]]
  /\ bulkElementIds' = [r \in Ranks |->
       [i \in DOMAIN bulkElementIds[r] |->
          PositionOf(bulkElementIds[r][i], ElementsOf(partitions[r]))]]
  /\ phase' = "written"
  /\ UNCHANGED <<mixed, partitionIds, partitions, globalIds, others, dofs, subset>>

-----------------------------------------------------------------------------
(* The ranks.  Rank r has read the partition r.                            *)

NumberOfNodes(r) == Len(partitions[r].nodes)
GlobalNodeID(r, j) == globalIds[NodeAt(partitions[r], j)]

GhostUnlessBase(r, j) ==   \* a mutant of IsGhostNode
  j >= partitions[r].numActiveBase

IsGhostNode(r, j) ==
  LET p == partitions[r] IN
  /\ j >= p.numActiveBase
  /\ ~(p.numBase <= j /\ j < EndOfActiveExtras(p))

NumUnknowns == NumComponents * Bulk.numNodes

MinusIndex(g) == -g   \* a mutant of GhostIndex

(* A ghost is marked by a negative index, also that of index 0.            *)
GhostIndex(g) == IF g = 0 THEN -NumUnknowns ELSE -g

GlobalIndex(r, j, c) == NumComponents * GlobalNodeID(r, j) + c

Locals(r) == Ids(NumberOfNodes(r))
Ghosts(r) == Those(Ascending(NumberOfNodes(r)), {j \in Locals(r) : IsGhostNode(r, j)})

(* The constructor of MeshComponentMap with PETSc and several ranks.       *)
MapOf(r) ==
  [index |-> [j \in Locals(r) |-> [c \in Components |->
     IF IsGhostNode(r, j) THEN GhostIndex(GlobalIndex(r, j, c)) ELSE GlobalIndex(r, j, c)]],
   ghosts |-> FlattenSeq([c \in 1 .. NumComponents |->
     [i \in DOMAIN Ghosts(r) |-> GlobalIndex(r, Ghosts(r)[i], c - 1)]])]

CreateMap(r) ==
  /\ phase = "written" /\ r \notin DOMAIN dofs
  /\ dofs' = [q \in DOMAIN dofs \cup {r} |-> IF q = r THEN MapOf(r) ELSE dofs[q]]
  /\ UNCHANGED <<phase, tool, subset>>

(* getSubset, which takes the indices of the bulk mesh over.               *)
SubsetOf(r) ==
  [k \in Ids(Len(others[r].nodes)) |-> [c \in Components |->
     dofs[r].index[bulkNodeIds[r][k]][c]]]

GetSubset(r) ==
  /\ r \in DOMAIN dofs /\ r \notin DOMAIN subset
  /\ subset' = [q \in DOMAIN subset \cup {r} |-> IF q = r THEN SubsetOf(r) ELSE subset[q]]
  /\ UNCHANGED <<phase, tool, dofs>>

LocalSize(r) ==
  NumComponents * Cardinality({j \in Locals(r) : ~IsGhostNode(r, j)})

(* PETSc gives each rank the rows after those of the ranks before it.      *)
RangeBegin(r) ==
  LET end[q \in 0 .. NumParts] == IF q = 0 THEN 0 ELSE end[q - 1] + LocalSize(q)
  IN  end[r - 1]

GetLocalIndex(r, j, c) ==
  LET index == dofs[r].index[j][c]
      real == IF -index = NumUnknowns THEN 0 ELSE -index
  IN IF index >= 0 THEN index - RangeBegin(r)
     ELSE LocalSize(r) + PositionOf(real, dofs[r].ghosts)

Init ==
  /\ phase = "partitioning"
  /\ mixed \in BOOLEAN
  /\ partitionIds \in [Ids(Bulk.numNodes) -> Ranks]
  /\ partitions = << >>
  /\ globalIds = [n \in Ids(Bulk.numNodes) |-> 0]
  /\ others = << >> /\ bulkNodeIds = << >> /\ bulkElementIds = << >>
  /\ dofs = << >> /\ subset = << >>

Next ==
  \/ ProcessPartition \/ RenumberNodeIndices
  \/ PartitionOtherMesh \/ RenumberBulkIds
  \/ \E r \in Ranks : CreateMap(r) \/ GetSubset(r)

Spec == Init /\ [][Next]_vars

-----------------------------------------------------------------------------
Written == phase = "written"
Owns(r, j) == ~IsGhostNode(r, j)

(* The nodes METIS gave to a partition are those that are no ghosts on its *)
(* rank, although the rank only knows three numbers of them: every node of *)
(* the mesh is owned by one rank, and no other.                            *)
EveryNodeHasOneOwner ==
  Written => \A n \in Ids(Bulk.numNodes), r \in Ranks :
    Cardinality({j \in Locals(r) : NodeAt(partitions[r], j) = n /\ Owns(r, j)})
      = IF partitionIds[n] = r THEN 1 ELSE 0

(* A rank has all that it assembles into its rows: every element at a node *)
(* it owns, once, and all their nodes, each once.  An element that is      *)
(* regular on one rank is not on any other.                                *)
AssemblyIsComplete ==
  Written =>
    /\ \A r \in Ranks : LET p == partitions[r] IN
         /\ IsInjective(p.nodes) /\ IsInjective(ElementsOf(p))
         /\ \A e \in DOMAIN Bulk.elements :
              (\E n \in ToSet(Bulk.elements[e]) : partitionIds[n] = r) =>
                /\ e \in ToSet(ElementsOf(p))
                /\ ToSet(Bulk.elements[e]) \subseteq ToSet(p.nodes)
    /\ \A r, q \in Ranks : r # q =>
         ToSet(partitions[r].regular) \cap ToSet(partitions[q].regular) = {}

(* On a mesh without extra nodes, getLocalIndex takes what a rank owns to  *)
(* its rows and the ghosts behind them, no two to the same place, and the  *)
(* index it knows of a ghost is the one that the ghost's owner uses.       *)
LocalIndicesAreConsistent ==
  ~mixed /\ DOMAIN dofs = Ranks =>
    /\ \A r \in Ranks : \A j \in Locals(r), c \in Components :
         LET local == GetLocalIndex(r, j, c) IN
         /\ IF Owns(r, j) THEN local \in Ids(LocalSize(r))
                           ELSE local - LocalSize(r) \in Ids(Len(dofs[r].ghosts))
         /\ \A i \in Locals(r), d \in Components :
              GetLocalIndex(r, i, d) = local => <<i, d>> = <<j, c>>
    /\ \A r, q \in Ranks : \A j \in Locals(r), i \in Locals(q), c \in Components :
         ~Owns(r, j) /\ Owns(q, i) /\ NodeAt(partitions[r], j) = NodeAt(partitions[q], i) =>
           dofs[r].ghosts[GetLocalIndex(r, j, c) - LocalSize(r) + 1] = dofs[q].index[i][c]

(* A boundary condition acts on the degrees of freedom of the bulk mesh's  *)
(* nodes that its own nodes are, and knows the bulk elements behind its    *)
(* elements.                                                               *)
BoundaryRefersToBulk ==
  \A r \in DOMAIN subset :
    /\ \A k \in Ids(Len(others[r].nodes)) : \E j \in Locals(r) :
         /\ NodeAt(partitions[r], j) = Boundary.bulkNode[NodeAt(others[r], k)]
         /\ subset[r][k] = dofs[r].index[j]
    /\ \A i \in DOMAIN bulkElementIds[r] :
         ElementsOf(partitions[r])[bulkElementIds[r][i] + 1]
           = Boundary.bulkElement[ElementsOf(others[r])[i]]

(* The nodes are stored as active and ghost base nodes, then active and    *)
(* ghost extra nodes: the first number_of_base_nodes are base nodes.       *)
BaseNodesComeFirst ==
  Written /\ mixed => \A r \in Ranks : \A j \in Ids(partitions[r].numBase) :
    NodeAt(partitions[r], j) < Bulk.numBaseNodes
=============================================================================
