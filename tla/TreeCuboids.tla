---------------------------- MODULE TreeCuboids ----------------------------
(***************************************************************************)
(* TreeCuboidScheduler: the scheduler whose tree is built from a list of   *)
(* cuboids, added one at a time in descending order, each below the least  *)
(* cuboid of the tree that covers it; and the layers of the tree, which    *)
(* CuboidSchedulerBase computes once and keeps.                            *)
(***************************************************************************)
EXTENDS Cuboid, Sequences, FiniteSetsExt

CONSTANTS
    CuboidLists,    \* the lists init_cuboid_tree may be called with, as sets
    MaxInits        \* how often it is called

VARIABLES
    inits,          \* the calls of init_cuboid_tree so far
    phase,          \* "empty", "adding", "built" or "aborted" (a failed CHECK)
    all_cuboid_ids, \* the list of the last call
    todo,           \* those of it still to be added
    root,           \* root_
    nodes,          \* id -> parent and level; the root's parent is the root
    tree_levels,
    index,          \* the keys of index_
    layers          \* cuboids_by_layer_, each layer as a set

vars == <<inits, phase, all_cuboid_ids, todo, root, nodes, tree_levels, index, layers>>

LeastId(S) == CHOOSE c \in S : \A d \in S \ {c} : IdLess(c, d)
GreatestId(S) == CHOOSE c \in S : \A d \in S \ {c} : IdLess(d, c)

\* can_derive.
CanDerive(c, p) == c \subseteq p

\* get_spanning_cuboid, of a cuboid that is indexed.
Children(p) == {c \in DOMAIN nodes \ {root} : nodes[c].parent = p}

\* A mutant of FindBestParent: a node with children is no candidate.
FindBestParent_Leaf(c) ==
    LET best[p \in DOMAIN nodes] ==
            LET candidates == UNION {best[child] : child \in Children(p)}
            IN  IF ~CanDerive(c, p) THEN {}
                ELSE IF Children(p) = {} THEN {p}
                ELSE IF candidates = {} THEN {} ELSE {LeastId(candidates)}
    IN  best[root]

\* do_find_best_parent from the root, as a set: empty for the null pointer.
FindBestParent(c) ==
    LET best[p \in DOMAIN nodes] ==
            LET candidates == UNION {best[child] : child \in Children(p)}
            IN  IF ~CanDerive(c, p) THEN {}
                ELSE IF candidates = {} THEN {p} ELSE {LeastId(candidates)}
    IN  best[root]

-----------------------------------------------------------------------------
Init ==
    /\ inits = 0
    /\ phase = "empty"
    /\ all_cuboid_ids = {} /\ todo = {} /\ index = {}
    /\ root = {}
    /\ nodes = [c \in {} |-> [parent |-> {}, level |-> 0]]
    /\ tree_levels = 0
    /\ layers = <<>>

\* set_root.
SetRoot(basic_cuboid_id) ==
    /\ root' = basic_cuboid_id
    /\ nodes' = [c \in {basic_cuboid_id} |-> [parent |-> basic_cuboid_id, level |-> 0]]
    /\ tree_levels' = 0

\* create_from_cuboids: the largest id is the root.
InitCuboidTree(list) ==
    /\ phase \in {"empty", "built"}
    /\ inits < MaxInits
    /\ inits' = inits + 1
    /\ phase' = "adding"
    /\ all_cuboid_ids' = list
    /\ todo' = list
    /\ SetRoot(GreatestId(list))
    /\ index' = {}
    /\ UNCHANGED layers

\* A mutant of NextCuboid: the list is sorted in ascending order.
NextCuboid_Ascending == LeastId(todo)

\* The list is sorted in descending order.
NextCuboid == GreatestId(todo)

AddChild(p, c) ==
    LET level == nodes[p].level + 1
    IN  /\ nodes' = [d \in DOMAIN nodes \cup {c} |->
                        IF d = c THEN [parent |-> p, level |-> level] ELSE nodes[d]]
        /\ tree_levels' = IF level > tree_levels THEN level ELSE tree_levels

\* add_cuboid: one that nothing covers, or that is in the tree, is passed over.
AddCuboid ==
    LET c == NextCuboid
        best == FindBestParent(c)
    IN  /\ phase = "adding"
        /\ todo # {}
        /\ todo' = todo \ {c}
        /\ \/ best \in {{}, {c}} /\ UNCHANGED <<nodes, tree_levels>>
           \/ \E p \in best \ {c} : AddChild(p, c)
        /\ UNCHANGED <<inits, phase, all_cuboid_ids, root, index, layers>>

\* build_index: all nodes, breadth first.
BuildIndex ==
    /\ phase = "adding"
    /\ todo = {}
    /\ index' = DOMAIN nodes
    /\ phase' = "built"
    /\ UNCHANGED <<inits, all_cuboid_ids, todo, root, nodes, tree_levels, layers>>

\* get_all_cuboid_ids and is_valid.
AllCuboidIds == index
IsValid(c) == c \in index

\* The children of the layer before, from the base cuboid on.
Layer[i \in 0 .. Cardinality(index)] ==
    IF i = 0 THEN {base_cuboid_id} ELSE UNION {Children(p) : p \in Layer[i - 1]}

\* A mutant of LayersOfTree: the last layer is left out.
LayersOfTree_NotTheLast ==
    LET depth == Cardinality({i \in DOMAIN Layer : Layer[i] # {}})
    IN  [i \in 1 .. depth - 1 |-> Layer[i - 1]]

\* The layers up to the first empty one.
LayersOfTree ==
    LET depth == Cardinality({i \in DOMAIN Layer : Layer[i] # {}})
    IN  [i \in 1 .. depth |-> Layer[i - 1]]

\* get_cuboids_by_layer, when there are no layers yet.  A CHECK fails when the
\* base cuboid is not in the tree or the layers do not add up to it.
GetCuboidsByLayer ==
    LET total_num == MapThenSumSet(LAMBDA i : Cardinality(LayersOfTree[i]), DOMAIN LayersOfTree)
    IN  /\ phase \in {"empty", "built"}
        /\ layers = <<>>
        /\ IF base_cuboid_id \in index /\ total_num = Cardinality(AllCuboidIds)
           THEN layers' = LayersOfTree /\ UNCHANGED phase
           ELSE phase' = "aborted" /\ UNCHANGED layers
        /\ UNCHANGED <<inits, all_cuboid_ids, todo, root, nodes, tree_levels, index>>

Next ==
    \/ \E list \in CuboidLists : InitCuboidTree(list)
    \/ AddCuboid
    \/ BuildIndex
    \/ GetCuboidsByLayer

Spec == Init /\ [][Next]_vars

-----------------------------------------------------------------------------
\* get_cuboid_count: the nodes of a subtree.
CuboidCount(c) ==
    LET count[p \in DOMAIN nodes] == 1 + MapThenSumSet(LAMBDA child : count[child], Children(p))
    IN  count[c]

\* find_best_match_cuboid, as a set: empty where it dereferences null.
FindBestMatchCuboid(c) == IF IsValid(c) THEN {c} ELSE FindBestParent(c)

TypeOK ==
    /\ inits \in 0 .. MaxInits
    /\ phase \in {"empty", "adding", "built", "aborted"}
    /\ todo \subseteq all_cuboid_ids
    /\ all_cuboid_ids \subseteq CuboidId
    /\ index \subseteq DOMAIN nodes
    /\ DOMAIN nodes \subseteq all_cuboid_ids
    /\ \A c \in DOMAIN nodes :
         nodes[c].parent \in DOMAIN nodes /\ nodes[c].level \in 0 .. tree_levels
    /\ layers \in Seq(SUBSET CuboidId)

\* A cuboid is computed from the least cuboid of the list that has its columns
\* and more, one level up.
ParentsAreLeast ==
    \A c \in DOMAIN nodes \ {root} :
        LET covering == {d \in all_cuboid_ids : c \subseteq d /\ c # d}
            p == nodes[c].parent
        IN  p = LeastId(covering) /\ nodes[c].level = nodes[p].level + 1

\* Where the list has the base cuboid, a request is answered from the least cuboid
\* of the list that has its columns.
BestMatchIsLeast ==
    phase = "built" /\ base_cuboid_id \in all_cuboid_ids =>
        \A c \in CuboidId :
            LET covering == {d \in all_cuboid_ids : c \subseteq d}
            IN  FindBestMatchCuboid(c) = {LeastId(covering)}

\* get_cuboids_by_layer is "built from pre-expanding tree"
\* (cuboid_scheduler_base.hpp): the layers hold each cuboid of the tree once, in
\* the place of its level, and get_cuboid_count counts them all.
LayersOfTheTree ==
    phase = "built" /\ layers # <<>> =>
        /\ UNION {layers[i] : i \in DOMAIN layers} = AllCuboidIds
        /\ CuboidCount(base_cuboid_id) = Cardinality(AllCuboidIds)
        /\ \A i \in DOMAIN layers : \A c \in layers[i] : nodes[c].level = i - 1
=============================================================================
