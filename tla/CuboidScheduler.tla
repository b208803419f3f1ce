--------------------------- MODULE CuboidScheduler ---------------------------
(***************************************************************************)
(* CuboidScheduler::build_tree_bottom_up: which cuboids a cube has, and    *)
(* from which parent each is computed.  First the cuboids are collected    *)
(* from the lowest ones up, a layer at a time; then each of them is        *)
(* scanned for its parent, which joins the cuboids when it is missing and  *)
(* more than parent_forward steps away.                                    *)
(***************************************************************************)
EXTENDS Cuboid, Sequences

CONSTANTS
    AggregationGroups,  \* the vectors of aggregation groups a cube may have
    parent_forward      \* cube_desc_->get_parent_forward()

\* An aggregation group: the mask of its dimensions and that of the mandatory
\* ones.
AggregationGroup == [full : CuboidId, mandatory : CuboidId]

ASSUME GroupsAssumption == AggregationGroups \subseteq Seq(AggregationGroup)

ASSUME ForwardAssumption == parent_forward \in Nat

VARIABLES
    aggs,           \* the cube's aggregation groups; never changes
    phase,          \* "lowest", "collect", "scan" or "built"
    children,       \* the layer build_tree_bottom_up has reached
    cuboid_ids,     \* the cuboids collected so far
    scan, pushed,   \* the deque: the ordered set it was filled from, its new end
    parent2child

treeVars == <<aggs, phase, children, cuboid_ids, scan, pushed, parent2child>>

\* check_mandatory_columns; is_mandatory_only_valid_ is always true.
CheckMandatoryColumns(agg, c) == agg.mandatory \subseteq c

\* AggregationGroup::is_on_tree.
IsOnTree(agg, c) == c # {} /\ c \subseteq agg.full /\ CheckMandatoryColumns(agg, c)

\* A mutant of ParentsInGroup: the mandatory columns are not asked for.
ParentsInGroup_NotMandatory(c, agg) ==
    IF c = agg.full THEN {}
    ELSE {c \cup {d} : d \in (agg.full \ agg.mandatory) \ c}

\* get_on_tree_parents(child, agg).
ParentsInGroup(c, agg) ==
    IF c = agg.full THEN {}
    ELSE IF ~(agg.mandatory \subseteq c) THEN {c \cup agg.mandatory}
    ELSE {c \cup {d} : d \in (agg.full \ agg.mandatory) \ c}

\* Mutants of ParentsAmong: a group's full mask is not followed by the base
\* cuboid; the base cuboid is asked for parents like any other.
ParentsAmong_NoBase(c, I) ==
    IF c = base_cuboid_id THEN {} ELSE UNION {ParentsInGroup(c, aggs[i]) : i \in I}
ParentsAmong_OfTheBase(c, I) ==
    (UNION {ParentsInGroup(c, aggs[i]) : i \in I})
        \cup (IF \E i \in I : aggs[i].full = c THEN {base_cuboid_id} ELSE {})

\* get_on_tree_parents(child, groups), for the groups with index in I.  The
\* first group whose full mask the child is ends the loop.
ParentsAmong(c, I) ==
    LET full == {i \in I : aggs[i].full = c}
        seen == {i \in I : \A j \in full : i < j}
    IN  IF c = base_cuboid_id THEN {}
        ELSE (UNION {ParentsInGroup(c, aggs[i]) : i \in seen})
             \cup (IF full = {} THEN {} ELSE {base_cuboid_id})

\* get_on_tree_parents(child).
OnTreeParents(c) == ParentsAmong(c, {i \in DOMAIN aggs : IsOnTree(aggs[i], c)})

LowestCuboids == ParentsAmong({}, DOMAIN aggs)

\* get_on_tree_parent, which returns 0 for a child without parents.
OnTreeParent(c) ==
    LET parents == OnTreeParents(c)
    IN  IF parents = {} THEN {}
        ELSE CHOOSE p \in parents : \A q \in parents \ {p} : CuboidSelectLess(p, q)

\* A mutant of ParentOnPromise: the child is looked up, not its parent.
ParentOnPromise_TestsChild(child) ==
    IF child \in cuboid_ids THEN child ELSE OnTreeParent(child)

\* get_parent_on_promise(child, cuboid_ids, forward): the nearest ancestor that
\* is listed, or the one forward + 1 steps up.
ParentOnPromise(child) ==
    LET up[forward \in 0 .. parent_forward] == [c \in CuboidId |->
            LET parent == OnTreeParent(c)
            IN  IF parent = {} \/ parent \in cuboid_ids \/ forward = 0
                THEN parent
                ELSE up[forward - 1][parent]]
    IN  up[parent_forward][child]

\* A mutant of ParentsByLayer: every group must have the cuboid on its tree.
ParentsByLayer_EveryGroup ==
    {p \in UNION {OnTreeParents(c) : c \in children} :
        p = base_cuboid_id \/ \A i \in DOMAIN aggs : IsOnTree(aggs[i], p)}

\* get_on_tree_parents_by_layer.
ParentsByLayer ==
    {p \in UNION {OnTreeParents(c) : c \in children} :
        p = base_cuboid_id \/ \E i \in DOMAIN aggs : IsOnTree(aggs[i], p)}

ChildrenOf(p) == IF p \in DOMAIN parent2child THEN parent2child[p] ELSE <<>>

-----------------------------------------------------------------------------
TreeInit ==
    /\ aggs \in AggregationGroups
    /\ phase = "lowest"
    /\ children = {}
    /\ cuboid_ids = {}
    /\ scan = {}
    /\ pushed = <<>>
    /\ parent2child = [p \in {} |-> <<>>]

StartAtTheLowest ==
    /\ phase = "lowest"
    /\ phase' = "collect"
    /\ children' = LowestCuboids
    /\ UNCHANGED <<aggs, cuboid_ids, scan, pushed, parent2child>>

CollectLayer ==
    /\ phase = "collect"
    /\ children # {}
    /\ cuboid_ids' = cuboid_ids \cup children
    /\ children' = ParentsByLayer
    /\ UNCHANGED <<aggs, phase, scan, pushed, parent2child>>

\* A mutant of StartScan: the base cuboid joins the deque only.
StartScan_BaseInDeque ==
    /\ phase = "collect"
    /\ children = {}
    /\ phase' = "scan"
    /\ scan' = cuboid_ids \cup {base_cuboid_id}
    /\ UNCHANGED <<aggs, children, cuboid_ids, pushed, parent2child>>

StartScan ==
    /\ phase = "collect"
    /\ children = {}
    /\ phase' = "scan"
    /\ cuboid_ids' = cuboid_ids \cup {base_cuboid_id}
    /\ scan' = cuboid_ids'
    /\ UNCHANGED <<aggs, children, pushed, parent2child>>

\* The front of the deque: std::set iterates in the order of the numbers.
IsFront(c) ==
    IF scan # {} THEN c \in scan /\ \A d \in scan \ {c} : IdLess(c, d)
    ELSE pushed # <<>> /\ c = Head(pushed)

Scan(current) ==
    LET parent == ParentOnPromise(current)
        padding == parent # {} /\ parent \notin cuboid_ids
        rest == IF scan = {} THEN Tail(pushed) ELSE pushed
    IN  /\ phase = "scan"
        /\ IsFront(current)
        /\ scan' = scan \ {current}
        /\ cuboid_ids' = IF padding THEN cuboid_ids \cup {parent} ELSE cuboid_ids
        /\ pushed' = IF padding THEN Append(rest, parent) ELSE rest
        /\ parent2child' =
              IF parent = {} THEN parent2child
              ELSE [p \in DOMAIN parent2child \cup {parent} |->
                       IF p = parent THEN Append(ChildrenOf(p), current)
                       ELSE parent2child[p]]
        /\ UNCHANGED <<aggs, phase, children>>

FinishTree ==
    /\ phase = "scan"
    /\ scan = {} /\ pushed = <<>>
    /\ phase' = "built"
    /\ UNCHANGED <<aggs, children, cuboid_ids, scan, pushed, parent2child>>

TreeNext ==
    \/ StartAtTheLowest
    \/ CollectLayer
    \/ StartScan
    \/ \E current \in CuboidId : Scan(current)
    \/ FinishTree
=============================================================================
