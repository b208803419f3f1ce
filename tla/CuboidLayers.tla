---------------------------- MODULE CuboidLayers ----------------------------
(***************************************************************************)
(* What the cubing algorithm asks of a scheduler once its tree is built:   *)
(* the cuboids by layer (CuboidSchedulerBase::get_cuboids_by_layer), which *)
(* it computes from the base cuboid down, and the cuboid that answers a    *)
(* request (CuboidScheduler::find_best_match_cuboid).                      *)
(***************************************************************************)
EXTENDS CuboidScheduler, SequencesExt

VARIABLES
    layers,         \* cuboids_by_layer_
    total_num

vars == <<treeVars, layers, total_num>>

Init == TreeInit /\ layers = <<>> /\ total_num = 0

BuildTree == TreeNext /\ UNCHANGED <<layers, total_num>>

FirstLayer ==
    /\ phase = "built"
    /\ phase' = "layers"
    /\ layers' = <<<<base_cuboid_id>>>>
    /\ total_num' = 1
    /\ UNCHANGED <<aggs, children, cuboid_ids, scan, pushed, parent2child>>

\* A mutant of NewLayer: only one cuboid of the layer has children.
NewLayer_OfTheFirst == ChildrenOf(Last(layers)[1])

\* The children of the last layer's cuboids, in order.
NewLayer ==
    LET last == Last(layers)
    IN  FlattenSeq([i \in DOMAIN last |-> ChildrenOf(last[i])])

NextLayer ==
    /\ phase = "layers"
    /\ IF NewLayer = <<>>
       THEN phase' = "done" /\ UNCHANGED <<layers, total_num>>
       ELSE /\ layers' = Append(layers, NewLayer)
            /\ total_num' = total_num + Len(NewLayer)
            /\ UNCHANGED phase
    /\ UNCHANGED <<aggs, children, cuboid_ids, scan, pushed, parent2child>>

Next == BuildTree \/ FirstLayer \/ NextLayer

Spec == Init /\ [][Next]_vars

-----------------------------------------------------------------------------
\* AggregationGroup::translate_to_on_tree_cuboid.
TranslateToOnTree(agg, c) ==
    IF c \subseteq agg.full THEN c \cup agg.mandatory ELSE {}

LeastCuboid(S) == CHOOSE c \in S : \A d \in S \ {c} : CuboidSelectLess(c, d)

\* do_find_best_match_cuboid1, which throws when it reaches 0: here {} is the
\* exception.
ValidAncestor(cuboid) ==
    LET up[n \in 0 .. Cardinality(Bit)] == [c \in CuboidId |->
            LET parent == OnTreeParent(c)
            IN  IF parent = {} \/ parent \in cuboid_ids \/ n = 0
                THEN parent
                ELSE up[n - 1][parent]]
    IN  up[Cardinality(Bit)][cuboid]

FindBestMatchCuboid(c) ==
    LET least == LeastCuboid({TranslateToOnTree(aggs[i], c) : i \in DOMAIN aggs})
    IN  IF c \in cuboid_ids THEN c
        ELSE IF aggs = <<>> THEN base_cuboid_id
        ELSE IF least \in cuboid_ids THEN least
        ELSE ValidAncestor(least)

-----------------------------------------------------------------------------
TypeOK ==
    /\ aggs \in Seq(AggregationGroup)
    /\ phase \in {"lowest", "collect", "scan", "built", "layers", "done"}
    /\ children \subseteq CuboidId
    /\ cuboid_ids \subseteq CuboidId
    /\ scan \subseteq cuboid_ids
    /\ Range(pushed) \subseteq cuboid_ids
    /\ DOMAIN parent2child \subseteq cuboid_ids
    /\ \A p \in DOMAIN parent2child : Range(parent2child[p]) \subseteq cuboid_ids
    /\ \A i \in DOMAIN layers : Range(layers[i]) \subseteq cuboid_ids
    /\ total_num \in Nat

\* The groups of a cube's description: each has dimensions, and its mandatory
\* dimensions are among them.
ProperGroups ==
    {g \in AggregationGroup : g.full # {} /\ g.mandatory \subseteq g.full}

\* The places a cuboid is listed at as somebody's child.
ListedAsChild(c) ==
    UNION {{<<p, i>> : i \in {j \in DOMAIN parent2child[p] : parent2child[p][j] = c}} :
            p \in DOMAIN parent2child}

\* A cuboid is computed from one that has its columns and more.
ParentCovers ==
    \A p \in DOMAIN parent2child : \A c \in Range(parent2child[p]) :
        c \subseteq p /\ c # p

\* When the tree is built, every cuboid but the base cuboid has one parent and
\* is listed once among its children; the base cuboid has none.
OneParent ==
    phase \in {"built", "layers", "done"} =>
        \A c \in cuboid_ids :
            Cardinality(ListedAsChild(c)) = IF c = base_cuboid_id THEN 0 ELSE 1

\* The layers hold every cuboid once, each after its parent: CHECK_EQ(total_num,
\* size) holds, and the layer-by-layer algorithm finds what it computes from.
LayersHoldAll ==
    phase = "done" =>
        /\ total_num = Cardinality(cuboid_ids)
        /\ UNION {Range(layers[i]) : i \in DOMAIN layers} = cuboid_ids
        /\ \A i \in DOMAIN layers \ {1} : \A c \in Range(layers[i]) :
             \E p \in Range(layers[i - 1]) : c \in Range(ChildrenOf(p))

\* Nothing but the base cuboid is built unless some aggregation group asks for
\* it, and a group with mandatory dimensions gets the cuboid of just these.  It
\* is not said that all cuboids on a group's tree are built.
OnlyOnTree ==
    phase \in {"built", "layers", "done"} =>
        /\ \A c \in cuboid_ids \ {base_cuboid_id} :
             \E i \in DOMAIN aggs : IsOnTree(aggs[i], c)
        /\ \A i \in DOMAIN aggs :
             aggs[i].mandatory # {} => aggs[i].mandatory \in cuboid_ids

\* The scan finds every parent among the cuboids collected: none is padded in.
NoPadding == [][phase = "scan" => UNCHANGED cuboid_ids]_vars

\* A request that every aggregation group covers is answered from a cuboid of
\* the cube with its columns, and from the least of those.
BestMatchAnswers ==
    phase = "done" =>
        \A c \in CuboidId \ {{}} :
            (\A i \in DOMAIN aggs : c \subseteq aggs[i].full) =>
                LET best == FindBestMatchCuboid(c)
                IN  /\ best \in cuboid_ids
                    /\ c \subseteq best
                    /\ \A d \in cuboid_ids \ {best} :
                         c \subseteq d => CuboidSelectLess(best, d)
=============================================================================
