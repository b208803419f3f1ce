---------------------------- MODULE CubeInstance ----------------------------
(***************************************************************************)
(* CubeInstance: a cube has one of the two schedulers.  The one that finds *)
(* its cuboids from the aggregation groups (CuboidLayers) and the one that *)
(* is given a list of them (TreeCuboids) share the layers of their base    *)
(* class and what the cubing algorithm and a query ask of them.            *)
(***************************************************************************)
EXTENDS CuboidLayers

CONSTANTS
    CuboidLists,    \* the lists init_cuboid_scheduler may be given, as sets
    MaxInits        \* how often it is called

ASSUME ListsAssumption == \A list \in CuboidLists : list \subseteq CuboidId /\ list # {}

ASSUME InitsAssumption == MaxInits \in Nat

VARIABLES
    tree_scheduler,     \* the constructor's argument
    tree_phase, tree_layers,
    inits, all_cuboid_ids, todo, root, nodes, tree_levels, index

Tree == INSTANCE TreeCuboids WITH phase <- tree_phase, layers <- tree_layers

treeSchedulerVars ==
    <<tree_phase, tree_layers, inits, all_cuboid_ids, todo, root, nodes, tree_levels, index>>
cubeVars == <<vars, tree_scheduler, treeSchedulerVars>>

\* CubeInstance(name, desc, tree_scheduler); the scheduler it does not make
\* stays as it is here.  The tree scheduler does not look at the groups.
NewCubeInstance ==
    /\ tree_scheduler \in BOOLEAN
    /\ Init
    /\ tree_scheduler => aggs = <<>>
    /\ Tree!Init

\* init_cuboid_scheduler and get_cuboids_by_layer go to the scheduler it made.
CuboidSchedulerStep ==
    /\ ~tree_scheduler
    /\ Next
    /\ UNCHANGED <<tree_scheduler, treeSchedulerVars>>

TreeCuboidSchedulerStep ==
    /\ tree_scheduler
    /\ Tree!Next
    /\ UNCHANGED <<tree_scheduler, vars>>

CubeNext == CuboidSchedulerStep \/ TreeCuboidSchedulerStep

CubeSpec == NewCubeInstance /\ [][CubeNext]_cubeVars

\* Each is a loop of one thread, once it is called.
FairCubeSpec ==
    /\ CubeSpec
    /\ WF_cubeVars(CuboidSchedulerStep)
    /\ WF_cubeVars((Tree!AddCuboid \/ Tree!BuildIndex) /\ UNCHANGED <<tree_scheduler, vars>>)

-----------------------------------------------------------------------------
\* The variables of both schedulers keep their types.
TypesOK == TypeOK /\ Tree!TypeOK

\* get_cuboids_by_layer of either scheduler: the layers hold every cuboid once,
\* each a layer below the one it is computed from.
LayersAreTheTree == LayersHoldAll /\ Tree!LayersOfTheTree

\* find_best_match_cuboid of either scheduler, in the cases where it answers as
\* it is to, with "a valid cuboid that best matches the request cuboid"
\* (cuboid_scheduler_base.hpp).  By groups: a request that every group covers is
\* answered from the least cuboid of the cube that has its columns; nothing is
\* said of one that some group does not cover.  Unless that one is a cuboid of
\* the cube, the group's candidate, 0, is the least, and the code throws.  By
\* list: the same of every request, where the list has the base cuboid; without
\* it the code may dereference null.
BestMatchIsBest == BestMatchAnswers /\ Tree!BestMatchIsLeast

\* In the tree built from a list, a cuboid is computed from the least cuboid of
\* the list that has its columns and more, one level up.
ParentsAreLeast == Tree!ParentsAreLeast

\* With the base cuboid in every list, no CHECK of get_cuboids_by_layer fails
\* once the tree is built from the list.
LayersAddUp == [][tree_phase = "built" => tree_phase' # "aborted"]_cubeVars

\* A tree that is begun is built, and the loop over the layers ends.
TreeIsBuilt ==
    /\ ~tree_scheduler ~> phase = "done"
    /\ tree_phase = "adding" ~> tree_phase = "built"
=============================================================================
