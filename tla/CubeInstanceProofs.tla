------------------------- MODULE CubeInstanceProofs -------------------------
(***************************************************************************)
(* Both schedulers, and the cube instance that has one of them, for any    *)
(* columns, any vector of aggregation groups, any parent_forward and any   *)
(* lists of cuboids: which cuboids build_tree_bottom_up collects and what  *)
(* tree it makes of them; what the layers hold, and that the CHECK_EQ of   *)
(* their number of cuboids with the size of the tree never fails; and what *)
(* the tree that is built from a list is in a cube.                        *)
(***************************************************************************)
EXTENDS CubeInstance, RecursionTheorems

\* What is proved of the tree that is made of a list.
Listed == INSTANCE TreeCuboidsProofs WITH phase <- tree_phase, layers <- tree_layers

\* The assumption of the lemmas.
LEMMA ListedBits == Bit \subseteq Nat /\ Listed!IsFiniteSet(Bit) /\ Bit # {}
  BY BitAssumption DEF Listed!IsFiniteSet, IsFiniteSet

-----------------------------------------------------------------------------
(***************************************************************************)
(* The orders of cuboids.                                                  *)
(***************************************************************************)

\* A cuboid has finitely many bits, and there are finitely many cuboids.
LEMMA CuboidFacts ==
    ASSUME NEW c \in CuboidId
    PROVE  /\ c \in SUBSET Nat /\ IsFiniteSet(c) /\ Cardinality(c) \in Nat
           /\ IsFiniteSet(CuboidId) /\ IsFiniteSet(Bit)
  BY BitAssumption, FS_Subset, FS_SUBSET, FS_CardinalityType DEF CuboidId

\* The numbers are ordered.
LEMMA IdOrder ==
    /\ \A c \in CuboidId : ~IdLess(c, c)
    /\ \A c, d \in CuboidId : c # d => IdLess(c, d) \/ IdLess(d, c)
    /\ \A a, b, c \in CuboidId : IdLess(a, b) /\ IdLess(b, c) => IdLess(a, c)
<1>1. CuboidId = Listed!CuboidId
  BY DEF CuboidId, Listed!CuboidId
<1>2. \A c, d : IdLess(c, d) <=> Listed!IdLess(c, d)
  BY DEF IdLess, Listed!IdLess
<1>3. /\ \A c \in Listed!CuboidId : ~Listed!IdLess(c, c)
      /\ \A c, d \in Listed!CuboidId : c # d => Listed!IdLess(c, d) \/ Listed!IdLess(d, c)
      /\ \A a, b, c \in Listed!CuboidId :
            Listed!IdLess(a, b) /\ Listed!IdLess(b, c) => Listed!IdLess(a, c)
  BY ListedBits, Listed!IdOrder
<1>4. QED
  BY <1>1, <1>2, <1>3

\* And so are cuboids by cuboid_select_comparator; a set of them has a least one.
LEMMA LeastSelected ==
    ASSUME NEW S \in SUBSET CuboidId, S # {}
    PROVE  \E p \in S : \A q \in S \ {p} : CuboidSelectLess(p, q)
<1> DEFINE R == {pair \in CuboidId \X CuboidId : CuboidSelectLess(pair[1], pair[2])}
<1>1. IsFiniteSet(S)
  BY CuboidFacts, FS_Subset
<1>2. \A a, b \in S : <<a, b>> \in R <=> CuboidSelectLess(a, b)
  OBVIOUS
<1>3. \A a \in S : Cardinality(a) \in Nat
  BY CuboidFacts
<1>4. \A a \in S : <<a, a>> \notin R
  BY <1>2, <1>3, IdOrder DEF CuboidSelectLess, BitCount
<1>5. \A a, b \in S : a # b => <<a, b>> \in R \/ <<b, a>> \in R
  BY <1>2, <1>3, IdOrder DEF CuboidSelectLess, BitCount
<1>6. ASSUME NEW a \in S, NEW b \in S, NEW c \in S, CuboidSelectLess(a, b), CuboidSelectLess(b, c)
      PROVE  CuboidSelectLess(a, c)
  <2>1. IdLess(a, b) /\ IdLess(b, c) => IdLess(a, c)
    BY IdOrder
  <2>2. Cardinality(a) \in Nat /\ Cardinality(b) \in Nat /\ Cardinality(c) \in Nat
    BY <1>3
  <2>3. QED
    BY <1>6, <2>1, <2>2 DEF CuboidSelectLess, BitCount
<1> HIDE DEF R
<1>7. \A a, b, c \in S : <<a, b>> \in R /\ <<b, c>> \in R => <<a, c>> \in R
  BY <1>2, <1>6
<1>8. PICK p \in S : \A q \in S \ {p} : <<p, q>> \in R
  BY <1>1, <1>4, <1>5, <1>7, LeastOfOrdered
<1>9. QED
  BY <1>2, <1>8

\* A cuboid with fewer columns comes first.
LEMMA SmallerFirst ==
    ASSUME NEW a \in CuboidId, NEW b \in CuboidId, a \subseteq b, a # b
    PROVE  CuboidSelectLess(a, b)
<1>1. IsFiniteSet(b)
  BY CuboidFacts
<1>2. Cardinality(a) \in Nat /\ Cardinality(b) \in Nat /\ Cardinality(a) < Cardinality(b)
  BY <1>1, FS_Subset, FS_CardinalityType
<1>3. QED
  BY <1>2 DEF CuboidSelectLess, BitCount

\* The order cuboid_select_comparator gives.
LEMMA SelectOrder ==
    ASSUME NEW a \in CuboidId, NEW b \in CuboidId, NEW d \in CuboidId,
           CuboidSelectLess(a, b), CuboidSelectLess(b, d)
    PROVE  CuboidSelectLess(a, d)
<1>1. IdLess(a, b) /\ IdLess(b, d) => IdLess(a, d)
  BY IdOrder
<1>2. Cardinality(a) \in Nat /\ Cardinality(b) \in Nat /\ Cardinality(d) \in Nat
  BY CuboidFacts
<1>3. QED
  BY <1>1, <1>2 DEF CuboidSelectLess, BitCount

-----------------------------------------------------------------------------
(***************************************************************************)
(* Parents.                                                                *)
(***************************************************************************)

\* The parents of a cuboid that is on a group's tree are on that tree too.
LEMMA ParentInGroup ==
    ASSUME NEW agg \in AggregationGroup, NEW c \in CuboidId, IsOnTree(agg, c),
           NEW p \in ParentsInGroup(c, agg)
    PROVE  p \in CuboidId /\ c \subseteq p /\ c # p /\ IsOnTree(agg, p)
<1>1. c \subseteq agg.full /\ agg.mandatory \subseteq c /\ agg.full \subseteq Bit
  BY DEF IsOnTree, CheckMandatoryColumns, AggregationGroup, CuboidId
<1>2. PICK d \in (agg.full \ agg.mandatory) \ c : p = c \cup {d}
  BY <1>1 DEF ParentsInGroup
<1>3. QED
  BY <1>1, <1>2 DEF IsOnTree, CheckMandatoryColumns, CuboidId

\* A parent has the columns of its child and more; it is the base cuboid or on
\* some group's tree.
LEMMA ParentFacts ==
    ASSUME aggs \in Seq(AggregationGroup), NEW c \in CuboidId, NEW p \in OnTreeParents(c)
    PROVE  /\ p \in CuboidId /\ c \subseteq p /\ c # p
           /\ p = base_cuboid_id \/ \E i \in DOMAIN aggs : IsOnTree(aggs[i], p)
           /\ c # base_cuboid_id
<1> DEFINE I == {i \in DOMAIN aggs : IsOnTree(aggs[i], c)}
<1>1. c # base_cuboid_id /\ base_cuboid_id \in CuboidId /\ c \subseteq base_cuboid_id
  BY DEF OnTreeParents, ParentsAmong, base_cuboid_id, CuboidId
<1>2. p = base_cuboid_id \/ \E i \in I : p \in ParentsInGroup(c, aggs[i])
  BY DEF OnTreeParents, ParentsAmong
<1>3. ASSUME NEW i \in I, p \in ParentsInGroup(c, aggs[i])
      PROVE  p \in CuboidId /\ c \subseteq p /\ c # p /\ IsOnTree(aggs[i], p)
  <2>1. aggs[i] \in AggregationGroup
    OBVIOUS
  <2>2. QED
    BY <1>3, <2>1, ParentInGroup
<1>4. QED
  BY <1>1, <1>2, <1>3

\* Every cuboid on a group's tree has parents, but the base cuboid.
LEMMA HasParents ==
    ASSUME aggs \in Seq(AggregationGroup), NEW c \in CuboidId, c # base_cuboid_id,
           NEW i \in DOMAIN aggs, IsOnTree(aggs[i], c)
    PROVE  OnTreeParents(c) # {}
<1> DEFINE I == {j \in DOMAIN aggs : IsOnTree(aggs[j], c)}
           full == {j \in I : aggs[j].full = c}
<1>1. CASE full # {}
  <2>1. base_cuboid_id \in OnTreeParents(c)
    BY <1>1 DEF OnTreeParents, ParentsAmong
  <2>2. QED
    BY <2>1
<1>2. CASE full = {}
  <2>1. c \subseteq aggs[i].full /\ aggs[i].mandatory \subseteq c /\ aggs[i].full # c
    BY <1>2 DEF IsOnTree, CheckMandatoryColumns
  <2>2. PICK d \in (aggs[i].full \ aggs[i].mandatory) \ c : TRUE
    BY <2>1
  <2>3. c \cup {d} \in ParentsInGroup(c, aggs[i])
    BY <2>1, <2>2 DEF ParentsInGroup
  <2>4. ParentsInGroup(c, aggs[i]) \subseteq OnTreeParents(c)
    BY <1>2 DEF OnTreeParents, ParentsAmong
  <2>5. QED
    BY <2>3, <2>4
<1>3. QED
  BY <1>1, <1>2

\* get_on_tree_parent picks one of the parents; {} stands for no parent only.
LEMMA ParentIsChosen ==
    ASSUME aggs \in Seq(AggregationGroup), NEW c \in CuboidId
    PROVE  /\ OnTreeParents(c) = {} => OnTreeParent(c) = {}
           /\ OnTreeParents(c) # {} => OnTreeParent(c) \in OnTreeParents(c) /\ OnTreeParent(c) # {}
           /\ OnTreeParent(c) \in CuboidId
<1>1. OnTreeParents(c) \in SUBSET CuboidId
  BY ParentFacts
<1>2. CASE OnTreeParents(c) = {}
  BY <1>2 DEF OnTreeParent, CuboidId
<1>3. CASE OnTreeParents(c) # {}
  <2> DEFINE First(p) == \A q \in OnTreeParents(c) \ {p} : CuboidSelectLess(p, q)
  <2>1. \E p \in OnTreeParents(c) : First(p)
    BY <1>1, <1>3, LeastSelected
  <2>2. OnTreeParent(c) = CHOOSE p \in OnTreeParents(c) : First(p)
    BY <1>3 DEF OnTreeParent
  <2> HIDE DEF First
  <2>3. OnTreeParent(c) \in OnTreeParents(c)
    BY <2>1, <2>2
  <2>4. OnTreeParent(c) # {}
    <3>1. \A p \in OnTreeParents(c) : c \subseteq p /\ c # p
      BY ParentFacts
    <3>2. QED
      BY <2>3, <3>1
  <2>5. QED
    BY <1>1, <1>3, <2>3, <2>4
<1>4. QED
  BY <1>2, <1>3

\* The parents of a cuboid depend on the aggregation groups, which stay.
LEMMA SameParents ==
    ASSUME aggs' = aggs, NEW c
    PROVE  /\ OnTreeParents(c)' = OnTreeParents(c)
           /\ OnTreeParent(c)' = OnTreeParent(c)
<1>1. OnTreeParents(c)' = OnTreeParents(c)
  BY DEF OnTreeParents, ParentsAmong
<1>2. QED
  BY <1>1 DEF OnTreeParent

\* get_parent_on_promise gives the parent itself when it is collected.
LEMMA PromisedParent ==
    ASSUME aggs \in Seq(AggregationGroup), NEW c \in CuboidId,
           OnTreeParent(c) = {} \/ OnTreeParent(c) \in cuboid_ids
    PROVE  ParentOnPromise(c) = OnTreeParent(c)
<1> DEFINE Up(below) ==
               [d \in CuboidId |->
                   IF OnTreeParent(d) = {} \/ OnTreeParent(d) \in cuboid_ids
                   THEN OnTreeParent(d) ELSE below[OnTreeParent(d)]]
           V == [CuboidId -> CuboidId]
           first == [d \in CuboidId |-> OnTreeParent(d)]
           step == [i \in Nat |-> [below \in V |-> Up(below)]]
           IsUp(up) ==
               up = [forward \in 0 .. parent_forward |-> [d \in CuboidId |->
                       LET parent == OnTreeParent(d)
                       IN  IF parent = {} \/ parent \in cuboid_ids \/ forward = 0
                           THEN parent
                           ELSE up[forward - 1][parent]]]
<1>1. \A d \in CuboidId : OnTreeParent(d) \in CuboidId
  BY ParentIsChosen
<1>2. first \in V
  BY <1>1
<1>3. step \in [Nat -> [V -> V]]
  <2>1. ASSUME NEW below \in V PROVE Up(below) \in V
    BY <1>1
  <2>2. QED
    BY <2>1
<1>4. parent_forward \in Nat
  BY ForwardAssumption
<1>5. PICK h : Computes(h, parent_forward, V, first, step)
  <2> HIDE DEF first, step, V
  <2>1. QED
    BY <1>2, <1>3, <1>4, RecursionExists
<1>6. IsUp(h)
  <2>1. ASSUME NEW forward \in 0 .. parent_forward
        PROVE  h[forward] = [d \in CuboidId |->
                       LET parent == OnTreeParent(d)
                       IN  IF parent = {} \/ parent \in cuboid_ids \/ forward = 0
                           THEN parent
                           ELSE h[forward - 1][parent]]
    <3>1. CASE forward = 0
      BY <1>5, <3>1 DEF Computes
    <3>2. CASE forward # 0
      <4>1. forward \in 1 .. parent_forward /\ forward \in Nat
            /\ forward - 1 \in 0 .. parent_forward
        BY <1>4, <3>2
      <4>2. h[forward - 1] \in V
        BY <1>5, <4>1 DEF Computes
      <4>3. h[forward] = Up(h[forward - 1])
        BY <1>5, <4>1, <4>2 DEF Computes
      <4>4. QED
        BY <3>2, <4>3
    <3>3. QED
      BY <3>1, <3>2
  <2>2. h = [forward \in 0 .. parent_forward |-> h[forward]]
    BY <1>5 DEF Computes
  <2>3. QED
    BY <2>1, <2>2
<1>7. ParentOnPromise(c) = (CHOOSE up : IsUp(up))[parent_forward][c]
  BY DEF ParentOnPromise
<1> DEFINE up == CHOOSE g : IsUp(g)
<1>8. IsUp(up)
  <2> HIDE DEF IsUp
  <2>1. QED
    BY <1>6
<1>9. ParentOnPromise(c) = up[parent_forward][c]
  BY <1>7
<1> HIDE DEF up
<1>10. parent_forward \in 0 .. parent_forward
  BY <1>4
<1>11. up[parent_forward][c] = OnTreeParent(c)
  BY <1>8, <1>10
<1>12. QED
  BY <1>9, <1>11

-----------------------------------------------------------------------------
(***************************************************************************)
(* The invariant of build_tree_bottom_up.  When the collecting of layers   *)
(* ends, the parents of every cuboid are collected; so the scan finds each *)
(* parent it looks for, pads nothing in and lists each cuboid once.        *)
(***************************************************************************)

Collecting == {"lowest", "collect"}
Scanned == {"built", "layers", "done"}

\* c is the i-th of the children of p.
Lists(p, i, c) ==
    /\ p \in DOMAIN parent2child
    /\ i \in DOMAIN parent2child[p]
    /\ parent2child[p][i] = c

TreeTypes ==
    /\ aggs \in AggregationGroups
    /\ phase \in Collecting \cup {"scan"} \cup Scanned
    /\ children \subseteq CuboidId
    /\ cuboid_ids \subseteq CuboidId
    /\ scan \subseteq cuboid_ids
    /\ pushed = <<>>
    /\ DOMAIN parent2child \subseteq cuboid_ids
    /\ \A p \in DOMAIN parent2child : parent2child[p] \in Seq(cuboid_ids)

\* What each phase leaves to the next one.
Handed ==
    /\ phase = "lowest" => children = {} /\ cuboid_ids = {}
    /\ phase \in Collecting => scan = {} /\ DOMAIN parent2child = {}
    /\ phase \notin Collecting => children = {} /\ base_cuboid_id \in cuboid_ids
    /\ phase \in Scanned => scan = {}

\* The parents of a cuboid collected are collected or in the next layer.
ParentsCollected ==
    \A c \in cuboid_ids : OnTreeParents(c) \subseteq cuboid_ids \cup children

\* A cuboid is listed by its parent only, once it is scanned.
ListedByParent ==
    \A p \in CuboidId, c \in CuboidId, i \in Nat :
        Lists(p, i, c) => OnTreeParent(c) = p /\ p # {} /\ c \notin scan

ListedOnce ==
    \A p \in CuboidId, c \in CuboidId, i \in Nat, j \in Nat :
        Lists(p, i, c) /\ Lists(p, j, c) => i = j

\* What is scanned and has a parent is listed there.
ScannedAreListed ==
    phase \notin Collecting =>
        \A c \in cuboid_ids \ scan, p \in CuboidId :
            OnTreeParent(c) = p /\ p # {} => \E i \in Nat : Lists(p, i, c)

TreeInv ==
    /\ TreeTypes
    /\ Handed
    /\ ParentsCollected
    /\ ListedByParent
    /\ ListedOnce
    /\ ScannedAreListed

\* A child listed is one of the children, and the other way round.
LEMMA ListsFacts ==
    ASSUME TreeTypes
    PROVE  /\ \A p, i, c : Lists(p, i, c) => p \in CuboidId /\ c \in cuboid_ids /\ i \in Nat
           /\ \A p \in CuboidId : ChildrenOf(p) \in Seq(cuboid_ids)
           /\ \A p \in DOMAIN parent2child : DOMAIN parent2child[p] = 1 .. Len(parent2child[p])
<1>1. ASSUME NEW p \in DOMAIN parent2child
      PROVE  /\ parent2child[p] \in Seq(cuboid_ids) /\ p \in CuboidId
             /\ DOMAIN parent2child[p] = 1 .. Len(parent2child[p])
             /\ \A i \in DOMAIN parent2child[p] : i \in Nat /\ parent2child[p][i] \in cuboid_ids
  <2>1. parent2child[p] \in Seq(cuboid_ids) /\ p \in CuboidId
    BY DEF TreeTypes
  <2>2. QED
    BY <2>1
<1>2. \A p \in CuboidId : ChildrenOf(p) \in Seq(cuboid_ids)
  BY <1>1 DEF ChildrenOf
<1>3. QED
  BY <1>1, <1>2 DEF Lists

\* The vector of a cube's groups is one of those it may have.
LEMMA AggsAreGroups ==
    ASSUME aggs \in AggregationGroups
    PROVE  aggs \in Seq(AggregationGroup)
  BY GroupsAssumption

\* The lowest cuboids are cuboids.
LEMMA LowestFacts ==
    ASSUME aggs \in AggregationGroups
    PROVE  LowestCuboids \subseteq CuboidId
<1>1. SUFFICES ASSUME NEW c \in LowestCuboids PROVE c \in CuboidId
  OBVIOUS
<1>2. c = base_cuboid_id \/ \E i \in DOMAIN aggs : c \in ParentsInGroup({}, aggs[i])
  BY DEF LowestCuboids, ParentsAmong
<1>3. ASSUME NEW i \in DOMAIN aggs, c \in ParentsInGroup({}, aggs[i]) PROVE c \in CuboidId
  <2>1. aggs[i] \in AggregationGroup
    BY AggsAreGroups
  <2>2. aggs[i].full \subseteq Bit /\ aggs[i].mandatory \subseteq Bit
    BY <2>1 DEF AggregationGroup, CuboidId
  <2>3. QED
    BY <1>3, <2>2 DEF ParentsInGroup, CuboidId
<1>4. QED
  BY <1>2, <1>3 DEF base_cuboid_id, CuboidId

\* At the start nothing is collected.
LEMMA TreeInvInit == TreeInit => TreeInv
<1> SUFFICES ASSUME TreeInit PROVE TreeInv
  OBVIOUS
<1> USE DEF TreeInit
<1>1. DOMAIN parent2child = {}
  OBVIOUS
<1>2. TreeTypes
  BY <1>1 DEF TreeTypes, Collecting
<1>3. Handed
  BY <1>1 DEF Handed, Collecting, Scanned
<1>4. \A p, i, c : ~Lists(p, i, c)
  BY <1>1 DEF Lists
<1>5. QED
  BY <1>2, <1>3, <1>4
     DEF TreeInv, ParentsCollected, ListedByParent, ListedOnce, ScannedAreListed, Collecting

\* The lowest cuboids are the first layer.
LEMMA StartAtTheLowestInv == TreeInv /\ StartAtTheLowest => TreeInv'
<1> SUFFICES ASSUME TreeInv, StartAtTheLowest PROVE TreeInv'
  OBVIOUS
<1> USE DEF StartAtTheLowest
<1>1. aggs' = aggs /\ \A c : OnTreeParent(c)' = OnTreeParent(c)
  BY SameParents
<1>2. TreeTypes'
  BY LowestFacts DEF TreeInv, TreeTypes, Collecting
<1>3. Handed'
  BY DEF TreeInv, Handed, Collecting, Scanned
<1>4. cuboid_ids = {}
  BY DEF TreeInv, Handed
<1>5. \A p, i, c : Lists(p, i, c)' <=> Lists(p, i, c)
  BY DEF Lists
<1>6. QED
  BY <1>1, <1>2, <1>3, <1>4, <1>5
     DEF TreeInv, ParentsCollected, ListedByParent, ListedOnce, ScannedAreListed, Collecting

\* The next layer has all the parents of the one collected.
LEMMA CollectLayerInv == TreeInv /\ CollectLayer => TreeInv'
<1> SUFFICES ASSUME TreeInv, CollectLayer PROVE TreeInv'
  OBVIOUS
<1> USE DEF CollectLayer
<1>1. \A c : OnTreeParents(c)' = OnTreeParents(c) /\ OnTreeParent(c)' = OnTreeParent(c)
  BY SameParents
<1>2. TreeTypes
  BY DEF TreeInv
<1>3. \A c \in children : OnTreeParents(c) \subseteq ParentsByLayer /\ OnTreeParents(c) \subseteq CuboidId
  <2>1. ASSUME NEW c \in children, NEW p \in OnTreeParents(c)
        PROVE  p \in ParentsByLayer /\ p \in CuboidId
    <3>1. c \in CuboidId /\ aggs \in Seq(AggregationGroup)
      BY <1>2, AggsAreGroups DEF TreeTypes
    <3>2. QED
      BY <3>1, ParentFacts DEF ParentsByLayer
  <2>2. QED
    BY <2>1
<1>4. ParentsByLayer \subseteq CuboidId
  BY <1>3 DEF ParentsByLayer
<1>5. DOMAIN parent2child = {} /\ scan = {}
  BY DEF TreeInv, Handed, Collecting
<1>6. TreeTypes'
  BY <1>2, <1>4, <1>5 DEF TreeTypes, Collecting
<1>7. Handed'
  BY <1>5 DEF TreeInv, Handed, Collecting, Scanned
<1>8. ParentsCollected'
  BY <1>1, <1>3 DEF TreeInv, ParentsCollected
<1>9. \A p, i, c : ~Lists(p, i, c)'
  BY <1>5 DEF Lists
<1>10. QED
  BY <1>6, <1>7, <1>8, <1>9 DEF TreeInv, ListedByParent, ListedOnce, ScannedAreListed, Collecting

\* When no layer is left, no parent is missing.
LEMMA StartScanInv == TreeInv /\ StartScan => TreeInv'
<1> SUFFICES ASSUME TreeInv, StartScan PROVE TreeInv'
  OBVIOUS
<1> USE DEF StartScan
<1>1. \A c : OnTreeParents(c)' = OnTreeParents(c) /\ OnTreeParent(c)' = OnTreeParent(c)
  BY SameParents
<1>2. DOMAIN parent2child = {} /\ scan = {}
  BY DEF TreeInv, Handed, Collecting
<1>3. base_cuboid_id \in CuboidId /\ OnTreeParents(base_cuboid_id) = {}
  BY DEF base_cuboid_id, CuboidId, OnTreeParents, ParentsAmong
<1>4. TreeTypes'
  BY <1>2, <1>3 DEF TreeInv, TreeTypes
<1>5. Handed'
  BY <1>2 DEF TreeInv, Handed, Collecting, Scanned
<1>6. ParentsCollected'
  BY <1>1, <1>3 DEF TreeInv, ParentsCollected
<1>7. \A p, i, c : ~Lists(p, i, c)'
  BY <1>2 DEF Lists
<1>8. (cuboid_ids \ scan)' = {}
  OBVIOUS
<1>9. QED
  BY <1>4, <1>5, <1>6, <1>7, <1>8 DEF TreeInv, ListedByParent, ListedOnce, ScannedAreListed

\* A cuboid scanned finds its parent among the cuboids.
LEMMA ScanFinds ==
    ASSUME TreeInv, NEW current \in CuboidId, Scan(current)
    PROVE  /\ current \in scan
           /\ ParentOnPromise(current) = OnTreeParent(current)
           /\ OnTreeParent(current) = {} \/ OnTreeParent(current) \in cuboid_ids
           /\ cuboid_ids' = cuboid_ids /\ pushed' = <<>>
<1>1. TreeTypes /\ aggs \in Seq(AggregationGroup) /\ pushed = <<>>
  BY AggsAreGroups DEF TreeInv, TreeTypes
<1>2. current \in scan
  BY <1>1 DEF Scan, IsFront
<1>3. current \in cuboid_ids /\ children = {}
  BY <1>1, <1>2 DEF Scan, TreeInv, TreeTypes, Handed, Collecting
<1>4. OnTreeParents(current) \subseteq cuboid_ids
  BY <1>3 DEF TreeInv, ParentsCollected
<1>5. OnTreeParent(current) = {} \/ OnTreeParent(current) \in cuboid_ids
  BY <1>1, <1>4, ParentIsChosen
<1>6. ParentOnPromise(current) = OnTreeParent(current)
  BY <1>1, <1>5, PromisedParent
<1>7. cuboid_ids' = cuboid_ids /\ pushed' = <<>>
  BY <1>1, <1>2, <1>5, <1>6 DEF Scan
<1>8. QED
  BY <1>2, <1>5, <1>6, <1>7

\* What is listed after the step is what was, and the cuboid scanned under its
\* parent.
LEMMA ScanLists ==
    ASSUME TreeInv, NEW current \in CuboidId, Scan(current),
           NEW parent, parent = OnTreeParent(current), parent # {}
    PROVE  /\ \A p, i, c : Lists(p, i, c)' <=>
                  \/ Lists(p, i, c)
                  \/ p = parent /\ i = Len(ChildrenOf(parent)) + 1 /\ c = current
           /\ Len(ChildrenOf(parent)) + 1 \in Nat
           /\ DOMAIN parent2child' \subseteq cuboid_ids
           /\ \A p \in DOMAIN parent2child' : parent2child'[p] \in Seq(cuboid_ids)
<1> DEFINE n == Len(ChildrenOf(parent)) + 1
           new == Append(ChildrenOf(parent), current)
<1>1. TreeTypes
  BY DEF TreeInv
<1>2. parent \in cuboid_ids /\ parent \in CuboidId /\ current \in cuboid_ids
  BY <1>1, ScanFinds DEF TreeTypes
<1>3. parent2child' = [p \in DOMAIN parent2child \cup {parent} |->
                          IF p = parent THEN Append(ChildrenOf(p), current) ELSE parent2child[p]]
  BY ScanFinds DEF Scan
<1>4. ChildrenOf(parent) \in Seq(cuboid_ids)
  BY <1>1, <1>2, ListsFacts
<1>5. DOMAIN parent2child' = DOMAIN parent2child \cup {parent}
  BY <1>3
<1>6. parent2child'[parent] = new
  BY <1>3
<1>7. \A p \in DOMAIN parent2child' \ {parent} : parent2child'[p] = parent2child[p]
  BY <1>3
<1>8. /\ new \in Seq(cuboid_ids) /\ n \in Nat /\ DOMAIN new = 1 .. n
      /\ new[n] = current
      /\ \A i \in 1 .. n - 1 : new[i] = ChildrenOf(parent)[i]
      /\ DOMAIN ChildrenOf(parent) = 1 .. n - 1
  BY <1>2, <1>4
<1> HIDE DEF new
<1>9. \A p \in DOMAIN parent2child' : parent2child'[p] \in Seq(cuboid_ids)
  <2>1. ASSUME NEW p \in DOMAIN parent2child', p # parent PROVE parent2child'[p] \in Seq(cuboid_ids)
    BY <1>1, <1>5, <1>7, <2>1 DEF TreeTypes
  <2>2. QED
    BY <1>6, <1>8, <2>1
<1>10. DOMAIN parent2child' \subseteq cuboid_ids
  BY <1>1, <1>2, <1>5 DEF TreeTypes
<1>11. ASSUME NEW p, NEW i, NEW c, p # parent
       PROVE  Lists(p, i, c)' <=> Lists(p, i, c)
  BY <1>5, <1>7, <1>11 DEF Lists
<1>12. ASSUME NEW i, NEW c
       PROVE  Lists(parent, i, c) <=> i \in 1 .. n - 1 /\ ChildrenOf(parent)[i] = c
  <2>1. CASE parent \in DOMAIN parent2child
    BY <1>8, <2>1 DEF Lists, ChildrenOf
  <2>2. CASE parent \notin DOMAIN parent2child
    <3>1. DOMAIN ChildrenOf(parent) = {}
      BY <2>2 DEF ChildrenOf
    <3>2. QED
      BY <1>8, <2>2, <3>1 DEF Lists
  <2>3. QED
    BY <2>1, <2>2
<1>13. ASSUME NEW i, NEW c, NEW q, q = parent
       PROVE  Lists(q, i, c)' <=> Lists(q, i, c) \/ (i = n /\ c = current)
  <2>1. Lists(q, i, c)' <=> i \in 1 .. n /\ new[i] = c
    BY <1>5, <1>6, <1>8, <1>13 DEF Lists
  <2>2. i \in 1 .. n <=> i \in 1 .. n - 1 \/ i = n
    BY <1>8
  <2>3. i = n => i \notin 1 .. n - 1
    BY <1>8
  <2>4. QED
    BY <1>8, <1>12, <1>13, <2>1, <2>2, <2>3
<1>14. QED
  BY <1>8, <1>9, <1>10, <1>11, <1>13

\* The scan keeps the lists: the cuboid scanned was in none.
LEMMA ScanInv ==
    ASSUME TreeInv, NEW current \in CuboidId, Scan(current)
    PROVE  TreeInv'
<1>1. /\ current \in scan /\ cuboid_ids' = cuboid_ids /\ pushed' = <<>>
      /\ scan' = scan \ {current} /\ aggs' = aggs /\ children' = children
      /\ phase = "scan" /\ phase' = "scan"
  BY ScanFinds DEF Scan
<1>2. \A c : OnTreeParents(c)' = OnTreeParents(c) /\ OnTreeParent(c)' = OnTreeParent(c)
  BY <1>1, SameParents
<1>3. PICK parent : parent = OnTreeParent(current)
  OBVIOUS
<1>4. parent = {} => parent2child' = parent2child
  BY <1>3, ScanFinds DEF Scan
<1>5. TreeTypes /\ Handed
  BY DEF TreeInv
<1>6. TreeTypes'
  <2>1. CASE parent = {}
    BY <1>1, <1>4, <1>5, <2>1 DEF TreeTypes
  <2>2. CASE parent # {}
    <3>1. /\ DOMAIN parent2child' \subseteq cuboid_ids
          /\ \A p \in DOMAIN parent2child' : parent2child'[p] \in Seq(cuboid_ids)
      BY <1>3, <2>2, ScanLists
    <3>2. QED
      BY <1>1, <1>5, <3>1 DEF TreeTypes
  <2>3. QED
    BY <2>1, <2>2
<1>7. Handed'
  BY <1>1, <1>5 DEF Handed, Collecting, Scanned
<1>8. ParentsCollected'
  BY <1>1, <1>2 DEF TreeInv, ParentsCollected
<1>9. CASE parent = {}
  <2>1. \A p, i, c : Lists(p, i, c)' <=> Lists(p, i, c)
    BY <1>4, <1>9 DEF Lists
  <2>2. QED
    BY <1>1, <1>2, <1>3, <1>6, <1>7, <1>8, <1>9, <2>1
       DEF TreeInv, ListedByParent, ListedOnce, ScannedAreListed
<1>10. CASE parent # {}
  <2> DEFINE n == Len(ChildrenOf(parent)) + 1
  <2>1. /\ \A p, i, c : Lists(p, i, c)' <=>
                 Lists(p, i, c) \/ (p = parent /\ i = n /\ c = current)
        /\ n \in Nat
    BY <1>3, <1>10, ScanLists
  <2> HIDE DEF n
  <2>2. \A p \in CuboidId, i \in Nat : ~Lists(p, i, current)
    BY <1>1 DEF TreeInv, ListedByParent
  <2>3. ListedByParent'
    BY <1>1, <1>2, <1>3, <1>10, <2>1 DEF TreeInv, ListedByParent
  <2>4. ListedOnce'
    BY <2>1, <2>2 DEF TreeInv, ListedOnce
  <2>5. ScannedAreListed'
    <3>1. ASSUME NEW c \in cuboid_ids \ scan', NEW p \in CuboidId, OnTreeParent(c) = p, p # {}
          PROVE  \E i \in Nat : Lists(p, i, c)'
      <4>1. CASE c = current
        BY <1>3, <2>1, <3>1, <4>1
      <4>2. CASE c # current
        <5>1. PICK i \in Nat : Lists(p, i, c)
          BY <1>1, <3>1, <4>2 DEF TreeInv, ScannedAreListed, Collecting
        <5>2. QED
          BY <2>1, <5>1
      <4>3. QED
        BY <4>1, <4>2
    <3>2. QED
      BY <1>1, <1>2, <3>1 DEF ScannedAreListed
  <2>6. QED
    BY <1>6, <1>7, <1>8, <2>3, <2>4, <2>5 DEF TreeInv
<1>11. QED
  BY <1>9, <1>10

\* The steps that leave the tree as it is.
LEMMA TreeKept ==
    ASSUME TreeInv, UNCHANGED <<aggs, children, cuboid_ids, scan, pushed, parent2child>>,
           \/ phase' = phase
           \/ phase \in {"scan"} \cup Scanned /\ phase' \in Scanned /\ scan = {}
    PROVE  TreeInv'
<1>1. \A c : OnTreeParents(c)' = OnTreeParents(c) /\ OnTreeParent(c)' = OnTreeParent(c)
  BY SameParents
<1>2. \A p, i, c : Lists(p, i, c)' <=> Lists(p, i, c)
  BY DEF Lists
<1>3. TreeTypes'
  BY DEF TreeInv, TreeTypes
<1>4. phase' \in Collecting <=> phase \in Collecting
  BY DEF Collecting, Scanned
<1>5. Handed'
  BY <1>4 DEF TreeInv, Handed, Collecting, Scanned
<1>6. ParentsCollected'
  BY <1>1 DEF TreeInv, ParentsCollected
<1>7. ListedByParent' /\ ListedOnce' /\ ScannedAreListed'
  BY <1>1, <1>2, <1>4 DEF TreeInv, ListedByParent, ListedOnce, ScannedAreListed
<1>8. QED
  BY <1>3, <1>5, <1>6, <1>7 DEF TreeInv

\* A step of a cube's scheduler is one of the tree's or leaves the tree alone.
LEMMA CubeSteps ==
    ASSUME [CubeNext]_cubeVars
    PROVE  \/ TreeNext
           \/ /\ UNCHANGED <<aggs, children, cuboid_ids, scan, pushed, parent2child>>
              /\ \/ phase' = phase
                 \/ phase \in {"built", "layers"} /\ phase' \in {"layers", "done"}
<1>1. CASE CuboidSchedulerStep
  BY <1>1 DEF CuboidSchedulerStep, Next, BuildTree, FirstLayer, NextLayer
<1>2. CASE TreeCuboidSchedulerStep
  BY <1>2 DEF TreeCuboidSchedulerStep, vars, treeVars
<1>3. CASE UNCHANGED cubeVars
  BY <1>3 DEF cubeVars, vars, treeVars
<1>4. QED
  BY <1>1, <1>2, <1>3 DEF CubeNext

\* Every step keeps the invariant.
LEMMA TreeInvStep == TreeInv /\ [CubeNext]_cubeVars => TreeInv'
<1> SUFFICES ASSUME TreeInv, [CubeNext]_cubeVars PROVE TreeInv'
  OBVIOUS
<1>1. CASE TreeNext
  <2>1. CASE StartAtTheLowest
    BY <2>1, StartAtTheLowestInv
  <2>2. CASE CollectLayer
    BY <2>2, CollectLayerInv
  <2>3. CASE StartScan
    BY <2>3, StartScanInv
  <2>4. ASSUME NEW current \in CuboidId, Scan(current) PROVE TreeInv'
    BY <2>4, ScanInv
  <2>5. CASE FinishTree
    BY <2>5, TreeKept DEF FinishTree, Scanned
  <2>6. QED
    BY <1>1, <2>1, <2>2, <2>3, <2>4, <2>5 DEF TreeNext
<1>2. CASE /\ UNCHANGED <<aggs, children, cuboid_ids, scan, pushed, parent2child>>
           /\ \/ phase' = phase
              \/ phase \in {"built", "layers"} /\ phase' \in {"layers", "done"}
  <2>1. phase \in {"built", "layers"} => scan = {}
    BY DEF TreeInv, Handed, Scanned
  <2>2. QED
    BY <1>2, <2>1, TreeKept DEF Scanned
<1>3. QED
  BY <1>1, <1>2, CubeSteps

\* The invariant of build_tree_bottom_up holds for every cube, whichever
\* scheduler it has.
THEOREM TreeInvariance == CubeSpec => []TreeInv
<1>1. NewCubeInstance => TreeInv
  BY TreeInvInit DEF NewCubeInstance, Init
<1>2. QED
  BY <1>1, TreeInvStep, PTL DEF CubeSpec

\* get_parent_on_promise never pads a cuboid in, for any parent_forward: the
\* scan leaves the set of cuboids as the collecting made it.
THEOREM NothingIsPadded == CubeSpec => NoPadding
<1>1. TreeInv /\ [CubeNext]_cubeVars => [phase = "scan" => UNCHANGED cuboid_ids]_vars
  <2> SUFFICES ASSUME TreeInv, [CubeNext]_cubeVars, phase = "scan"
               PROVE  UNCHANGED cuboid_ids
    OBVIOUS
  <2>1. ASSUME NEW current \in CuboidId, Scan(current) PROVE UNCHANGED cuboid_ids
    BY <2>1, ScanFinds
  <2>2. QED
    BY <2>1, CubeSteps DEF TreeNext, StartAtTheLowest, CollectLayer, StartScan, FinishTree
<1>2. QED
  BY <1>1, TreeInvariance, PTL DEF CubeSpec, NoPadding

\* A cuboid is computed from one that has its columns and more, whatever the
\* aggregation groups are.
THEOREM ParentsCover == CubeSpec => []ParentCovers
<1>1. ASSUME TreeInv PROVE ParentCovers
  <2>1. SUFFICES ASSUME NEW p \in DOMAIN parent2child, NEW c \in Range(parent2child[p])
                 PROVE  c \subseteq p /\ c # p
    BY DEF ParentCovers
  <2>2. PICK i \in DOMAIN parent2child[p] : parent2child[p][i] = c
    BY DEF Range
  <2>3. Lists(p, i, c)
    BY <2>2 DEF Lists
  <2>4. p \in CuboidId /\ c \in cuboid_ids /\ i \in Nat /\ c \in CuboidId
    BY <1>1, <2>3, ListsFacts DEF TreeInv, TreeTypes
  <2>5. OnTreeParent(c) = p /\ p # {}
    BY <1>1, <2>3, <2>4 DEF TreeInv, ListedByParent
  <2>6. aggs \in Seq(AggregationGroup)
    BY <1>1, AggsAreGroups DEF TreeInv, TreeTypes
  <2>7. p \in OnTreeParents(c)
    BY <2>4, <2>5, <2>6, ParentIsChosen
  <2>8. QED
    BY <2>4, <2>6, <2>7, ParentFacts
<1>2. QED
  BY <1>1, TreeInvariance, PTL

-----------------------------------------------------------------------------
(***************************************************************************)
(* When the groups are proper, each with dimensions and its mandatory      *)
(* dimensions among them, every cuboid is on the tree of some group.       *)
(***************************************************************************)

OnSomeTree(c) == c = base_cuboid_id \/ \E i \in DOMAIN aggs : IsOnTree(aggs[i], c)

AllOnTree ==
    /\ \A c \in cuboid_ids \cup children : OnSomeTree(c)
    /\ phase # "lowest" => LowestCuboids \subseteq cuboid_ids \cup children

\* A lowest cuboid is on the tree of its group; a group's mandatory dimensions,
\* if it has any, make one.
LEMMA LowestOnTree ==
    ASSUME aggs \in Seq(ProperGroups)
    PROVE  /\ \A c \in LowestCuboids : OnSomeTree(c)
           /\ \A i \in DOMAIN aggs : aggs[i].mandatory # {} => aggs[i].mandatory \in LowestCuboids
<1>1. \A i \in DOMAIN aggs : aggs[i].full # {} /\ aggs[i].mandatory \subseteq aggs[i].full
  BY DEF ProperGroups
<1>2. base_cuboid_id # {}
  BY BitAssumption DEF base_cuboid_id
<1>3. LowestCuboids = UNION {ParentsInGroup({}, aggs[i]) : i \in DOMAIN aggs}
  BY <1>1, <1>2 DEF LowestCuboids, ParentsAmong
<1>4. ASSUME NEW i \in DOMAIN aggs, NEW c \in ParentsInGroup({}, aggs[i])
      PROVE  IsOnTree(aggs[i], c)
  <2>1. CASE aggs[i].mandatory = {}
    <3>1. PICK d \in aggs[i].full : c = {d}
      BY <1>1, <2>1 DEF ParentsInGroup
    <3>2. QED
      BY <2>1, <3>1 DEF IsOnTree, CheckMandatoryColumns
  <2>2. CASE aggs[i].mandatory # {}
    <3>1. c = aggs[i].mandatory
      BY <1>1, <2>2 DEF ParentsInGroup
    <3>2. QED
      BY <1>1, <2>2, <3>1 DEF IsOnTree, CheckMandatoryColumns
  <2>3. QED
    BY <2>1, <2>2
<1>5. ASSUME NEW i \in DOMAIN aggs, aggs[i].mandatory # {}
      PROVE  aggs[i].mandatory \in ParentsInGroup({}, aggs[i])
  BY <1>1, <1>5 DEF ParentsInGroup
<1>6. QED
  BY <1>3, <1>4, <1>5 DEF OnSomeTree

\* Every step keeps the cuboids on trees.
LEMMA AllOnTreeStep ==
    ASSUME AggregationGroups \subseteq Seq(ProperGroups),
           TreeInv, AllOnTree, [CubeNext]_cubeVars
    PROVE  AllOnTree'
<1>1. aggs \in Seq(ProperGroups) /\ aggs \in Seq(AggregationGroup)
  BY AggsAreGroups DEF TreeInv, TreeTypes
<1>2. ASSUME aggs' = aggs
      PROVE  LowestCuboids' = LowestCuboids /\ \A c : OnSomeTree(c)' <=> OnSomeTree(c)
  BY <1>2 DEF OnSomeTree, LowestCuboids, ParentsAmong
<1>3. CASE StartAtTheLowest
  <2>1. cuboid_ids = {}
    BY <1>3 DEF StartAtTheLowest, TreeInv, Handed
  <2>2. QED
    BY <1>1, <1>2, <1>3, <2>1, LowestOnTree DEF StartAtTheLowest, AllOnTree
<1>4. CASE CollectLayer
  <2>1. \A c \in ParentsByLayer : OnSomeTree(c)
    BY DEF ParentsByLayer, OnSomeTree
  <2>2. QED
    BY <1>2, <1>4, <2>1 DEF CollectLayer, AllOnTree
<1>5. CASE StartScan
  <2>1. OnSomeTree(base_cuboid_id)
    BY DEF OnSomeTree
  <2>2. QED
    BY <1>2, <1>5, <2>1 DEF StartScan, AllOnTree
<1>6. ASSUME NEW current \in CuboidId, Scan(current) PROVE AllOnTree'
  <2>1. UNCHANGED <<aggs, phase, children, cuboid_ids>>
    BY <1>6, ScanFinds DEF Scan
  <2>2. QED
    BY <1>2, <2>1 DEF AllOnTree
<1>7. CASE FinishTree
  BY <1>2, <1>7 DEF FinishTree, AllOnTree
<1>8. CASE /\ UNCHANGED <<aggs, children, cuboid_ids, scan, pushed, parent2child>>
           /\ \/ phase' = phase
              \/ phase \in {"built", "layers"} /\ phase' \in {"layers", "done"}
  BY <1>2, <1>8 DEF AllOnTree
<1>9. QED
  BY <1>3, <1>4, <1>5, <1>6, <1>7, <1>8, CubeSteps DEF TreeNext

\* The invariant of cubes with proper groups.
LEMMA AllOnTreeAlways ==
    ASSUME AggregationGroups \subseteq Seq(ProperGroups)
    PROVE  CubeSpec => []AllOnTree
<1>1. NewCubeInstance => AllOnTree
  BY DEF NewCubeInstance, Init, TreeInit, AllOnTree
<1>2. TreeInv /\ AllOnTree /\ [CubeNext]_cubeVars => AllOnTree'
  BY AllOnTreeStep
<1>3. QED
  BY <1>1, <1>2, TreeInvariance, PTL DEF CubeSpec

\* With proper groups, nothing but the base cuboid is built unless a group asks
\* for it, and a group with mandatory dimensions gets the cuboid of just these.
THEOREM CuboidsAreOnTree ==
    ASSUME AggregationGroups \subseteq Seq(ProperGroups)
    PROVE  CubeSpec => []OnlyOnTree
<1>1. TreeInv /\ AllOnTree => OnlyOnTree
  <2> SUFFICES ASSUME TreeInv, AllOnTree, phase \in Scanned
               PROVE  /\ \A c \in cuboid_ids \ {base_cuboid_id} :
                           \E i \in DOMAIN aggs : IsOnTree(aggs[i], c)
                      /\ \A i \in DOMAIN aggs :
                           aggs[i].mandatory # {} => aggs[i].mandatory \in cuboid_ids
    BY DEF OnlyOnTree, Scanned
  <2>1. children = {} /\ phase # "lowest" /\ aggs \in Seq(ProperGroups)
    BY DEF TreeInv, TreeTypes, Handed, Collecting, Scanned
  <2>2. QED
    BY <2>1, LowestOnTree DEF AllOnTree, OnSomeTree
<1>2. QED
  BY <1>1, TreeInvariance, AllOnTreeAlways, PTL

\* The one place where the invariants put a cuboid.
LEMMA ListedWhere ==
    ASSUME TreeInv, AllOnTree, phase \in Scanned, NEW c \in cuboid_ids
    PROVE  /\ c = base_cuboid_id => \A p, i : ~Lists(p, i, c)
           /\ c # base_cuboid_id =>
                 \E p \in CuboidId, i \in Nat :
                    Lists(p, i, c) /\ \A q, j : Lists(q, j, c) => q = p /\ j = i
<1>1. /\ TreeTypes /\ Handed /\ c \in CuboidId /\ aggs \in Seq(AggregationGroup)
      /\ scan = {} /\ phase \notin Collecting
  BY AggsAreGroups DEF TreeInv, TreeTypes, Handed, Scanned, Collecting
<1>2. \A p, i : Lists(p, i, c) => p \in CuboidId /\ i \in Nat
  BY <1>1, ListsFacts
<1>3. CASE c = base_cuboid_id
  <2>1. OnTreeParents(c) = {}
    BY <1>3 DEF OnTreeParents, ParentsAmong
  <2>2. OnTreeParent(c) = {}
    BY <1>1, <2>1, ParentIsChosen
  <2>3. QED
    BY <1>1, <1>2, <1>3, <2>2 DEF TreeInv, ListedByParent
<1>4. CASE c # base_cuboid_id
  <2>1. PICK k \in DOMAIN aggs : IsOnTree(aggs[k], c)
    BY <1>4 DEF AllOnTree, OnSomeTree
  <2>2. OnTreeParents(c) # {}
    BY <1>1, <1>4, <2>1, HasParents
  <2>3. OnTreeParent(c) \in CuboidId /\ OnTreeParent(c) # {}
    BY <1>1, <2>2, ParentIsChosen
  <2>4. PICK p \in CuboidId : p = OnTreeParent(c) /\ p # {}
    BY <2>3
  <2>5. PICK i \in Nat : Lists(p, i, c)
    BY <1>1, <2>4 DEF TreeInv, ScannedAreListed
  <2>6. ASSUME NEW q, NEW j, Lists(q, j, c) PROVE q = p /\ j = i
    <3>1. q \in CuboidId /\ j \in Nat
      BY <1>2, <2>6
    <3>2. q = p
      BY <1>1, <2>4, <2>6, <3>1 DEF TreeInv, ListedByParent
    <3>3. QED
      BY <1>1, <2>5, <2>6, <3>1, <3>2 DEF TreeInv, ListedOnce
  <2>7. QED
    BY <1>4, <2>5, <2>6
<1>5. QED
  BY <1>3, <1>4

\* With proper groups, every cuboid but the base cuboid has one parent and is
\* listed once among its children; the base cuboid has none.
THEOREM EachHasOneParent ==
    ASSUME AggregationGroups \subseteq Seq(ProperGroups)
    PROVE  CubeSpec => []OneParent
<1>1. ASSUME TreeInv, AllOnTree PROVE OneParent
  <2>1. SUFFICES ASSUME phase \in Scanned, NEW c \in cuboid_ids
                 PROVE  Cardinality(ListedAsChild(c)) = IF c = base_cuboid_id THEN 0 ELSE 1
    BY DEF OneParent, Scanned
  <2>2. \A x : x \in ListedAsChild(c) <=> \E p, i : x = <<p, i>> /\ Lists(p, i, c)
    BY DEF ListedAsChild, Lists
  <2>3. CASE c = base_cuboid_id
    <3>1. ListedAsChild(c) = {}
      BY <1>1, <2>1, <2>2, <2>3, ListedWhere
    <3>2. QED
      BY <2>3, <3>1, FS_EmptySet
  <2>4. CASE c # base_cuboid_id
    <3>1. PICK p \in CuboidId, i \in Nat :
              Lists(p, i, c) /\ \A q, j : Lists(q, j, c) => q = p /\ j = i
      BY <1>1, <2>1, <2>4, ListedWhere
    <3>2. ListedAsChild(c) = {<<p, i>>}
      BY <2>2, <3>1
    <3>3. QED
      BY <2>4, <3>2, FS_Singleton
  <2>5. QED
    BY <2>3, <2>4
<1>2. QED
  BY <1>1, TreeInvariance, AllOnTreeAlways, PTL

-----------------------------------------------------------------------------
(***************************************************************************)
(* The invariant of get_cuboids_by_layer: each layer is the children of    *)
(* the one above it, and no cuboid is placed twice.                        *)
(***************************************************************************)

Layered == {"layers", "done"}

Placed == {c \in cuboid_ids : \E i \in DOMAIN layers : c \in Range(layers[i])}

IsChildOf(c, p) == \E k \in Nat : Lists(p, k, c)

LayerTypes ==
    /\ layers \in Seq(Seq(cuboid_ids)) /\ layers # <<>>
    /\ layers[1] = <<base_cuboid_id>>

PlacedOnce ==
    /\ \A i \in DOMAIN layers : IsInjective(layers[i])
    /\ \A i, j \in DOMAIN layers : i # j => Range(layers[i]) \cap Range(layers[j]) = {}

LayersAreChildren ==
    \A i \in DOMAIN layers \ {1}, c \in cuboid_ids :
        c \in Range(layers[i]) <=> \E p \in Range(layers[i - 1]) : IsChildOf(c, p)

LayersInv ==
    /\ phase \notin Layered => layers = <<>> /\ total_num = 0
    /\ phase \in Layered =>
          /\ LayerTypes
          /\ PlacedOnce
          /\ LayersAreChildren
          /\ total_num = Cardinality(Placed)
    /\ phase = "done" => \A p \in Range(Last(layers)), c \in cuboid_ids : ~IsChildOf(c, p)

\* What the children listed are, and how.
LEMMA ChildrenFacts ==
    ASSUME TreeInv, NEW p \in cuboid_ids
    PROVE  /\ ChildrenOf(p) \in Seq(cuboid_ids) /\ IsInjective(ChildrenOf(p))
           /\ \A c : c \in Range(ChildrenOf(p)) <=> IsChildOf(c, p)
           /\ \A c \in cuboid_ids : IsChildOf(c, p) => OnTreeParent(c) = p
<1>1. TreeTypes /\ p \in CuboidId /\ cuboid_ids \subseteq CuboidId
  BY DEF TreeInv, TreeTypes
<1>2. ChildrenOf(p) \in Seq(cuboid_ids)
  BY <1>1, ListsFacts
<1>3. \A k, c : Lists(p, k, c) <=> k \in DOMAIN ChildrenOf(p) /\ ChildrenOf(p)[k] = c
  <2>1. CASE p \in DOMAIN parent2child
    BY <2>1 DEF Lists, ChildrenOf
  <2>2. CASE p \notin DOMAIN parent2child
    <3>1. DOMAIN ChildrenOf(p) = {}
      BY <2>2 DEF ChildrenOf
    <3>2. QED
      BY <2>2, <3>1 DEF Lists
  <2>3. QED
    BY <2>1, <2>2
<1>4. DOMAIN ChildrenOf(p) \subseteq Nat
  BY <1>2
<1>5. IsInjective(ChildrenOf(p))
  <2>1. ASSUME NEW i \in DOMAIN ChildrenOf(p), NEW j \in DOMAIN ChildrenOf(p),
               ChildrenOf(p)[i] = ChildrenOf(p)[j]
        PROVE  i = j
    <3>1. PICK c : c = ChildrenOf(p)[i] /\ Lists(p, i, c) /\ Lists(p, j, c)
      BY <1>3, <2>1
    <3>2. c \in CuboidId /\ i \in Nat /\ j \in Nat
      BY <1>1, <1>4, <3>1, ListsFacts
    <3>3. QED
      BY <1>1, <3>1, <3>2 DEF TreeInv, ListedOnce
  <2>2. QED
    BY <2>1 DEF IsInjective
<1>6. \A c : c \in Range(ChildrenOf(p)) <=> IsChildOf(c, p)
  BY <1>3, <1>4 DEF Range, IsChildOf
<1>7. \A c \in cuboid_ids : IsChildOf(c, p) => OnTreeParent(c) = p
  BY <1>1 DEF IsChildOf, TreeInv, ListedByParent
<1>8. QED
  BY <1>2, <1>5, <1>6, <1>7

\* The base cuboid is nobody's child.
LEMMA BaseIsNoChild ==
    ASSUME TreeInv, NEW p \in cuboid_ids
    PROVE  ~IsChildOf(base_cuboid_id, p)
<1>1. OnTreeParents(base_cuboid_id) = {} /\ base_cuboid_id \in CuboidId
  BY DEF OnTreeParents, ParentsAmong, base_cuboid_id, CuboidId
<1>2. OnTreeParent(base_cuboid_id) = {}
  BY <1>1, ParentIsChosen, AggsAreGroups DEF TreeInv, TreeTypes
<1>3. p \in CuboidId
  BY DEF TreeInv, TreeTypes
<1>4. QED
  BY <1>1, <1>2, <1>3 DEF IsChildOf, TreeInv, ListedByParent

\* The next layer holds the children of the last one, each once, and none that
\* is placed already.
LEMMA NewLayerFacts ==
    ASSUME TreeInv, LayersInv, phase = "layers"
    PROVE  /\ NewLayer \in Seq(cuboid_ids) /\ IsInjective(NewLayer)
           /\ \A c : c \in Range(NewLayer) <=> \E p \in Range(Last(layers)) : IsChildOf(c, p)
           /\ \A i \in DOMAIN layers : Range(layers[i]) \cap Range(NewLayer) = {}
<1> DEFINE n == Len(layers)
           last == Last(layers)
           lists == [i \in DOMAIN last |-> ChildrenOf(last[i])]
<1>1. LayerTypes /\ PlacedOnce /\ LayersAreChildren
  BY DEF LayersInv, Layered
<1>2. /\ n \in Nat \ {0} /\ DOMAIN layers = 1 .. n /\ n \in 1 .. n
      /\ \A i \in 1 .. n : layers[i] \in Seq(cuboid_ids)
  BY <1>1 DEF LayerTypes
<1>3. /\ last = layers[n] /\ last \in Seq(cuboid_ids) /\ IsInjective(last)
      /\ DOMAIN last = 1 .. Len(last) /\ Len(last) \in Nat
  BY <1>1, <1>2 DEF Last, PlacedOnce
<1>4. \A i \in DOMAIN last : last[i] \in cuboid_ids
  BY <1>3
<1>5. /\ DOMAIN lists = DOMAIN last
      /\ \A i \in DOMAIN last : lists[i] = ChildrenOf(last[i])
  OBVIOUS
<1> HIDE DEF last, n
<1>6. lists \in Seq(Seq(cuboid_ids))
  <2>1. \A i \in DOMAIN last : ChildrenOf(last[i]) \in Seq(cuboid_ids)
    BY <1>4, ChildrenFacts
  <2>2. QED
    BY <1>3, <2>1
<1>7. NewLayer = FlattenSeq(lists)
  BY DEF NewLayer, last
<1> HIDE DEF lists
<1>8. \A i \in DOMAIN lists : IsInjective(lists[i])
  BY <1>4, <1>5, ChildrenFacts
<1>9. ASSUME NEW i \in DOMAIN lists, NEW j \in DOMAIN lists, i # j
      PROVE  Range(lists[i]) \cap Range(lists[j]) = {}
  <2>1. PICK p \in cuboid_ids, q \in cuboid_ids : p = last[i] /\ q = last[j]
    BY <1>4, <1>5
  <2>2. p # q
    BY <1>3, <1>5, <1>9, <2>1 DEF IsInjective
  <2>3. ASSUME NEW c \in Range(ChildrenOf(p)), c \in Range(ChildrenOf(q)) PROVE FALSE
    <3>1. IsChildOf(c, p) /\ IsChildOf(c, q)
      BY <2>3, ChildrenFacts
    <3>2. c \in cuboid_ids
      BY <3>1, ListsFacts DEF IsChildOf, TreeInv
    <3>3. OnTreeParent(c) = p /\ OnTreeParent(c) = q
      BY <3>1, <3>2, ChildrenFacts
    <3>4. QED
      BY <2>2, <3>3
  <2>4. lists[i] = ChildrenOf(p) /\ lists[j] = ChildrenOf(q)
    BY <1>5, <2>1
  <2>5. QED
    BY <2>3, <2>4
<1>10. NewLayer \in Seq(cuboid_ids) /\ IsInjective(NewLayer)
  BY <1>6, <1>7, <1>8, <1>9, FlattenFacts
<1>11. \A c : c \in Range(NewLayer) <=> \E i \in DOMAIN lists : c \in Range(lists[i])
  BY <1>6, <1>7, FlattenFacts
<1>12. ASSUME NEW c
       PROVE  c \in Range(NewLayer) <=> \E p \in Range(last) : IsChildOf(c, p)
  <2>1. \A i \in DOMAIN last : c \in Range(lists[i]) <=> IsChildOf(c, last[i])
    BY <1>4, <1>5, ChildrenFacts
  <2>2. QED
    BY <1>5, <1>11, <2>1 DEF Range
<1>13. ASSUME NEW i \in DOMAIN layers, NEW c \in Range(layers[i]), c \in Range(NewLayer)
       PROVE  FALSE
  <2>1. PICK p \in Range(last) : IsChildOf(c, p)
    BY <1>12, <1>13
  <2>2. p \in cuboid_ids /\ p \in Range(layers[n])
    BY <1>3, <1>4, <2>1 DEF Range
  <2>3. c \in cuboid_ids
    BY <2>1, ListsFacts DEF IsChildOf, TreeInv
  <2>4. CASE i = 1
    <3>1. c = base_cuboid_id
      BY <1>1, <1>13, <2>4 DEF LayerTypes, Range
    <3>2. QED
      BY <2>1, <2>2, <3>1, BaseIsNoChild
  <2>5. CASE i # 1
    <3>1. PICK q \in Range(layers[i - 1]) : IsChildOf(c, q)
      BY <1>1, <1>13, <2>3, <2>5 DEF LayersAreChildren
    <3>2. i - 1 \in 1 .. n /\ i - 1 # n
      BY <1>2, <2>5
    <3>3. q \in cuboid_ids
      BY <1>2, <3>1, <3>2 DEF Range
    <3>4. q = p
      BY <2>1, <2>2, <2>3, <3>1, <3>3, ChildrenFacts
    <3>5. Range(layers[i - 1]) \cap Range(layers[n]) = {}
      BY <1>1, <1>2, <3>2 DEF PlacedOnce
    <3>6. QED
      BY <2>2, <3>1, <3>4, <3>5
  <2>6. QED
    BY <2>4, <2>5
<1>14. \A i \in DOMAIN layers : Range(layers[i]) \cap Range(NewLayer) = {}
  BY <1>13
<1>15. QED
  BY <1>10, <1>12, <1>14 DEF last

\* The steps, as the layers see them.
LEMMA LayerSteps ==
    ASSUME [CubeNext]_cubeVars
    PROVE  \/ TreeNext /\ UNCHANGED <<layers, total_num>>
           \/ FirstLayer
           \/ NextLayer
           \/ UNCHANGED vars
<1>1. CASE CuboidSchedulerStep
  BY <1>1 DEF CuboidSchedulerStep, Next, BuildTree
<1>2. CASE TreeCuboidSchedulerStep
  BY <1>2 DEF TreeCuboidSchedulerStep
<1>3. CASE UNCHANGED cubeVars
  BY <1>3 DEF cubeVars
<1>4. QED
  BY <1>1, <1>2, <1>3 DEF CubeNext

\* The first layer is the base cuboid.
LEMMA FirstLayerInv == TreeInv /\ LayersInv /\ FirstLayer => LayersInv'
<1> SUFFICES ASSUME TreeInv, LayersInv, FirstLayer PROVE LayersInv'
  OBVIOUS
<1>1. /\ phase' = "layers" /\ layers' = <<<<base_cuboid_id>>>> /\ total_num' = 1
      /\ cuboid_ids' = cuboid_ids
  BY DEF FirstLayer
<1>2. base_cuboid_id \in cuboid_ids
  BY DEF FirstLayer, TreeInv, Handed, Collecting
<1>3. /\ DOMAIN layers' = {1} /\ layers'[1] = <<base_cuboid_id>>
      /\ layers' \in Seq(Seq(cuboid_ids)) /\ layers' # <<>>
  BY <1>1, <1>2
<1>4. Range(<<base_cuboid_id>>) = {base_cuboid_id} /\ IsInjective(<<base_cuboid_id>>)
  BY DEF Range, IsInjective
<1>5. LayerTypes'
  BY <1>1, <1>3 DEF LayerTypes, base_cuboid_id
<1>6. PlacedOnce'
  BY <1>3, <1>4 DEF PlacedOnce
<1>7. LayersAreChildren'
  BY <1>3 DEF LayersAreChildren
<1>8. Placed' = {base_cuboid_id}
  BY <1>1, <1>2, <1>3, <1>4 DEF Placed
<1>9. total_num' = Cardinality(Placed)'
  BY <1>1, <1>8, FS_Singleton
<1>10. QED
  BY <1>1, <1>5, <1>6, <1>7, <1>9 DEF LayersInv, Layered

\* The loop ends when the last layer has no children.
LEMMA NoLayerInv == TreeInv /\ LayersInv /\ NextLayer /\ NewLayer = <<>> => LayersInv'
<1> SUFFICES ASSUME TreeInv, LayersInv, NextLayer, NewLayer = <<>> PROVE LayersInv'
  OBVIOUS
<1>1. /\ phase = "layers" /\ phase' = "done"
      /\ UNCHANGED <<layers, total_num, cuboid_ids, parent2child>>
  BY DEF NextLayer
<1>2. \A c, p : IsChildOf(c, p)' <=> IsChildOf(c, p)
  BY <1>1 DEF IsChildOf, Lists
<1>3. LayerTypes /\ PlacedOnce /\ LayersAreChildren /\ total_num = Cardinality(Placed)
  BY <1>1 DEF LayersInv, Layered
<1>4. LayerTypes' /\ PlacedOnce' /\ LayersAreChildren' /\ Placed' = Placed
  BY <1>1, <1>2, <1>3 DEF LayerTypes, PlacedOnce, LayersAreChildren, Placed
<1>5. Range(<<>>) = {}
  <2>1. DOMAIN <<>> = {}
    OBVIOUS
  <2>2. QED
    BY <2>1 DEF Range
<1>6. \A p \in Range(Last(layers)), c \in cuboid_ids : ~IsChildOf(c, p)
  BY <1>1, <1>5, NewLayerFacts
<1>7. (\A p \in Range(Last(layers)), c \in cuboid_ids : ~IsChildOf(c, p))'
  BY <1>1, <1>2, <1>6
<1>8. QED
  BY <1>1, <1>3, <1>4, <1>7 DEF LayersInv, Layered

\* A layer is added: its cuboids are new, and as many as it is long.
LEMMA AddLayerInv == TreeInv /\ LayersInv /\ NextLayer /\ NewLayer # <<>> => LayersInv'
<1> SUFFICES ASSUME TreeInv, LayersInv, NextLayer, NewLayer # <<>> PROVE LayersInv'
  OBVIOUS
<1>1. /\ phase = "layers" /\ phase' = "layers"
      /\ layers' = Append(layers, NewLayer)
      /\ total_num' = total_num + Len(NewLayer)
      /\ UNCHANGED <<cuboid_ids, parent2child>>
  BY DEF NextLayer
<1>2. \A c, p : IsChildOf(c, p)' <=> IsChildOf(c, p)
  BY <1>1 DEF IsChildOf, Lists
<1>3. LayerTypes /\ PlacedOnce /\ LayersAreChildren /\ total_num = Cardinality(Placed)
  BY <1>1 DEF LayersInv, Layered
<1>4. NewLayer \in Seq(cuboid_ids) /\ IsInjective(NewLayer)
  BY <1>1, NewLayerFacts
<1>5. \A c : c \in Range(NewLayer) <=> \E p \in Range(Last(layers)) : IsChildOf(c, p)
  BY <1>1, NewLayerFacts
<1>6. \A i \in DOMAIN layers : Range(layers[i]) \cap Range(NewLayer) = {}
  BY <1>1, NewLayerFacts
<1>7. PICK n \in Nat \ {0} : n = Len(layers) /\ DOMAIN layers = 1 .. n /\ Last(layers) = layers[n]
  BY <1>3 DEF LayerTypes, Last
<1>8. layers \in Seq(Seq(cuboid_ids)) /\ layers' \in Seq(Seq(cuboid_ids)) /\ layers' # <<>>
  <2>1. layers \in Seq(Seq(cuboid_ids))
    BY <1>3 DEF LayerTypes
  <2>2. layers' \in Seq(Seq(cuboid_ids)) /\ Len(layers') = Len(layers) + 1 /\ Len(layers) \in Nat
    BY <1>1, <1>4, <2>1
  <2>3. layers' # <<>>
    BY <2>2
  <2>4. QED
    BY <2>1, <2>2, <2>3
<1>9. /\ DOMAIN layers' = 1 .. n + 1 /\ layers'[n + 1] = NewLayer
      /\ \A i \in 1 .. n : layers'[i] = layers[i]
  BY <1>1, <1>4, <1>7, <1>8
<1>10. 1 .. n + 1 = (1 .. n) \cup {n + 1} /\ n + 1 \notin 1 .. n /\ 1 \in 1 .. n /\ (n + 1) - 1 = n
       /\ n \in 1 .. n /\ \A i \in (1 .. n) \ {1} : i - 1 \in 1 .. n
  BY <1>7
<1>11. LayerTypes'
  BY <1>1, <1>3, <1>8, <1>9, <1>10 DEF LayerTypes, base_cuboid_id
<1>12. PlacedOnce'
  <2>1. \A i \in 1 .. n + 1 : IsInjective(layers'[i])
    BY <1>3, <1>4, <1>7, <1>9, <1>10 DEF PlacedOnce
  <2>2. ASSUME NEW i \in 1 .. n + 1, NEW j \in 1 .. n + 1, i # j
        PROVE  Range(layers'[i]) \cap Range(layers'[j]) = {}
    <3>1. CASE i \in 1 .. n /\ j \in 1 .. n
      BY <1>3, <1>7, <1>9, <2>2, <3>1 DEF PlacedOnce
    <3>2. CASE i \in 1 .. n /\ j = n + 1
      BY <1>6, <1>7, <1>9, <3>2
    <3>3. CASE i = n + 1 /\ j \in 1 .. n
      BY <1>6, <1>7, <1>9, <3>3
    <3>4. QED
      BY <1>10, <2>2, <3>1, <3>2, <3>3
  <2>3. QED
    BY <1>9, <2>1, <2>2 DEF PlacedOnce
<1>13. LayersAreChildren'
  <2>1. ASSUME NEW i \in (1 .. n + 1) \ {1}, NEW c \in cuboid_ids
        PROVE  c \in Range(layers'[i]) <=> \E p \in Range(layers'[i - 1]) : IsChildOf(c, p)
    <3>1. CASE i \in 1 .. n
      BY <1>3, <1>7, <1>9, <1>10, <3>1 DEF LayersAreChildren
    <3>2. CASE i = n + 1
      BY <1>5, <1>7, <1>9, <1>10, <3>2
    <3>3. QED
      BY <1>10, <3>1, <3>2
  <2>2. QED
    BY <1>1, <1>2, <1>9, <2>1 DEF LayersAreChildren
<1>14. total_num' = Cardinality(Placed)'
  <2>1. Placed' = Placed \cup Range(NewLayer)
    <3>1. Range(NewLayer) \subseteq cuboid_ids
      BY <1>4 DEF Range
    <3>2. QED
      BY <1>1, <1>7, <1>9, <1>10, <3>1 DEF Placed
  <2>2. Placed \cap Range(NewLayer) = {}
    BY <1>6 DEF Placed
  <2>3. IsFiniteSet(Placed)
    <3>1. Placed \in SUBSET CuboidId
      BY DEF Placed, TreeInv, TreeTypes
    <3>2. IsFiniteSet(CuboidId)
      BY BitAssumption, FS_SUBSET DEF CuboidId
    <3>3. QED
      BY <3>1, <3>2, FS_Subset
  <2>4. IsFiniteSet(Range(NewLayer)) /\ Cardinality(Range(NewLayer)) = Len(NewLayer)
    BY <1>4, LengthOfInjective
  <2>5. Cardinality(Placed \cup Range(NewLayer)) =
           Cardinality(Placed) + Cardinality(Range(NewLayer)) - Cardinality({})
    BY <2>2, <2>3, <2>4, FS_Union
  <2>6. Cardinality({}) = 0 /\ Cardinality(Placed) \in Nat /\ Len(NewLayer) \in Nat
    BY <1>4, <2>3, FS_EmptySet, FS_CardinalityType
  <2>7. total_num' = Cardinality(Placed \cup Range(NewLayer))
    BY <1>1, <1>3, <2>4, <2>5, <2>6
  <2>8. QED
    BY <2>1, <2>7
<1>15. QED
  BY <1>1, <1>11, <1>12, <1>13, <1>14 DEF LayersInv, Layered

\* Every step keeps the invariant of the layers.
LEMMA LayersInvStep == TreeInv /\ LayersInv /\ [CubeNext]_cubeVars => LayersInv'
<1> SUFFICES ASSUME TreeInv, LayersInv, [CubeNext]_cubeVars PROVE LayersInv'
  OBVIOUS
<1>1. CASE TreeNext /\ UNCHANGED <<layers, total_num>>
  <2>1. phase \notin Layered /\ phase' \notin Layered
    BY <1>1 DEF TreeNext, StartAtTheLowest, CollectLayer, StartScan, Scan, FinishTree, Layered
  <2>2. QED
    BY <1>1, <2>1 DEF LayersInv, Layered
<1>2. CASE FirstLayer
  BY <1>2, FirstLayerInv
<1>3. CASE NextLayer
  BY <1>3, NoLayerInv, AddLayerInv
<1>4. CASE UNCHANGED vars
  <2>1. UNCHANGED <<phase, layers, total_num, cuboid_ids, parent2child>>
    BY <1>4 DEF vars, treeVars
  <2>2. \A c, p : IsChildOf(c, p)' <=> IsChildOf(c, p)
    BY <2>1 DEF IsChildOf, Lists
  <2>3. Placed' = Placed
    BY <2>1 DEF Placed
  <2>4. QED
    BY <2>1, <2>2, <2>3 DEF LayersInv, LayerTypes, PlacedOnce, LayersAreChildren
<1>5. QED
  BY <1>1, <1>2, <1>3, <1>4, LayerSteps

\* The invariant of the layers holds for every cube.
THEOREM LayersInvariance == CubeSpec => []LayersInv
<1>1. NewCubeInstance => LayersInv
  BY DEF NewCubeInstance, Init, TreeInit, LayersInv, Layered
<1>2. QED
  BY <1>1, LayersInvStep, TreeInvariance, PTL DEF CubeSpec

\* The variables of the scheduler keep their types.
THEOREM TypeCorrect == CubeSpec => []TypeOK
<1>1. ASSUME TreeInv, LayersInv PROVE TypeOK
  <2>1. /\ aggs \in Seq(AggregationGroup)
        /\ phase \in {"lowest", "collect", "scan", "built", "layers", "done"}
        /\ children \subseteq CuboidId /\ cuboid_ids \subseteq CuboidId /\ scan \subseteq cuboid_ids
        /\ DOMAIN parent2child \subseteq cuboid_ids
    BY <1>1, AggsAreGroups DEF TreeInv, TreeTypes, Collecting, Scanned
  <2>2. Range(<<>>) = {}
    <3>1. DOMAIN <<>> = {}
      OBVIOUS
    <3>2. QED
      BY <3>1 DEF Range
  <2>3. Range(pushed) \subseteq cuboid_ids
    BY <1>1, <2>2 DEF TreeInv, TreeTypes
  <2>4. ASSUME NEW p \in DOMAIN parent2child PROVE Range(parent2child[p]) \subseteq cuboid_ids
    <3>1. parent2child[p] \in Seq(cuboid_ids)
      BY <1>1 DEF TreeInv, TreeTypes
    <3>2. QED
      BY <3>1 DEF Range
  <2>5. CASE phase \notin Layered
    <3>1. layers = <<>> /\ total_num = 0
      BY <1>1, <2>5 DEF LayersInv
    <3>2. DOMAIN layers = {}
      BY <3>1
    <3>3. QED
      BY <2>1, <2>3, <2>4, <3>1, <3>2 DEF TypeOK
  <2>6. CASE phase \in Layered
    <3>1. LayerTypes /\ total_num = Cardinality(Placed)
      BY <1>1, <2>6 DEF LayersInv
    <3>2. ASSUME NEW i \in DOMAIN layers PROVE Range(layers[i]) \subseteq cuboid_ids
      <4>1. layers[i] \in Seq(cuboid_ids)
        BY <3>1 DEF LayerTypes
      <4>2. QED
        BY <4>1 DEF Range
    <3>3. Placed \in SUBSET CuboidId
      BY <2>1 DEF Placed
    <3>4. total_num \in Nat
      BY <3>1, <3>3, BitAssumption, FS_SUBSET, FS_Subset, FS_CardinalityType DEF CuboidId
    <3>5. QED
      BY <2>1, <2>3, <2>4, <3>2, <3>4 DEF TypeOK
  <2>7. QED
    BY <2>5, <2>6
<1>2. QED
  BY <1>1, TreeInvariance, LayersInvariance, PTL

\* When no layer is left every cuboid is placed: a largest one that is not has a
\* parent, which is placed, and is in the layer below it.
LEMMA AllPlaced ==
    ASSUME TreeInv, AllOnTree, LayersInv, phase = "done"
    PROVE  Placed = cuboid_ids
<1> DEFINE Missing == cuboid_ids \ Placed
           Sizes == {Cardinality(c) : c \in Missing}
<1>1. /\ LayerTypes /\ LayersAreChildren
      /\ \A p \in Range(Last(layers)), c \in cuboid_ids : ~IsChildOf(c, p)
  BY DEF LayersInv, Layered
<1>2. TreeTypes /\ cuboid_ids \subseteq CuboidId /\ aggs \in Seq(AggregationGroup)
  BY AggsAreGroups DEF TreeInv, TreeTypes
<1>3. SUFFICES ASSUME Missing # {} PROVE FALSE
  BY DEF Placed
<1>4. Sizes \in SUBSET Nat /\ Sizes # {} /\ \A s \in Sizes : s <= Cardinality(Bit)
  <2>1. \A c \in Missing : Cardinality(c) \in Nat /\ Cardinality(c) <= Cardinality(Bit)
    BY <1>2, BitAssumption, FS_Subset, FS_CardinalityType DEF CuboidId
  <2>2. QED
    BY <1>3, <2>1
<1>5. Cardinality(Bit) \in Nat
  BY BitAssumption, FS_CardinalityType
<1>6. PICK s \in Sizes : \A t \in Sizes : t <= s
  <2> HIDE DEF Sizes
  <2>1. QED
    BY <1>4, <1>5, GreatestNumber
<1>7. PICK c \in Missing : s = Cardinality(c)
  OBVIOUS
<1>8. \A d \in Missing : Cardinality(d) <= Cardinality(c)
  BY <1>6, <1>7
<1> HIDE DEF Sizes
<1>9. PICK n \in Nat \ {0} : n = Len(layers) /\ DOMAIN layers = 1 .. n /\ Last(layers) = layers[n]
  BY <1>1 DEF LayerTypes, Last
<1>10. c # base_cuboid_id
  <2>1. base_cuboid_id \in Range(layers[1]) /\ 1 \in DOMAIN layers
    BY <1>1, <1>9 DEF LayerTypes, Range
  <2>2. QED
    BY <2>1 DEF Placed
<1>11. PICK p \in CuboidId, k \in Nat : Lists(p, k, c)
  BY <1>10, ListedWhere DEF Scanned
<1>12. p \in cuboid_ids /\ IsChildOf(c, p)
  BY <1>2, <1>11 DEF Lists, IsChildOf, TreeTypes
<1>13. c \subseteq p /\ c # p
  <2>1. OnTreeParent(c) = p /\ p # {} /\ c \in CuboidId
    BY <1>2, <1>11 DEF TreeInv, ListedByParent
  <2>2. p \in OnTreeParents(c)
    BY <1>2, <2>1, ParentIsChosen
  <2>3. QED
    BY <1>2, <2>1, <2>2, ParentFacts
<1>14. p \in Placed
  <2>1. IsFiniteSet(p)
    BY CuboidFacts
  <2>2. Cardinality(c) < Cardinality(p) /\ Cardinality(c) \in Nat /\ Cardinality(p) \in Nat
    BY <1>13, <2>1, FS_Subset, FS_CardinalityType
  <2>3. ~(Cardinality(p) <= Cardinality(c))
    BY <2>2
  <2>4. p \notin Missing
    BY <1>8, <2>3
  <2>5. QED
    BY <1>12, <2>4
<1>15. PICK i \in DOMAIN layers : p \in Range(layers[i])
  BY <1>14 DEF Placed
<1>16. CASE i = n
  BY <1>1, <1>9, <1>12, <1>15, <1>16
<1>17. CASE i # n
  <2>1. i + 1 \in DOMAIN layers \ {1} /\ (i + 1) - 1 = i
    BY <1>9, <1>17
  <2>2. c \in Range(layers[i + 1])
    BY <1>1, <1>12, <1>15, <2>1 DEF LayersAreChildren
  <2>3. QED
    BY <2>1, <2>2 DEF Placed
<1>18. QED
  BY <1>16, <1>17

\* With proper groups the layers hold every cuboid once, each a layer below its
\* parent: CHECK_EQ(total_num, cuboid_ids_.size()) holds.
THEOREM LayersHoldEveryCuboid ==
    ASSUME AggregationGroups \subseteq Seq(ProperGroups)
    PROVE  CubeSpec => []LayersHoldAll
<1>1. ASSUME TreeInv, AllOnTree, LayersInv PROVE LayersHoldAll
  <2>1. SUFFICES ASSUME phase = "done"
                 PROVE  /\ total_num = Cardinality(cuboid_ids)
                        /\ UNION {Range(layers[i]) : i \in DOMAIN layers} = cuboid_ids
                        /\ \A i \in DOMAIN layers \ {1} : \A c \in Range(layers[i]) :
                             \E p \in Range(layers[i - 1]) : c \in Range(ChildrenOf(p))
    BY DEF LayersHoldAll
  <2>2. LayerTypes /\ LayersAreChildren /\ total_num = Cardinality(Placed)
    BY <1>1, <2>1 DEF LayersInv, Layered
  <2>3. Placed = cuboid_ids
    BY <1>1, <2>1, AllPlaced
  <2>4. \A i \in DOMAIN layers : Range(layers[i]) \subseteq cuboid_ids
    <3>1. \A i \in DOMAIN layers : layers[i] \in Seq(cuboid_ids)
      BY <2>2 DEF LayerTypes
    <3>2. QED
      BY <3>1 DEF Range
  <2>5. UNION {Range(layers[i]) : i \in DOMAIN layers} = cuboid_ids
    BY <2>3, <2>4 DEF Placed
  <2>6. ASSUME NEW i \in DOMAIN layers \ {1}, NEW c \in Range(layers[i])
        PROVE  \E p \in Range(layers[i - 1]) : c \in Range(ChildrenOf(p))
    <3>1. c \in cuboid_ids
      BY <2>4
    <3>2. PICK p \in Range(layers[i - 1]) : IsChildOf(c, p)
      BY <2>2, <3>1 DEF LayersAreChildren
    <3>3. p \in cuboid_ids
      <4>1. i - 1 \in DOMAIN layers
        BY <2>2 DEF LayerTypes
      <4>2. QED
        BY <2>4, <4>1
    <3>4. QED
      BY <1>1, <3>2, <3>3, ChildrenFacts
  <2>7. QED
    BY <2>2, <2>3, <2>5, <2>6
<1>2. QED
  BY <1>1, TreeInvariance, AllOnTreeAlways, LayersInvariance, PTL

-----------------------------------------------------------------------------
(***************************************************************************)
(* find_best_match_cuboid.  A request that every group covers is           *)
(* translated to the least cuboid of a group's tree that has its columns.  *)
(* That cuboid is always collected, so the climb to an ancestor is never   *)
(* taken for such a request.                                               *)
(***************************************************************************)

\* All groups have all columns of the request.
Covered(c) == \A i \in DOMAIN aggs : c \subseteq aggs[i].full

\* What a request is translated to is collected: from a lowest cuboid of the
\* group one gets to it a dimension at a time, and no group ends the loop over
\* the groups on the way, since the cuboids on the way lack a column asked for.
LEMMA TranslatedIsCollected ==
    ASSUME AggregationGroups \subseteq Seq(ProperGroups),
           TreeInv, AllOnTree, phase \in Scanned,
           NEW c \in CuboidId \ {{}}, Covered(c), NEW i \in DOMAIN aggs
    PROVE  c \cup aggs[i].mandatory \in cuboid_ids
<1> DEFINE x == c \cup aggs[i].mandatory
           Below == {z \in cuboid_ids : z # {} /\ aggs[i].mandatory \subseteq z /\ z \subseteq x}
           Sizes == {Cardinality(z) : z \in Below}
<1>1. /\ aggs \in Seq(ProperGroups) /\ cuboid_ids \subseteq CuboidId
      /\ children = {} /\ phase # "lowest"
      /\ c \subseteq aggs[i].full /\ aggs[i].full \in CuboidId
      /\ aggs[i].mandatory \subseteq aggs[i].full /\ aggs[i].full # {}
  <2>1. aggs \in AggregationGroups /\ cuboid_ids \subseteq CuboidId
    BY DEF TreeInv, TreeTypes
  <2>2. children = {} /\ phase # "lowest"
    BY DEF TreeInv, Handed, Collecting, Scanned
  <2>3. aggs \in Seq(ProperGroups)
    BY <2>1
  <2>4. aggs[i] \in ProperGroups
    BY <2>3
  <2>5. QED
    BY <2>1, <2>2, <2>3, <2>4 DEF Covered, ProperGroups, AggregationGroup
<1>2. LowestCuboids \subseteq cuboid_ids
  BY <1>1 DEF AllOnTree
<1>3. x \in CuboidId /\ x \subseteq aggs[i].full
  BY <1>1 DEF CuboidId
<1>4. PICK z \in Below : TRUE
  <2>1. CASE aggs[i].mandatory # {}
    <3>1. aggs[i].mandatory \in cuboid_ids
      BY <1>1, <1>2, <2>1, LowestOnTree
    <3>2. QED
      BY <2>1, <3>1
  <2>2. CASE aggs[i].mandatory = {}
    <3>1. PICK d \in c : TRUE
      OBVIOUS
    <3>2. {d} \in ParentsInGroup({}, aggs[i])
      BY <1>1, <2>2, <3>1 DEF ParentsInGroup
    <3>3. \A j \in DOMAIN aggs : aggs[j].full # {}
      BY <1>1 DEF ProperGroups
    <3>4. {} # base_cuboid_id
      BY BitAssumption DEF base_cuboid_id
    <3>5. {d} \in LowestCuboids
      BY <3>2, <3>3, <3>4 DEF LowestCuboids, ParentsAmong
    <3>6. QED
      BY <1>2, <2>2, <3>5
  <2>3. QED
    BY <2>1, <2>2
<1>5. \A y \in Below : IsFiniteSet(y) /\ Cardinality(y) \in Nat /\ Cardinality(y) <= Cardinality(Bit)
  BY <1>1, BitAssumption, FS_Subset, FS_CardinalityType DEF CuboidId
<1>6. Sizes \in SUBSET Nat /\ Sizes # {} /\ \A s \in Sizes : s <= Cardinality(Bit)
  BY <1>4, <1>5
<1>7. Cardinality(Bit) \in Nat
  BY BitAssumption, FS_CardinalityType
<1>8. PICK s \in Sizes : \A t \in Sizes : t <= s
  <2> HIDE DEF Sizes
  <2>1. QED
    BY <1>6, <1>7, GreatestNumber
<1>9. PICK y \in Below : s = Cardinality(y)
  OBVIOUS
<1>10. \A w \in Below : Cardinality(w) <= Cardinality(y)
  BY <1>8, <1>9
<1> HIDE DEF Sizes
<1>11. ASSUME y # x PROVE FALSE
  <2>1. /\ y \in cuboid_ids /\ y \in CuboidId /\ y # {} /\ y \subseteq x
        /\ aggs[i].mandatory \subseteq y /\ y # base_cuboid_id
    BY <1>1, <1>3, <1>11 DEF base_cuboid_id, CuboidId
  <2>2. PICK d \in x \ y : TRUE
    BY <1>11, <2>1
  <2>3. y \cup {d} \in ParentsInGroup(y, aggs[i])
    BY <1>3, <2>1, <2>2 DEF ParentsInGroup
  <2>4. IsOnTree(aggs[i], y)
    BY <1>3, <2>1 DEF IsOnTree, CheckMandatoryColumns
  <2>5. \A j \in DOMAIN aggs : aggs[j].full # y
    <3>1. ASSUME NEW j \in DOMAIN aggs, aggs[j].full = y PROVE FALSE
      <4>1. c \subseteq y
        BY <3>1 DEF Covered
      <4>2. QED
        BY <1>11, <2>1, <4>1
    <3>2. QED
      BY <3>1
  <2>6. y \cup {d} \in OnTreeParents(y)
    BY <2>1, <2>3, <2>4, <2>5 DEF OnTreeParents, ParentsAmong
  <2>7. y \cup {d} \in Below
    <3>1. y \cup {d} \in cuboid_ids
      BY <1>1, <2>1, <2>6 DEF TreeInv, ParentsCollected
    <3>2. QED
      BY <2>1, <2>2, <3>1
  <2>8. Cardinality(y \cup {d}) = Cardinality(y) + 1
    BY <1>5, <2>2, FS_AddElement
  <2>9. QED
    BY <1>5, <1>10, <2>7, <2>8
<1>12. QED
  BY <1>11

\* With proper groups, a request that every group covers is answered from the
\* least cuboid of the cube that has its columns.
THEOREM BestMatchIsFound ==
    ASSUME AggregationGroups \subseteq Seq(ProperGroups)
    PROVE  CubeSpec => []BestMatchAnswers
<1>1. ASSUME TreeInv, AllOnTree, phase = "done",
             NEW c \in CuboidId \ {{}}, Covered(c), NEW best, best = FindBestMatchCuboid(c)
      PROVE  /\ best \in cuboid_ids
             /\ c \subseteq best
             /\ \A d \in cuboid_ids \ {best} : c \subseteq d => CuboidSelectLess(best, d)
  <2> DEFINE Translated == {TranslateToOnTree(aggs[i], c) : i \in DOMAIN aggs}
             least == LeastCuboid(Translated)
  <2>1. /\ cuboid_ids \subseteq CuboidId /\ base_cuboid_id \in cuboid_ids /\ children = {}
        /\ phase \in Scanned /\ aggs \in Seq(ProperGroups)
    BY <1>1 DEF TreeInv, TreeTypes, Handed, Collecting, Scanned
  <2>2. CASE c \in cuboid_ids
    <3>1. best = c
      BY <1>1, <2>2 DEF FindBestMatchCuboid
    <3>2. QED
      BY <2>1, <2>2, <3>1, SmallerFirst
  <2>3. CASE c \notin cuboid_ids /\ aggs = <<>>
    <3>1. best = base_cuboid_id
      BY <1>1, <2>3 DEF FindBestMatchCuboid
    <3>2. \A d \in cuboid_ids : d = base_cuboid_id
      <4>1. DOMAIN aggs = {}
        BY <2>3
      <4>2. QED
        BY <1>1, <4>1 DEF AllOnTree, OnSomeTree
    <3>3. c \subseteq base_cuboid_id
      BY DEF base_cuboid_id, CuboidId
    <3>4. QED
      BY <2>1, <3>1, <3>2, <3>3
  <2>4. CASE c \notin cuboid_ids /\ aggs # <<>>
    <3>1. \A i \in DOMAIN aggs : TranslateToOnTree(aggs[i], c) = c \cup aggs[i].mandatory
      BY <1>1 DEF TranslateToOnTree, Covered
    <3>2. ASSUME NEW t \in Translated PROVE t \in cuboid_ids /\ c \subseteq t
      <4>1. PICK i \in DOMAIN aggs : t = c \cup aggs[i].mandatory
        BY <3>1
      <4>2. QED
        BY <1>1, <2>1, <4>1, TranslatedIsCollected
    <3>3. DOMAIN aggs # {}
      BY <2>1, <2>4
    <3>4. Translated # {} /\ Translated \in SUBSET CuboidId
      BY <2>1, <3>2, <3>3
    <3>5. FindBestMatchCuboid(c) = IF least \in cuboid_ids THEN least ELSE ValidAncestor(least)
      BY <2>4 DEF FindBestMatchCuboid
    <3> DEFINE IsLeast(p) == \A q \in Translated \ {p} : CuboidSelectLess(p, q)
    <3>6. least \in Translated /\ IsLeast(least)
      <4> HIDE DEF Translated
      <4>1. \E p \in Translated : IsLeast(p)
        BY <3>4, LeastSelected
      <4>2. least = CHOOSE p \in Translated : IsLeast(p)
        BY DEF LeastCuboid
      <4> HIDE DEF IsLeast, least
      <4>3. QED
        BY <4>1, <4>2
    <3>7. best = least /\ best \in cuboid_ids /\ c \subseteq best
      BY <1>1, <3>2, <3>5, <3>6
    <3>8. ASSUME NEW d \in cuboid_ids \ {best}, c \subseteq d PROVE CuboidSelectLess(best, d)
      <4>1. PICK t \in Translated : t \subseteq d
        <5>1. CASE d = base_cuboid_id
          <6>1. \A t \in Translated : t \subseteq d
            BY <2>1, <3>2, <5>1 DEF base_cuboid_id, CuboidId
          <6>2. QED
            BY <3>4, <6>1
        <5>2. CASE d # base_cuboid_id
          <6>1. PICK i \in DOMAIN aggs : IsOnTree(aggs[i], d)
            BY <1>1, <5>2 DEF AllOnTree, OnSomeTree
          <6>2. c \cup aggs[i].mandatory \subseteq d
            BY <3>8, <6>1 DEF IsOnTree, CheckMandatoryColumns
          <6>3. TranslateToOnTree(aggs[i], c) \in Translated
            OBVIOUS
          <6>4. QED
            BY <3>1, <6>2, <6>3
        <5>3. QED
          BY <5>1, <5>2
      <4>2. /\ t \in CuboidId /\ d \in CuboidId /\ best \in CuboidId
            /\ t = best \/ CuboidSelectLess(best, t)
            /\ t = d \/ CuboidSelectLess(t, d)
        BY <2>1, <3>2, <3>6, <3>7, <4>1, SmallerFirst
      <4>3. QED
        BY <3>8, <4>2, SelectOrder
    <3>9. QED
      BY <3>7, <3>8
  <2>5. QED
    BY <2>2, <2>3, <2>4
<1>2. TreeInv /\ AllOnTree => BestMatchAnswers
  BY <1>1 DEF BestMatchAnswers, Covered
<1>3. QED
  BY <1>2, TreeInvariance, AllOnTreeAlways, PTL
-----------------------------------------------------------------------------
(***************************************************************************)
(* A cube has one of the two schedulers: what is proved of the one that is *)
(* given its list holds in a cube.                                         *)
(***************************************************************************)

\* The instance that CubeInstance has is the one the lemmas are about.
LEMMA ListedOperators ==
    /\ Listed!Next <=> Tree!Next
    /\ Listed!Init <=> Tree!Init
    /\ UNCHANGED treeSchedulerVars => UNCHANGED Listed!vars
<1>1. \A list \in CuboidLists : Listed!InitCuboidTree(list) <=> Tree!InitCuboidTree(list)
  BY DEF Listed!InitCuboidTree, Listed!SetRoot, Listed!GreatestId, Listed!IdLess,
         Tree!InitCuboidTree, Tree!SetRoot, Tree!GreatestId, Tree!IdLess
<1>2. Listed!AddCuboid <=> Tree!AddCuboid
  BY DEF Listed!AddCuboid, Listed!NextCuboid, Listed!GreatestId, Listed!FindBestParent,
         Listed!Children, Listed!CanDerive, Listed!LeastId, Listed!IdLess, Listed!AddChild,
         Tree!AddCuboid, Tree!NextCuboid, Tree!GreatestId, Tree!FindBestParent,
         Tree!Children, Tree!CanDerive, Tree!LeastId, Tree!IdLess, Tree!AddChild
<1>3. Listed!BuildIndex <=> Tree!BuildIndex
  BY DEF Listed!BuildIndex, Tree!BuildIndex
<1>4. Listed!GetCuboidsByLayer <=> Tree!GetCuboidsByLayer
  BY DEF Listed!GetCuboidsByLayer, Listed!LayersOfTree, Listed!Layer, Listed!Children,
         Listed!AllCuboidIds, Listed!base_cuboid_id, Listed!Cardinality,
         Listed!MapThenSumSet, Listed!MapThenFoldSet,
         Tree!GetCuboidsByLayer, Tree!LayersOfTree, Tree!Layer, Tree!Children,
         Tree!AllCuboidIds, Tree!base_cuboid_id, Tree!Cardinality,
         Tree!MapThenSumSet, Tree!MapThenFoldSet
<1>5. Listed!Init <=> Tree!Init
  BY DEF Listed!Init, Tree!Init
<1>6. UNCHANGED treeSchedulerVars => UNCHANGED Listed!vars
  BY DEF Listed!vars, treeSchedulerVars
<1>7. QED
  BY <1>1, <1>2, <1>3, <1>4, <1>5, <1>6 DEF Listed!Next, Tree!Next

\* A step of a cube is a step of its scheduler.
LEMMA ListedStep ==
    ASSUME [CubeNext]_cubeVars
    PROVE  [Listed!Next]_Listed!vars
<1>1. CASE TreeCuboidSchedulerStep
  BY <1>1, ListedOperators DEF TreeCuboidSchedulerStep
<1>2. CASE CuboidSchedulerStep \/ UNCHANGED cubeVars
  BY <1>2, ListedOperators DEF CuboidSchedulerStep, cubeVars
<1>3. QED
  BY <1>1, <1>2 DEF CubeNext

\* The invariant of the tree that is built from a list, in a cube.
THEOREM ListedInvariance == CubeSpec => []Listed!ListInv
<1>1. Listed!ProperLists
  BY ListsAssumption DEF Listed!ProperLists, Listed!CuboidId, CuboidId
<1>2. NewCubeInstance => Listed!ListInv
  BY InitsAssumption, ListedOperators, ListedBits, Listed!ListInvInit DEF NewCubeInstance
<1>3. Listed!ListInv /\ [CubeNext]_cubeVars => Listed!ListInv'
  BY <1>1, InitsAssumption, ListedStep, ListedBits, Listed!ListInvStep
<1>4. QED
  BY <1>2, <1>3, PTL DEF CubeSpec

\* The variables of both schedulers keep their types.
THEOREM TypesCorrect == CubeSpec => []TypesOK
<1>1. Listed!TypeOK => Tree!TypeOK
  BY DEF Listed!TypeOK, Listed!CuboidId, Tree!TypeOK, Tree!CuboidId
<1>2. TypeOK /\ Listed!ListInv => TypesOK
  BY <1>1, ListedBits, Listed!ListTypeOK DEF TypesOK
<1>3. QED
  BY <1>2, TypeCorrect, ListedInvariance, PTL

\* The base cuboid is in the list, when it is in every list.
LEMMA BaseAlwaysListed ==
    ASSUME \A list \in CuboidLists : base_cuboid_id \in list
    PROVE  CubeSpec => []Listed!BaseListed
<1>1. NewCubeInstance => Listed!BaseListed
  BY DEF NewCubeInstance, Tree!Init, Listed!BaseListed
<1>2. \A list \in CuboidLists : Listed!base_cuboid_id \in list
  BY DEF Listed!base_cuboid_id, base_cuboid_id
<1>3. Listed!BaseListed /\ [CubeNext]_cubeVars => Listed!BaseListed'
  BY <1>2, ListedBits, ListedStep, Listed!BaseListedStep
<1>4. QED
  BY <1>1, <1>3, PTL DEF CubeSpec

\* When every list has the base cuboid, a cuboid of the tree is computed from
\* the least cuboid of the list that has its columns and more: the node that
\* add_cuboid found for it is not outdone by one added later.
THEOREM ParentsAreTheLeast ==
    ASSUME \A list \in CuboidLists : base_cuboid_id \in list
    PROVE  CubeSpec => []ParentsAreLeast
<1>1. Listed!ParentsAreLeast => ParentsAreLeast
  BY DEF Listed!ParentsAreLeast, Listed!LeastId, Listed!IdLess,
         ParentsAreLeast, Tree!ParentsAreLeast, Tree!LeastId, Tree!IdLess
<1>2. Listed!ListInv /\ Listed!BaseListed => ParentsAreLeast
  BY <1>1, ListedBits, Listed!ListParentsAreLeast
<1>3. QED
  BY <1>2, BaseAlwaysListed, ListedInvariance, PTL

\* Then the layers of a tree that is built add up to it: the CHECKs of
\* get_cuboids_by_layer do not fail.
THEOREM LayersAddUpToTheTree ==
    ASSUME \A list \in CuboidLists : base_cuboid_id \in list
    PROVE  CubeSpec => LayersAddUp
<1>1. ASSUME Listed!ListInv, Listed!BaseListed, [CubeNext]_cubeVars, tree_phase = "built"
      PROVE  tree_phase' # "aborted"
  <2>1. CASE Listed!GetCuboidsByLayer
    BY <1>1, <2>1, ListedBits, Listed!BuiltIsChecked
  <2>2. CASE UNCHANGED Listed!vars
    BY <1>1, <2>2 DEF Listed!vars
  <2>3. QED
    BY <1>1, <2>1, <2>2, ListedStep
    DEF Listed!Next, Listed!InitCuboidTree, Listed!AddCuboid, Listed!BuildIndex
<1>2. Listed!ListInv /\ Listed!BaseListed /\ [CubeNext]_cubeVars
         => [tree_phase = "built" => tree_phase' # "aborted"]_cubeVars
  BY <1>1
<1>3. QED
  BY <1>2, BaseAlwaysListed, ListedInvariance, PTL DEF CubeSpec, LayersAddUp

\* With proper groups, and for a scheduler that is given one list, which has the
\* base cuboid, the layers of either scheduler hold every cuboid once, on the
\* layer of its level, and get_cuboid_count counts them all.
THEOREM LayersAreTheWholeTree ==
    ASSUME AggregationGroups \subseteq Seq(ProperGroups),
           \A list \in CuboidLists : base_cuboid_id \in list, MaxInits \in {0, 1}
    PROVE  CubeSpec => []LayersAreTheTree
<1>1. NewCubeInstance => Listed!LayersKept
  BY DEF NewCubeInstance, Tree!Init, Listed!LayersKept
<1>2. Listed!ListInv /\ Listed!BaseListed /\ Listed!LayersKept /\ [CubeNext]_cubeVars
         => Listed!LayersKept'
  BY ListedBits, ListedStep, Listed!LayersKeptStep
<1>3. CubeSpec => []Listed!LayersKept
  BY <1>1, <1>2, BaseAlwaysListed, ListedInvariance, PTL DEF CubeSpec
<1>4. Listed!LayersOfTheTree => Tree!LayersOfTheTree
  BY DEF Listed!LayersOfTheTree, Listed!AllCuboidIds, Listed!CuboidCount, Listed!Children,
         Listed!base_cuboid_id, Listed!Cardinality, Listed!MapThenSumSet, Listed!MapThenFoldSet,
         Tree!LayersOfTheTree, Tree!AllCuboidIds, Tree!CuboidCount, Tree!Children,
         Tree!base_cuboid_id, Tree!Cardinality, Tree!MapThenSumSet, Tree!MapThenFoldSet
<1>5. LayersHoldAll /\ Listed!ListInv /\ Listed!BaseListed /\ Listed!LayersKept
         => LayersAreTheTree
  BY <1>4, ListedBits, Listed!KeptLayersOfTheTree DEF LayersAreTheTree
<1>6. QED
  BY <1>3, <1>5, LayersHoldEveryCuboid, BaseAlwaysListed, ListedInvariance, PTL

\* With proper groups, a request that every group covers is answered from the
\* least cuboid of the cube that has its columns; so is every request by the tree
\* of a list that has the base cuboid.
THEOREM BestMatchIsTheBest ==
    ASSUME AggregationGroups \subseteq Seq(ProperGroups)
    PROVE  CubeSpec => []BestMatchIsBest
<1>1. Listed!BestMatchIsLeast => Tree!BestMatchIsLeast
  BY DEF Listed!BestMatchIsLeast, Listed!FindBestMatchCuboid, Listed!IsValid,
         Listed!FindBestParent, Listed!Children, Listed!CanDerive, Listed!LeastId, Listed!IdLess,
         Listed!base_cuboid_id, Listed!CuboidId,
         Tree!BestMatchIsLeast, Tree!FindBestMatchCuboid, Tree!IsValid,
         Tree!FindBestParent, Tree!Children, Tree!CanDerive, Tree!LeastId, Tree!IdLess,
         Tree!base_cuboid_id, Tree!CuboidId
<1>2. BestMatchAnswers /\ Listed!ListInv => BestMatchIsBest
  BY <1>1, ListedBits, Listed!ListBestMatch DEF BestMatchIsBest
<1>3. QED
  BY <1>2, BestMatchIsFound, ListedInvariance, PTL
=============================================================================
