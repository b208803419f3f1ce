------------------------- MODULE TreeCuboidsProofs -------------------------
(***************************************************************************)
(* TreeCuboidScheduler, for any columns and any lists of cuboids: what     *)
(* find_best_parent finds in a tree, and what tree create_from_cuboids     *)
(* makes of a list.                                                        *)
(***************************************************************************)
EXTENDS TreeCuboids, RecursionTheorems

(***************************************************************************)
(* The order of cuboids as numbers.                                        *)
(***************************************************************************)

\* A cuboid has finitely many bits, and there are finitely many cuboids.
LEMMA CuboidFacts ==
    ASSUME NEW c \in CuboidId
    PROVE  /\ c \in SUBSET Nat /\ IsFiniteSet(c) /\ Cardinality(c) \in Nat
           /\ IsFiniteSet(CuboidId) /\ IsFiniteSet(Bit)
  BY BitAssumption, FS_Subset, FS_SUBSET, FS_CardinalityType DEF CuboidId

\* The greatest of a set of bits.
LEMMA GreatestBit ==
    ASSUME NEW D \in CuboidId, D # {}
    PROVE  \E m \in D : \A n \in D : n <= m
<1>1. D \in SUBSET Nat /\ IsFiniteSet(D)
  BY CuboidFacts
<1>2. QED
  BY <1>1, MaxFacts

\* Of two numbers the smaller one lacks the highest bit they differ in.
LEMMA IdLessMeans ==
    ASSUME NEW c \in CuboidId, NEW d \in CuboidId
    PROVE  IdLess(c, d) <=>
              \E i \in d \ c : \A j \in Bit : i < j => (j \in c <=> j \in d)
<1>0. c \in SUBSET Bit /\ d \in SUBSET Bit /\ Bit \in SUBSET Nat
  BY BitAssumption DEF CuboidId
<1>1. ASSUME IdLess(c, d)
      PROVE  \E i \in d \ c : \A j \in Bit : i < j => (j \in c <=> j \in d)
  <2>1. PICK i \in d \ c : \A j \in c \ d : j < i
    BY <1>1 DEF IdLess
  <2>2. d \ c \in CuboidId /\ d \ c # {}
    BY <2>1 DEF CuboidId
  <2>3. PICK m \in d \ c : \A n \in d \ c : n <= m
    BY <2>2, GreatestBit
  <2>4. ASSUME NEW j \in Bit, m < j PROVE j \in c <=> j \in d
    <3>1. i <= m /\ m \in Nat /\ i \in Nat /\ j \in Nat
      BY <1>0, <2>1, <2>3
    <3>2. j \in d => j \in c
      BY <2>3, <2>4, <3>1
    <3>3. j \in c => j \in d
      BY <2>1, <2>4, <3>1
    <3>4. QED
      BY <3>2, <3>3
  <2>5. QED
    BY <2>4
<1>2. ASSUME NEW i \in d \ c, \A j \in Bit : i < j => (j \in c <=> j \in d)
      PROVE  IdLess(c, d)
  <2>1. ASSUME NEW j \in c \ d PROVE j < i
    <3>1. j \in Nat /\ i \in Nat /\ j \in Bit /\ j # i
      BY <1>0, <1>2
    <3>2. ~(i < j)
      BY <1>2, <3>1
    <3>3. QED
      BY <3>1, <3>2
  <2>2. QED
    BY <2>1 DEF IdLess
<1>3. QED
  BY <1>1, <1>2

\* The numbers are ordered.
LEMMA IdOrder ==
    /\ \A c \in CuboidId : ~IdLess(c, c)
    /\ \A c, d \in CuboidId : c # d => IdLess(c, d) \/ IdLess(d, c)
    /\ \A a, b, c \in CuboidId : IdLess(a, b) /\ IdLess(b, c) => IdLess(a, c)
<1>0. Bit \in SUBSET Nat
  BY BitAssumption
<1>1. \A c \in CuboidId : ~IdLess(c, c)
  BY DEF IdLess
<1>2. ASSUME NEW c \in CuboidId, NEW d \in CuboidId, c # d
      PROVE  IdLess(c, d) \/ IdLess(d, c)
  <2> DEFINE D == (c \ d) \cup (d \ c)
  <2>1. D \in CuboidId /\ D # {}
    BY <1>2 DEF CuboidId
  <2>2. PICK m \in D : \A n \in D : n <= m
    <3> HIDE DEF D
    <3>1. QED
      BY <2>1, GreatestBit
  <2>3. m \in Nat /\ D \subseteq Nat
    BY <1>0, <2>1 DEF CuboidId
  <2>4. \A j \in Bit : m < j => (j \in c <=> j \in d)
    <3>1. ASSUME NEW j \in Bit, m < j PROVE j \notin D
      <4> HIDE DEF D
      <4>1. QED
        BY <1>0, <2>2, <2>3, <3>1
    <3>2. QED
      BY <3>1
  <2>5. QED
    BY <1>2, <2>4, IdLessMeans
<1>3. ASSUME NEW a \in CuboidId, NEW b \in CuboidId, NEW c \in CuboidId,
             IdLess(a, b), IdLess(b, c)
      PROVE  IdLess(a, c)
  <2>1. PICK i \in b \ a : \A j \in Bit : i < j => (j \in a <=> j \in b)
    BY <1>3, IdLessMeans
  <2>2. PICK k \in c \ b : \A j \in Bit : k < j => (j \in b <=> j \in c)
    BY <1>3, IdLessMeans
  <2>3. i \in Bit /\ k \in Bit /\ i \in Nat /\ k \in Nat /\ i # k
    BY <1>0 DEF CuboidId
  <2>4. CASE k < i
    <3>1. i \in c \ a
      BY <2>2, <2>3, <2>4
    <3>2. \A j \in Bit : i < j => (j \in a <=> j \in c)
      BY <1>0, <2>1, <2>2, <2>3, <2>4
    <3>3. QED
      BY <1>3, <3>1, <3>2, IdLessMeans
  <2>5. CASE i < k
    <3>1. k \in c \ a
      BY <2>1, <2>3, <2>5
    <3>2. \A j \in Bit : k < j => (j \in a <=> j \in c)
      BY <1>0, <2>1, <2>2, <2>3, <2>5
    <3>3. QED
      BY <1>3, <3>1, <3>2, IdLessMeans
  <2>6. QED
    BY <2>3, <2>4, <2>5
<1>4. QED
  BY <1>1, <1>2, <1>3

\* As a number a subset is less.
LEMMA SubsetIsLess ==
    ASSUME NEW c \in CuboidId, NEW d \in CuboidId, c \subseteq d, c # d
    PROVE  IdLess(c, d) /\ ~IdLess(d, c)
<1>1. PICK i \in d \ c : TRUE
  OBVIOUS
<1>2. IdLess(c, d)
  BY <1>1 DEF IdLess
<1>3. QED
  BY <1>2, IdOrder

\* A set of cuboids has a least and a greatest number.
LEMMA LeastAndGreatest ==
    ASSUME NEW S \in SUBSET CuboidId, S # {}
    PROVE  /\ \E p \in S : \A q \in S \ {p} : IdLess(p, q)
           /\ \E p \in S : \A q \in S \ {p} : IdLess(q, p)
<1> DEFINE R == {pair \in CuboidId \X CuboidId : IdLess(pair[1], pair[2])}
           Q == {pair \in CuboidId \X CuboidId : IdLess(pair[2], pair[1])}
<1>1. IsFiniteSet(S)
  BY CuboidFacts, FS_Subset
<1>2. \A a, b \in S : (<<a, b>> \in R <=> IdLess(a, b)) /\ (<<a, b>> \in Q <=> IdLess(b, a))
  OBVIOUS
<1> HIDE DEF R, Q
<1>3. \A a \in S : ~IdLess(a, a)
  BY IdOrder
<1>4. \A a, b \in S : a # b => IdLess(a, b) \/ IdLess(b, a)
  BY IdOrder
<1>5. \A a, b, c \in S : IdLess(a, b) /\ IdLess(b, c) => IdLess(a, c)
  BY IdOrder
<1>6. \E p \in S : \A q \in S \ {p} : <<p, q>> \in R
  <2>1. /\ \A a \in S : <<a, a>> \notin R
        /\ \A a, b \in S : a # b => <<a, b>> \in R \/ <<b, a>> \in R
    BY <1>2, <1>3, <1>4
  <2>2. \A a, b, c \in S : <<a, b>> \in R /\ <<b, c>> \in R => <<a, c>> \in R
    BY <1>2, <1>5
  <2>3. QED
    BY <1>1, <2>1, <2>2, LeastOfOrdered
<1>7. \E p \in S : \A q \in S \ {p} : <<p, q>> \in Q
  <2>1. /\ \A a \in S : <<a, a>> \notin Q
        /\ \A a, b \in S : a # b => <<a, b>> \in Q \/ <<b, a>> \in Q
    BY <1>2, <1>3, <1>4
  <2>2. \A a, b, c \in S : <<a, b>> \in Q /\ <<b, c>> \in Q => <<a, c>> \in Q
    BY <1>2, <1>5
  <2>3. QED
    BY <1>1, <2>1, <2>2, LeastOfOrdered
<1>8. QED
  BY <1>2, <1>6, <1>7

-----------------------------------------------------------------------------
(***************************************************************************)
(* What is found in a tree, and what tree is made of a list.               *)
(***************************************************************************)

\* The lists are lists of cuboids, and none is empty.
ProperLists == \A list \in CuboidLists : list \subseteq CuboidId /\ list # {}

\* What LeastId and GreatestId choose.
LEMMA IdsFacts ==
    ASSUME NEW S \in SUBSET CuboidId, S # {}
    PROVE  /\ LeastId(S) \in S /\ \A d \in S \ {LeastId(S)} : IdLess(LeastId(S), d)
           /\ GreatestId(S) \in S /\ \A d \in S \ {GreatestId(S)} : IdLess(d, GreatestId(S))
<1> DEFINE IsLeast(p) == \A q \in S \ {p} : IdLess(p, q)
           IsGreatest(p) == \A q \in S \ {p} : IdLess(q, p)
<1>1. (\E p \in S : IsLeast(p)) /\ (\E p \in S : IsGreatest(p))
  BY LeastAndGreatest
<1>2. LeastId(S) = CHOOSE p \in S : IsLeast(p)
  BY DEF LeastId
<1>3. GreatestId(S) = CHOOSE p \in S : IsGreatest(p)
  BY DEF GreatestId
<1> HIDE DEF IsLeast, IsGreatest
<1>4. LeastId(S) \in S /\ IsLeast(LeastId(S)) /\ GreatestId(S) \in S /\ IsGreatest(GreatestId(S))
  BY <1>1, <1>2, <1>3
<1>5. QED
  BY <1>4 DEF IsLeast, IsGreatest

\* There is one least.
LEMMA LeastIdIs ==
    ASSUME NEW S \in SUBSET CuboidId, NEW p \in S, \A d \in S \ {p} : IdLess(p, d)
    PROVE  LeastId(S) = p
<1>1. LeastId(S) \in S /\ \A d \in S \ {LeastId(S)} : IdLess(LeastId(S), d)
  BY IdsFacts
<1>2. ASSUME LeastId(S) # p PROVE FALSE
  <2>1. IdLess(p, LeastId(S)) /\ IdLess(LeastId(S), p)
    BY <1>1, <1>2
  <2>2. p \in CuboidId /\ LeastId(S) \in CuboidId
    BY <1>1
  <2>3. QED
    BY <2>1, <2>2, IdOrder
<1>3. QED
  BY <1>2

-----------------------------------------------------------------------------
(***************************************************************************)
(* find_best_parent, in any tree where a parent has the columns of its     *)
(* children and more.                                                      *)
(***************************************************************************)

IsTree ==
    /\ DOMAIN nodes \subseteq CuboidId
    /\ root \in DOMAIN nodes
    /\ \A x \in DOMAIN nodes \ {root} :
          nodes[x].parent \in DOMAIN nodes /\ x \subseteq nodes[x].parent /\ x # nodes[x].parent

\* What do_find_best_parent gives for the node p, when best is what it gives for
\* the nodes below.
BestBelow(c, p, best) ==
    LET candidates == UNION {best[child] : child \in Children(p)}
    IN  IF ~CanDerive(c, p) THEN {}
        ELSE IF candidates = {} THEN {p} ELSE {LeastId(candidates)}

IsBest(c, best) == best = [p \in DOMAIN nodes |-> BestBelow(c, p, best)]

\* A child is a smaller cuboid than its parent.
LEMMA ChildIsSmaller ==
    ASSUME IsTree, NEW p \in DOMAIN nodes, NEW q \in Children(p)
    PROVE  /\ q \in DOMAIN nodes /\ q \in CuboidId /\ p \in CuboidId /\ q \subseteq p /\ q # p
           /\ Cardinality(q) \in Nat /\ Cardinality(p) \in Nat /\ Cardinality(q) < Cardinality(p)
<1>1. q \in DOMAIN nodes /\ q \in CuboidId /\ p \in CuboidId /\ q \subseteq p /\ q # p
  BY DEF IsTree, Children
<1>2. IsFiniteSet(p)
  BY <1>1, CuboidFacts
<1>3. QED
  BY <1>1, <1>2, FS_Subset, FS_CardinalityType

\* The recursion ends: what it comes to is a function.
LEMMA BestExists ==
    ASSUME IsTree, NEW c \in CuboidId
    PROVE  \E best : IsBest(c, best)
<1> DEFINE N == DOMAIN nodes
           V == [N -> SUBSET CuboidId]
           z == [p \in N |-> {}]
           next(v) == [p \in N |-> BestBelow(c, p, v)]
           step == [i \in Nat |-> [v \in V |-> next(v)]]
           b == Cardinality(Bit)
<1>1. b \in Nat
  BY BitAssumption, FS_CardinalityType
<1>2. z \in V
  OBVIOUS
<1>3. ASSUME NEW v \in V PROVE next(v) \in V
  <2>1. ASSUME NEW p \in N PROVE BestBelow(c, p, v) \in SUBSET CuboidId
    <3> DEFINE candidates == UNION {v[child] : child \in Children(p)}
    <3>1. candidates \in SUBSET CuboidId /\ p \in CuboidId
      BY DEF Children, IsTree
    <3>2. candidates # {} => LeastId(candidates) \in CuboidId
      <4> HIDE DEF candidates
      <4>1. QED
        BY <3>1, IdsFacts
    <3>3. QED
      BY <3>1, <3>2 DEF BestBelow
  <2>2. QED
    BY <2>1
<1>4. step \in [Nat -> [V -> V]]
  <2> HIDE DEF V, next
  <2>1. QED
    BY <1>3
<1>5. b + 2 \in Nat
  BY <1>1
<1>6. PICK h : Computes(h, b + 2, V, z, step)
  <2> HIDE DEF V, z, step, b
  <2>1. QED
    BY <1>2, <1>4, <1>5, RecursionExists
<1>7. \A i \in 0 .. b + 2 : h[i] \in V
  BY <1>6 DEF Computes
<1>8. ASSUME NEW i \in 0 .. b + 1 PROVE h[i + 1] = next(h[i])
  <2>1. i + 1 \in 1 .. b + 2 /\ i + 1 \in Nat /\ (i + 1) - 1 = i /\ i \in 0 .. b + 2
    BY <1>1
  <2>2. h[i + 1] = step[i + 1][h[i]]
    BY <1>6, <2>1 DEF Computes
  <2> HIDE DEF V, next
  <2>3. QED
    BY <1>7, <2>1, <2>2
<1> DEFINE Settled(i) == \A p \in N : Cardinality(p) <= i => h[i + 1][p] = h[i + 2][p]
           Fixed == {i \in Nat : i <= b => Settled(i)}
<1>9. \A p \in N : p \in CuboidId /\ Cardinality(p) \in Nat /\ Cardinality(p) <= b
  BY BitAssumption, FS_Subset, FS_CardinalityType DEF IsTree, CuboidId
<1>10. ASSUME NEW i \in 0 .. b, \A p \in N : Cardinality(p) < i => h[i][p] = h[i + 1][p]
       PROVE  Settled(i)
  <2>1. i \in 0 .. b + 1 /\ i + 1 \in 0 .. b + 1 /\ i \in Nat /\ (i + 1) + 1 = i + 2
    BY <1>1
  <2>2. h[i + 1] = next(h[i]) /\ h[i + 2] = next(h[i + 1])
    BY <1>8, <2>1
  <2>3. ASSUME NEW p \in N, Cardinality(p) <= i PROVE h[i + 1][p] = h[i + 2][p]
    <3>1. \A q \in Children(p) : h[i][q] = h[i + 1][q]
      <4>1. ASSUME NEW q \in Children(p) PROVE q \in N /\ Cardinality(q) < i
        BY <2>1, <2>3, ChildIsSmaller
      <4>2. QED
        BY <1>10, <4>1
    <3>2. BestBelow(c, p, h[i]) = BestBelow(c, p, h[i + 1])
      <4>1. {h[i][child] : child \in Children(p)} = {h[i + 1][child] : child \in Children(p)}
        BY <3>1
      <4>2. QED
        BY <4>1 DEF BestBelow
    <3>3. QED
      BY <2>2, <3>2
  <2>4. QED
    BY <2>3
<1>11. 0 \in Fixed
  <2>1. \A p \in N : ~(Cardinality(p) < 0)
    BY <1>9
  <2>2. 0 \in 0 .. b
    BY <1>1
  <2>3. QED
    BY <1>10, <2>1, <2>2
<1>12. ASSUME NEW i \in Nat, i \in Fixed PROVE i + 1 \in Fixed
  <2>1. SUFFICES ASSUME i + 1 <= b PROVE Settled(i + 1)
    OBVIOUS
  <2>2. i <= b /\ i + 1 \in 0 .. b /\ (i + 1) + 1 = i + 2
    BY <1>1, <2>1
  <2>3. Settled(i)
    BY <1>12, <2>2
  <2>4. \A p \in N : Cardinality(p) < i + 1 => h[i + 1][p] = h[(i + 1) + 1][p]
    <3>1. ASSUME NEW p \in N, Cardinality(p) < i + 1 PROVE Cardinality(p) <= i
      BY <1>9, <3>1
    <3>2. QED
      BY <2>2, <2>3, <3>1
  <2>5. QED
    BY <1>10, <2>2, <2>4
<1>13. Settled(b)
  <2>1. Nat \subseteq Fixed
    <3> HIDE DEF Fixed
    <3>1. QED
      BY <1>11, <1>12, InductionOnSets
  <2>2. b <= b
    BY <1>1
  <2>3. QED
    BY <1>1, <2>1, <2>2
<1>14. h[b + 1] = h[b + 2]
  <2>1. \A p \in N : h[b + 1][p] = h[b + 2][p]
    BY <1>9, <1>13
  <2>2. h[b + 1] \in V /\ h[b + 2] \in V
    BY <1>1, <1>7
  <2>3. QED
    BY <2>1, <2>2
<1>15. h[b + 2] = next(h[b + 1])
  <2>1. b + 1 \in 0 .. b + 1 /\ (b + 1) + 1 = b + 2
    BY <1>1
  <2>2. QED
    BY <1>8, <2>1
<1>16. IsBest(c, h[b + 1])
  BY <1>14, <1>15 DEF IsBest
<1>17. QED
  BY <1>16

\* What find_best_parent gives: nothing to a cuboid that the root does not
\* cover, and the least node that covers it to any other.
LEMMA BestParent ==
    ASSUME IsTree, NEW c \in CuboidId
    PROVE  /\ ~(c \subseteq root) => FindBestParent(c) = {}
           /\ c \subseteq root => FindBestParent(c) = {LeastId({d \in DOMAIN nodes : c \subseteq d})}
<1> DEFINE N == DOMAIN nodes
           covering == {d \in N : c \subseteq d}
           best == CHOOSE g : IsBest(c, g)
<1>1. FindBestParent(c) = best[root]
  BY DEF FindBestParent, IsBest, BestBelow
<1>2. IsBest(c, best)
  BY BestExists
<1>3. \A p \in N : best[p] = BestBelow(c, p, best)
  BY <1>2 DEF IsBest
<1> HIDE DEF best
<1>4. root \in N /\ N \subseteq CuboidId
  BY DEF IsTree
<1>5. ASSUME ~(c \subseteq root) PROVE FindBestParent(c) = {}
  BY <1>1, <1>3, <1>4, <1>5 DEF BestBelow, CanDerive
<1>6. ASSUME c \subseteq root PROVE FindBestParent(c) = {LeastId(covering)}
  <2>1. covering \in SUBSET CuboidId /\ root \in covering
    BY <1>4, <1>6
  <2>2. PICK least : /\ least = LeastId(covering) /\ least \in covering
                     /\ \A d \in covering \ {least} : IdLess(least, d)
    <3> HIDE DEF covering
    <3>1. covering # {}
      BY <2>1
    <3>2. QED
      BY <2>1, <3>1, IdsFacts
  <2>3. least \in N /\ c \subseteq least
    BY <2>2
  <2>4. \A p \in N : best[p] \subseteq covering
    <3> DEFINE Bad == {p \in N : ~(best[p] \subseteq covering)}
               Sizes == {Cardinality(p) : p \in Bad}
    <3>1. SUFFICES ASSUME Bad # {} PROVE FALSE
      OBVIOUS
    <3>2. \A p \in Bad : Cardinality(p) \in Nat
      BY <1>4, CuboidFacts
    <3>3. Sizes \in SUBSET Nat /\ Sizes # {}
      BY <3>1, <3>2
    <3>4. PICK s \in Sizes : \A t \in Sizes : s <= t
      <4> HIDE DEF Sizes
      <4>1. QED
        BY <3>3, LeastNumber
    <3>5. PICK p \in Bad : s = Cardinality(p)
      OBVIOUS
    <3>6. \A q \in Bad : Cardinality(p) <= Cardinality(q)
      BY <3>4, <3>5
    <3> HIDE DEF Sizes
    <3>7. ASSUME NEW q \in Children(p) PROVE best[q] \subseteq covering
      <4>1. q \in N /\ Cardinality(q) < Cardinality(p) /\ Cardinality(q) \in Nat /\ Cardinality(p) \in Nat
        BY ChildIsSmaller
      <4>2. ~(Cardinality(p) <= Cardinality(q))
        BY <4>1
      <4>3. QED
        BY <3>6, <4>1, <4>2
    <3> DEFINE candidates == UNION {best[child] : child \in Children(p)}
    <3>8. candidates \subseteq covering
      BY <3>7
    <3>9. candidates # {} => LeastId(candidates) \in covering
      <4> HIDE DEF candidates
      <4>1. QED
        BY <2>1, <3>8, IdsFacts
    <3>10. CanDerive(c, p) => p \in covering
      BY DEF CanDerive
    <3>11. best[p] \subseteq covering
      <4>1. best[p] = IF ~CanDerive(c, p) THEN {}
                      ELSE IF candidates = {} THEN {p} ELSE {LeastId(candidates)}
        BY <1>3 DEF BestBelow
      <4> HIDE DEF candidates
      <4>2. QED
        BY <3>9, <3>10, <4>1
    <3>12. QED
      BY <3>11
  <2>5. ASSUME NEW p \in N, CanDerive(c, p), least \in UNION {best[child] : child \in Children(p)}
        PROVE  best[p] = {least}
    <3> DEFINE candidates == UNION {best[child] : child \in Children(p)}
    <3>1. candidates \subseteq covering
      <4>1. Children(p) \subseteq N
        BY DEF Children
      <4>2. QED
        BY <2>4, <4>1
    <3>2. LeastId(candidates) = least
      <4> HIDE DEF candidates
      <4>1. \A d \in candidates \ {least} : IdLess(least, d)
        BY <2>2, <3>1
      <4>2. least \in candidates
        BY <2>5 DEF candidates
      <4>3. QED
        BY <2>1, <3>1, <4>1, <4>2, LeastIdIs
    <3>3. QED
      BY <1>3, <2>5, <3>2 DEF BestBelow
  <2>6. best[least] = {least}
    <3>1. ASSUME NEW q \in Children(least) PROVE best[q] = {}
      <4>1. q \in N /\ q \subseteq least /\ q # least /\ q \in CuboidId /\ least \in CuboidId
        BY <2>3, ChildIsSmaller
      <4>2. IdLess(q, least) /\ ~IdLess(least, q)
        BY <4>1, SubsetIsLess
      <4>3. ~CanDerive(c, q)
        BY <2>2, <4>1, <4>2 DEF CanDerive
      <4>4. QED
        BY <1>3, <4>1, <4>3 DEF BestBelow
    <3>2. UNION {best[child] : child \in Children(least)} = {}
      BY <3>1
    <3>3. QED
      BY <1>3, <2>3, <3>2 DEF BestBelow, CanDerive
  <2> DEFINE Passed == {p \in N : best[p] = {least}}
             Sizes == {Cardinality(p) : p \in Passed}
  <2>7. \A p \in Passed : Cardinality(p) \in Nat /\ Cardinality(p) <= Cardinality(Bit)
    BY <1>4, BitAssumption, FS_Subset, FS_CardinalityType DEF CuboidId
  <2>8. Sizes \in SUBSET Nat /\ Sizes # {} /\ \A s \in Sizes : s <= Cardinality(Bit)
    BY <2>3, <2>6, <2>7
  <2>9. Cardinality(Bit) \in Nat
    BY BitAssumption, FS_CardinalityType
  <2>10. PICK s \in Sizes : \A t \in Sizes : t <= s
    <3> HIDE DEF Sizes
    <3>1. QED
      BY <2>8, <2>9, GreatestNumber
  <2>11. PICK p \in Passed : s = Cardinality(p)
    OBVIOUS
  <2>12. \A q \in Passed : Cardinality(q) <= Cardinality(p)
    BY <2>10, <2>11
  <2> HIDE DEF Sizes
  <2>13. ASSUME p # root PROVE FALSE
    <3>1. PICK q \in N : q = nodes[p].parent /\ p \in Children(q)
      BY <2>13 DEF IsTree, Children
    <3>2. p \subseteq q /\ Cardinality(p) < Cardinality(q) /\ Cardinality(p) \in Nat
          /\ Cardinality(q) \in Nat
      BY <3>1, ChildIsSmaller
    <3>3. c \subseteq p
      <4>1. best[p] # {}
        OBVIOUS
      <4>2. QED
        BY <1>3, <4>1 DEF BestBelow, CanDerive
    <3>4. best[q] = {least}
      <4>1. CanDerive(c, q)
        BY <3>2, <3>3 DEF CanDerive
      <4>2. least \in UNION {best[child] : child \in Children(q)}
        BY <3>1
      <4>3. QED
        BY <2>5, <4>1, <4>2
    <3>5. ~(Cardinality(q) <= Cardinality(p))
      BY <3>2
    <3>6. QED
      BY <2>12, <3>4, <3>5
  <2>14. QED
    BY <1>1, <2>2, <2>13
<1>7. QED
  BY <1>5, <1>6

-----------------------------------------------------------------------------
(***************************************************************************)
(* The invariant.  The cuboids of the list come in descending order, so    *)
(* what covers a cuboid is in the tree before it is added, if it is to be  *)
(* there at all, and nothing added later covers it.                        *)
(***************************************************************************)

ListTypes ==
    /\ inits \in 0 .. MaxInits
    /\ phase \in {"empty", "adding", "built", "aborted"}
    /\ all_cuboid_ids \subseteq CuboidId
    /\ todo \subseteq all_cuboid_ids
    /\ DOMAIN nodes \subseteq all_cuboid_ids
    /\ index \subseteq DOMAIN nodes
    /\ tree_levels \in Nat
    /\ layers \in Seq(SUBSET CuboidId)

Rooted ==
    /\ phase \in {"adding", "built"} => DOMAIN nodes # {}
    /\ phase = "built" => todo = {} /\ index = DOMAIN nodes
    /\ DOMAIN nodes # {} =>
          /\ root \in DOMAIN nodes /\ nodes[root].parent = root
          /\ \A x \in all_cuboid_ids \ {root} : IdLess(x, root)

\* The root covers the nodes, and what it covers is a node when its turn is over.
Added ==
    /\ \A x \in DOMAIN nodes : x \subseteq root /\ (x = root \/ x \notin todo)
    /\ \A x \in all_cuboid_ids \ todo : x \subseteq root => x \in DOMAIN nodes
    /\ \A x \in all_cuboid_ids \ todo, y \in todo : IdLess(y, x)

\* A node is a child of the least cuboid that covers it, below the root.
BelowLeast ==
    \A x \in DOMAIN nodes \ {root} :
        /\ nodes[x].parent \in DOMAIN nodes
        /\ x \subseteq nodes[x].parent /\ x # nodes[x].parent
        /\ \A d \in all_cuboid_ids :
              x \subseteq d /\ x # d /\ d \subseteq root =>
                  d = nodes[x].parent \/ IdLess(nodes[x].parent, d)

Levelled ==
    /\ DOMAIN nodes # {} => nodes[root].level = 0
    /\ \A x \in DOMAIN nodes : nodes[x].level \in 0 .. tree_levels
    /\ \A x \in DOMAIN nodes \ {root} : nodes[x].level = nodes[nodes[x].parent].level + 1

ListInv ==
    /\ ListTypes
    /\ Rooted
    /\ Added
    /\ BelowLeast
    /\ Levelled

\* Nothing is there before the first list.
LEMMA ListInvInit ==
    ASSUME MaxInits \in Nat, Init
    PROVE  ListInv
<1>1. DOMAIN nodes = {}
  BY DEF Init
<1>2. ListTypes
  BY <1>1 DEF Init, ListTypes
<1>3. QED
  BY <1>1, <1>2 DEF Init, ListInv, Rooted, Added, BelowLeast, Levelled

\* A list is begun with its greatest cuboid as the root.
LEMMA InitCuboidTreeInv ==
    ASSUME ProperLists, MaxInits \in Nat, ListInv,
           NEW list \in CuboidLists, InitCuboidTree(list)
    PROVE  ListInv'
<1> DEFINE top == GreatestId(list)
<1>1. list \in SUBSET CuboidId /\ list # {}
  BY DEF ProperLists
<1>2. top \in list /\ \A d \in list \ {top} : IdLess(d, top)
  BY <1>1, IdsFacts
<1> HIDE DEF top
<1>3. /\ phase' = "adding" /\ all_cuboid_ids' = list /\ todo' = list /\ index' = {}
      /\ layers' = layers /\ inits' = inits + 1 /\ inits < MaxInits
      /\ root' = top /\ nodes' = [c \in {top} |-> [parent |-> top, level |-> 0]] /\ tree_levels' = 0
  BY DEF InitCuboidTree, SetRoot, top
<1>4. /\ DOMAIN nodes' = {top} /\ nodes'[top].parent = top /\ nodes'[top].level = 0
      /\ (DOMAIN nodes \ {root})' = {}
  BY <1>3
<1>5. inits' \in 0 .. MaxInits
  BY <1>3 DEF ListInv, ListTypes
<1>6. ListTypes'
  BY <1>1, <1>2, <1>3, <1>4, <1>5 DEF ListInv, ListTypes
<1>7. Rooted'
  BY <1>2, <1>3, <1>4 DEF Rooted
<1>8. Added' /\ BelowLeast'
  BY <1>3, <1>4 DEF Added, BelowLeast
<1>9. Levelled'
  BY <1>3, <1>4 DEF Levelled
<1>10. QED
  BY <1>6, <1>7, <1>8, <1>9 DEF ListInv

\* The nodes are a tree, in which find_best_parent finds the least that covers.
LEMMA NodesAreTree ==
    ASSUME ListInv, DOMAIN nodes # {}
    PROVE  IsTree
  BY DEF ListInv, ListTypes, Rooted, BelowLeast, IsTree

\* What covers the next cuboid, and is covered by the root, is in the tree.
LEMMA NextFacts ==
    ASSUME ListInv, phase = "adding", todo # {},
           NEW c, c = NextCuboid, NEW covering, covering = {d \in DOMAIN nodes : c \subseteq d}
    PROVE  /\ c \in todo /\ c \in all_cuboid_ids /\ c \in CuboidId
           /\ \A d \in todo \ {c} : IdLess(d, c)
           /\ ~(c \subseteq root) => FindBestParent(c) = {}
           /\ c \subseteq root => /\ FindBestParent(c) = {LeastId(covering)}
                                  /\ LeastId(covering) \in covering
                                  /\ \A d \in covering \ {LeastId(covering)} :
                                        IdLess(LeastId(covering), d)
           /\ \A d \in all_cuboid_ids : c \subseteq d /\ c # d /\ d \subseteq root => d \in covering
<1>1. todo \in SUBSET CuboidId /\ IsTree /\ DOMAIN nodes \in SUBSET CuboidId
      /\ todo \subseteq all_cuboid_ids /\ root \in DOMAIN nodes
  BY NodesAreTree DEF ListInv, ListTypes, Rooted
<1>2. c \in todo /\ \A d \in todo \ {c} : IdLess(d, c)
  BY <1>1, IdsFacts DEF NextCuboid
<1>3. c \in all_cuboid_ids /\ c \in CuboidId
  BY <1>1, <1>2
<1>4. ~(c \subseteq root) => FindBestParent(c) = {}
  BY <1>1, <1>3, BestParent
<1>5. ASSUME c \subseteq root
      PROVE  /\ FindBestParent(c) = {LeastId(covering)}
             /\ LeastId(covering) \in covering
             /\ \A d \in covering \ {LeastId(covering)} : IdLess(LeastId(covering), d)
  <2>1. FindBestParent(c) = {LeastId(covering)}
    BY <1>1, <1>3, <1>5, BestParent
  <2>2. covering \in SUBSET CuboidId /\ covering # {}
    BY <1>1, <1>5
  <2>3. QED
    BY <2>1, <2>2, IdsFacts
<1>6. ASSUME NEW d \in all_cuboid_ids, c \subseteq d, c # d, d \subseteq root PROVE d \in covering
  <2>1. d \in CuboidId
    BY DEF ListInv, ListTypes
  <2>2. IdLess(c, d) /\ ~IdLess(d, c)
    BY <1>3, <1>6, <2>1, SubsetIsLess
  <2>3. d \notin todo
    BY <1>2, <1>6, <2>2
  <2>4. QED
    BY <1>6, <2>3 DEF ListInv, Added
<1>7. QED
  BY <1>2, <1>3, <1>4, <1>5, <1>6

\* A cuboid is passed over, or added below the least that covers it.
LEMMA AddCuboidInv ==
    ASSUME ListInv, AddCuboid
    PROVE  ListInv'
<1> DEFINE c == NextCuboid
           covering == {d \in DOMAIN nodes : c \subseteq d}
           least == LeastId(covering)
<1>1. /\ phase = "adding" /\ todo # {} /\ todo' = todo \ {c}
      /\ UNCHANGED <<inits, phase, all_cuboid_ids, root, index, layers>>
  BY DEF AddCuboid
<1>2. /\ c \in todo /\ c \in all_cuboid_ids /\ c \in CuboidId
      /\ \A d \in todo \ {c} : IdLess(d, c)
  BY <1>1, NextFacts
<1>3. /\ ~(c \subseteq root) => FindBestParent(c) = {}
      /\ c \subseteq root => /\ FindBestParent(c) = {least} /\ least \in covering
                             /\ \A d \in covering \ {least} : IdLess(least, d)
      /\ \A d \in all_cuboid_ids : c \subseteq d /\ c # d /\ d \subseteq root => d \in covering
  BY <1>1, NextFacts
<1>4. \/ FindBestParent(c) \in {{}, {c}} /\ UNCHANGED <<nodes, tree_levels>>
      \/ \E p \in FindBestParent(c) \ {c} : AddChild(p, c)
  BY DEF AddCuboid
<1>5. covering = {d \in DOMAIN nodes : c \subseteq d}
  OBVIOUS
<1> HIDE DEF c, covering, least
<1>6. /\ ListTypes /\ Rooted /\ Added /\ BelowLeast /\ Levelled
      /\ DOMAIN nodes # {} /\ root \in DOMAIN nodes /\ DOMAIN nodes \subseteq CuboidId
      /\ all_cuboid_ids \subseteq CuboidId
  BY <1>1 DEF ListInv, Rooted, ListTypes
<1>7. \A x \in all_cuboid_ids \ todo', y \in todo' : IdLess(y, x)
  BY <1>1, <1>2, <1>6 DEF Added
<1>8. CASE FindBestParent(c) \in {{}, {c}} /\ UNCHANGED <<nodes, tree_levels>>
  <2>1. ListTypes'
    BY <1>1, <1>6, <1>8 DEF ListTypes
  <2>2. Rooted'
    BY <1>1, <1>6, <1>8 DEF Rooted
  <2>3. c \subseteq root => c \in DOMAIN nodes
    BY <1>3, <1>5, <1>8
  <2>4. Added'
    BY <1>1, <1>6, <1>7, <1>8, <2>3 DEF Added
  <2>5. BelowLeast' /\ Levelled'
    BY <1>1, <1>6, <1>8 DEF BelowLeast, Levelled
  <2>6. QED
    BY <2>1, <2>2, <2>4, <2>5 DEF ListInv
<1>9. CASE \E p \in FindBestParent(c) \ {c} : AddChild(p, c)
  <2>1. PICK p \in FindBestParent(c) \ {c} : AddChild(p, c)
    BY <1>9
  <2>2. c \subseteq root /\ p = least /\ p \in covering /\ p # c
    BY <1>3, <2>1
  <2>3. p \in DOMAIN nodes /\ p \in CuboidId /\ c \subseteq p
    BY <1>5, <1>6, <2>2
  <2>4. c \notin DOMAIN nodes
    <3>1. ASSUME c \in DOMAIN nodes PROVE FALSE
      <4>1. IdLess(c, p) /\ ~IdLess(p, c)
        BY <1>2, <2>2, <2>3, SubsetIsLess
      <4>2. c \in covering
        BY <1>5, <3>1
      <4>3. QED
        BY <1>3, <2>2, <4>1, <4>2
    <3>2. QED
      BY <3>1
  <2>5. PICK level : level = nodes[p].level + 1
    OBVIOUS
  <2>6. nodes[p].level \in Nat /\ level \in Nat /\ nodes[p].level \in 0 .. tree_levels /\ tree_levels \in Nat
    BY <1>6, <2>3, <2>5 DEF Levelled, ListTypes
  <2>7. /\ nodes' = [d \in DOMAIN nodes \cup {c} |->
                        IF d = c THEN [parent |-> p, level |-> level] ELSE nodes[d]]
        /\ tree_levels' = IF level > tree_levels THEN level ELSE tree_levels
    BY <2>1, <2>5 DEF AddChild
  <2>8. /\ DOMAIN nodes' = DOMAIN nodes \cup {c}
        /\ nodes'[c].parent = p /\ nodes'[c].level = level
    BY <2>7
  <2>9. \A x \in DOMAIN nodes : nodes'[x] = nodes[x]
    BY <2>4, <2>7
  <2>10. tree_levels' \in Nat /\ level <= tree_levels' /\ tree_levels <= tree_levels'
    BY <2>6, <2>7
  <2>11. ListTypes'
    BY <1>1, <1>2, <1>6, <2>8, <2>10 DEF ListTypes
  <2>12. Rooted'
    BY <1>1, <1>6, <2>8, <2>9 DEF Rooted
  <2>13. Added'
    BY <1>1, <1>2, <1>6, <1>7, <2>2, <2>8 DEF Added
  <2>14. BelowLeast'
    <3>1. ASSUME NEW x \in (DOMAIN nodes \cup {c}) \ {root}
          PROVE  /\ nodes'[x].parent \in DOMAIN nodes \cup {c}
                 /\ x \subseteq nodes'[x].parent /\ x # nodes'[x].parent
                 /\ \A d \in all_cuboid_ids :
                       x \subseteq d /\ x # d /\ d \subseteq root =>
                           d = nodes'[x].parent \/ IdLess(nodes'[x].parent, d)
      <4>1. CASE x \in DOMAIN nodes
        BY <1>6, <2>9, <3>1, <4>1 DEF BelowLeast
      <4>2. CASE x = c
        BY <1>3, <2>2, <2>3, <2>8, <4>2
      <4>3. QED
        BY <4>1, <4>2
    <3>2. QED
      BY <1>1, <2>8, <3>1 DEF BelowLeast
  <2>15. Levelled'
    <3>1. ASSUME NEW x \in DOMAIN nodes PROVE nodes'[x].level \in 0 .. tree_levels'
      BY <1>6, <2>9, <2>10, <3>1 DEF Levelled, ListTypes
    <3>2. nodes'[c].level \in 0 .. tree_levels'
      BY <2>6, <2>8, <2>10
    <3>3. ASSUME NEW x \in DOMAIN nodes \ {root}
          PROVE  nodes'[x].level = nodes'[nodes'[x].parent].level + 1
      <4>1. nodes[x].parent \in DOMAIN nodes
        BY <1>6 DEF BelowLeast
      <4>2. QED
        BY <1>6, <2>9, <4>1 DEF Levelled
    <3>4. nodes'[c].level = nodes'[nodes'[c].parent].level + 1
      BY <2>3, <2>5, <2>8, <2>9
    <3>5. root \in DOMAIN nodes /\ nodes'[root].level = 0
      BY <1>6, <2>9 DEF Rooted, Levelled
    <3>6. QED
      BY <1>1, <2>8, <3>1, <3>2, <3>3, <3>4, <3>5 DEF Levelled
  <2>16. QED
    BY <2>11, <2>12, <2>13, <2>14, <2>15 DEF ListInv
<1>10. QED
  BY <1>4, <1>8, <1>9

\* The index is that of all nodes.
LEMMA BuildIndexInv ==
    ASSUME ListInv, BuildIndex
    PROVE  ListInv'
<1> USE DEF BuildIndex
<1>1. ListTypes' /\ Rooted'
  BY DEF ListInv, ListTypes, Rooted
<1>2. Added' /\ BelowLeast' /\ Levelled'
  BY DEF ListInv, Added, BelowLeast, Levelled
<1>3. QED
  BY <1>1, <1>2 DEF ListInv

\* The layers, from the base cuboid down.
LEMMA LayerFacts ==
    ASSUME DOMAIN nodes \subseteq CuboidId, index \subseteq CuboidId,
           NEW n, n = Cardinality(index)
    PROVE  /\ n \in Nat /\ DOMAIN Layer = 0 .. n
           /\ Layer[0] = {base_cuboid_id}
           /\ \A i \in 1 .. n : Layer[i] = UNION {Children(p) : p \in Layer[i - 1]}
           /\ \A i \in 0 .. n : Layer[i] \in SUBSET CuboidId
<1> DEFINE V == SUBSET CuboidId
           below(v) == UNION {Children(p) : p \in v}
           step == [i \in Nat |-> [v \in V |-> below(v)]]
           IsLayer(f) ==
               f = [i \in 0 .. n |->
                       IF i = 0 THEN {base_cuboid_id} ELSE UNION {Children(p) : p \in f[i - 1]}]
<1>1. n \in Nat
  <2>1. IsFiniteSet(CuboidId)
    <3>1. {} \in CuboidId
      BY DEF CuboidId
    <3>2. QED
      BY <3>1, CuboidFacts
  <2>2. IsFiniteSet(index)
    BY <2>1, FS_Subset
  <2>3. QED
    BY <2>2, FS_CardinalityType
<1>2. {base_cuboid_id} \in V
  BY DEF base_cuboid_id, CuboidId
<1>3. ASSUME NEW v \in V PROVE below(v) \in V
  BY DEF Children
<1>4. step \in [Nat -> [V -> V]]
  <2> HIDE DEF V, below
  <2>1. QED
    BY <1>3
<1>5. PICK h : Computes(h, n, V, {base_cuboid_id}, step)
  <2> HIDE DEF V, step
  <2>1. QED
    BY <1>1, <1>2, <1>4, RecursionExists
<1>6. IsLayer(h)
  <2>1. ASSUME NEW i \in 0 .. n
        PROVE  h[i] = IF i = 0 THEN {base_cuboid_id} ELSE UNION {Children(p) : p \in h[i - 1]}
    <3>1. CASE i = 0
      BY <1>5, <3>1 DEF Computes
    <3>2. CASE i # 0
      <4>1. i \in 1 .. n /\ i \in Nat /\ i - 1 \in 0 .. n
        BY <1>1, <3>2
      <4>2. h[i - 1] \in V /\ h[i] = step[i][h[i - 1]]
        BY <1>5, <4>1 DEF Computes
      <4>3. h[i] = below(h[i - 1])
        BY <4>1, <4>2
      <4>4. QED
        BY <3>2, <4>3
    <3>3. QED
      BY <3>1, <3>2
  <2>2. h = [i \in 0 .. n |-> h[i]]
    BY <1>5 DEF Computes
  <2>3. QED
    BY <2>1, <2>2
<1>7. Layer = CHOOSE f : IsLayer(f)
  BY DEF Layer
<1>8. IsLayer(Layer)
  <2> HIDE DEF IsLayer
  <2>1. QED
    BY <1>6, <1>7
<1>9. /\ DOMAIN Layer = 0 .. n /\ Layer[0] = {base_cuboid_id}
      /\ \A i \in 1 .. n : Layer[i] = below(Layer[i - 1])
  <2>1. 0 \in 0 .. n /\ \A i \in 1 .. n : i \in 0 .. n /\ i # 0
    BY <1>1
  <2>2. DOMAIN Layer = 0 .. n
    BY <1>8
  <2>3. Layer[0] = {base_cuboid_id}
    BY <1>8, <2>1
  <2>4. ASSUME NEW i \in 1 .. n PROVE Layer[i] = below(Layer[i - 1])
    BY <1>8, <2>1
  <2>5. QED
    BY <2>2, <2>3, <2>4
<1>10. \A i \in 0 .. n : Layer[i] \in V
  <2> DEFINE Typed == {i \in Nat : i <= n => Layer[i] \in V}
  <2>1. 0 \in Typed
    BY <1>2, <1>9
  <2>2. ASSUME NEW i \in Nat, i \in Typed PROVE i + 1 \in Typed
    <3>1. SUFFICES ASSUME i + 1 <= n PROVE Layer[i + 1] \in V
      OBVIOUS
    <3>2. i + 1 \in 1 .. n /\ (i + 1) - 1 = i /\ i <= n
      BY <1>1, <3>1
    <3>3. Layer[i] \in V
      BY <2>2, <3>2
    <3>4. Layer[i + 1] = below(Layer[i])
      BY <1>9, <3>2
    <3> HIDE DEF V, below
    <3>5. QED
      BY <1>3, <3>3, <3>4
  <2> HIDE DEF Typed
  <2>3. Nat \subseteq Typed
    BY <2>1, <2>2, InductionOnSets
  <2>4. QED
    BY <1>1, <2>3 DEF Typed
<1>11. QED
  BY <1>1, <1>9, <1>10

\* The layers are sets of cuboids.
LEMMA LayersTyped ==
    ASSUME DOMAIN nodes \subseteq CuboidId, index \subseteq CuboidId
    PROVE  LayersOfTree \in Seq(SUBSET CuboidId)
<1> DEFINE D == {i \in DOMAIN Layer : Layer[i] # {}}
           depth == Cardinality(D)
<1>1. PICK n : /\ n = Cardinality(index) /\ n \in Nat /\ DOMAIN Layer = 0 .. n
               /\ \A i \in 0 .. n : Layer[i] \in SUBSET CuboidId
  BY LayerFacts
<1>2. IsFiniteSet(0 .. n) /\ Cardinality(0 .. n) = n + 1
  BY <1>1, FS_Interval
<1>3. depth \in Nat /\ depth <= n + 1
  <2>1. D \in SUBSET (0 .. n)
    BY <1>1
  <2> HIDE DEF D
  <2>2. QED
    BY <1>2, <2>1, FS_Subset, FS_CardinalityType
<1>4. LayersOfTree = [i \in 1 .. depth |-> Layer[i - 1]]
  BY DEF LayersOfTree
<1> HIDE DEF depth
<1>5. \A i \in 1 .. depth : Layer[i - 1] \in SUBSET CuboidId
  <2>1. \A i \in 1 .. depth : i - 1 \in 0 .. n
    BY <1>1, <1>3
  <2>2. QED
    BY <1>1, <2>1
<1>6. QED
  BY <1>3, <1>4, <1>5

\* get_cuboids_by_layer leaves the tree as it is.
LEMMA GetCuboidsByLayerInv ==
    ASSUME ListInv, GetCuboidsByLayer
    PROVE  ListInv'
<1>1. UNCHANGED <<inits, all_cuboid_ids, todo, root, nodes, tree_levels, index>>
  BY DEF GetCuboidsByLayer
<1>2. /\ phase \in {"empty", "built"}
      /\ \/ layers' = LayersOfTree /\ phase' = phase
         \/ layers' = layers /\ phase' = "aborted"
  BY DEF GetCuboidsByLayer
<1>3. LayersOfTree \in Seq(SUBSET CuboidId)
  BY LayersTyped DEF ListInv, ListTypes
<1>4. ListTypes'
  BY <1>1, <1>2, <1>3 DEF ListInv, ListTypes
<1>5. Rooted'
  BY <1>1, <1>2 DEF ListInv, Rooted
<1>6. Added' /\ BelowLeast' /\ Levelled'
  BY <1>1 DEF ListInv, Added, BelowLeast, Levelled
<1>7. QED
  BY <1>4, <1>5, <1>6 DEF ListInv

\* Every step keeps the invariant.
LEMMA ListInvStep ==
    ASSUME ProperLists, MaxInits \in Nat, ListInv, [Next]_vars
    PROVE  ListInv'
<1>1. CASE UNCHANGED vars
  <2>1. ListTypes' /\ Rooted'
    BY <1>1 DEF vars, ListInv, ListTypes, Rooted
  <2>2. Added' /\ BelowLeast' /\ Levelled'
    BY <1>1 DEF vars, ListInv, Added, BelowLeast, Levelled
  <2>3. QED
    BY <2>1, <2>2 DEF ListInv
<1>2. QED
  BY <1>1, InitCuboidTreeInv, AddCuboidInv, BuildIndexInv, GetCuboidsByLayerInv DEF Next

\* The list that the tree is built from has the base cuboid.
BaseListed == all_cuboid_ids # {} => base_cuboid_id \in all_cuboid_ids

\* It has, when every list has.
LEMMA BaseListedStep ==
    ASSUME \A list \in CuboidLists : base_cuboid_id \in list, BaseListed, [Next]_vars
    PROVE  BaseListed'
<1>1. CASE \E list \in CuboidLists : all_cuboid_ids' = list
  BY <1>1 DEF BaseListed, base_cuboid_id
<1>2. CASE all_cuboid_ids' = all_cuboid_ids
  BY <1>2 DEF BaseListed, base_cuboid_id
<1>3. QED
  BY <1>1, <1>2 DEF Next, vars, InitCuboidTree, AddCuboid, BuildIndex, GetCuboidsByLayer

-----------------------------------------------------------------------------
(***************************************************************************)
(* What the invariant says of the tree.                                    *)
(***************************************************************************)

\* The variables keep their types.
LEMMA ListTypeOK ==
    ASSUME ListInv
    PROVE  TypeOK
<1>1. \A c \in DOMAIN nodes : nodes[c].parent \in DOMAIN nodes
  BY DEF ListInv, Rooted, BelowLeast
<1>2. QED
  BY <1>1 DEF ListInv, ListTypes, Levelled, TypeOK

\* With the base cuboid in the list the root is the base cuboid.
LEMMA RootIsBase ==
    ASSUME ListInv, base_cuboid_id \in all_cuboid_ids, DOMAIN nodes # {}
    PROVE  root = base_cuboid_id
<1>1. root \in CuboidId /\ base_cuboid_id \in CuboidId /\ root \subseteq base_cuboid_id
  BY DEF ListInv, ListTypes, Rooted, base_cuboid_id, CuboidId
<1>2. ASSUME root # base_cuboid_id PROVE FALSE
  <2>1. IdLess(base_cuboid_id, root)
    BY <1>2 DEF ListInv, Rooted
  <2>2. QED
    BY <1>1, <1>2, <2>1, SubsetIsLess
<1>3. QED
  BY <1>2

\* Then a cuboid is a child of the least cuboid that covers it.
LEMMA ListParentsAreLeast ==
    ASSUME ListInv, BaseListed
    PROVE  ParentsAreLeast
<1>1. SUFFICES ASSUME NEW c \in DOMAIN nodes \ {root},
                      NEW covering, covering = {d \in all_cuboid_ids : c \subseteq d /\ c # d},
                      NEW p, p = nodes[c].parent
               PROVE  p = LeastId(covering) /\ nodes[c].level = nodes[p].level + 1
  BY DEF ParentsAreLeast
<1>2. root = base_cuboid_id
  BY <1>1, RootIsBase DEF BaseListed, ListInv, ListTypes
<1>3. all_cuboid_ids \subseteq CuboidId /\ p \in all_cuboid_ids
  BY <1>1 DEF ListInv, ListTypes, BelowLeast
<1>4. p \in covering /\ covering \in SUBSET CuboidId
  BY <1>1, <1>3 DEF ListInv, BelowLeast
<1>5. \A d \in covering \ {p} : IdLess(p, d)
  <2>1. \A d \in covering : d \subseteq root
    BY <1>2, <1>4 DEF base_cuboid_id, CuboidId
  <2>2. QED
    BY <1>1, <2>1 DEF ListInv, BelowLeast
<1>6. p = LeastId(covering)
  <2> HIDE <1>1
  <2>1. QED
    BY <1>4, <1>5, LeastIdIs
<1>7. QED
  BY <1>1, <1>6 DEF ListInv, Levelled

\* And a request is answered from the least cuboid that has its columns.
LEMMA ListBestMatch ==
    ASSUME ListInv
    PROVE  BestMatchIsLeast
<1>1. SUFFICES ASSUME phase = "built", base_cuboid_id \in all_cuboid_ids, NEW c \in CuboidId,
                      NEW covering, covering = {d \in all_cuboid_ids : c \subseteq d}
               PROVE  FindBestMatchCuboid(c) = {LeastId(covering)}
  BY DEF BestMatchIsLeast
<1>2. /\ DOMAIN nodes # {} /\ index = DOMAIN nodes /\ todo = {}
      /\ all_cuboid_ids \subseteq CuboidId /\ DOMAIN nodes \subseteq all_cuboid_ids
  BY <1>1 DEF ListInv, Rooted, ListTypes
<1>3. root = base_cuboid_id
  BY <1>1, <1>2, RootIsBase
<1>4. DOMAIN nodes = all_cuboid_ids
  BY <1>2, <1>3 DEF ListInv, Added, base_cuboid_id, CuboidId
<1>5. CASE c \in index
  <2>1. c \in covering /\ covering \in SUBSET CuboidId
    BY <1>1, <1>2, <1>5
  <2>2. \A d \in covering \ {c} : IdLess(c, d)
    BY <1>1, <2>1, SubsetIsLess
  <2>3. QED
    BY <1>5, <2>1, <2>2, LeastIdIs DEF FindBestMatchCuboid, IsValid
<1>6. CASE c \notin index
  <2>1. c \subseteq root
    BY <1>3 DEF base_cuboid_id, CuboidId
  <2>2. QED
    BY <1>1, <1>2, <1>4, <1>6, <2>1, NodesAreTree, BestParent DEF FindBestMatchCuboid, IsValid
<1>7. QED
  BY <1>5, <1>6

-----------------------------------------------------------------------------
(***************************************************************************)
(* Sums.                                                                   *)
(***************************************************************************)

\* iter is what MapThenSumSet finds the sizes of the parts of S from.
AddsUp(iter, S, part) ==
    iter = [s \in SUBSET S |->
               IF s = {} THEN 0
               ELSE Cardinality(part[CHOOSE x \in s : TRUE]) + iter[s \ {CHOOSE x \in s : TRUE}]]

\* The sizes of parts that have nothing in common add up to that of the whole.
LEMMA SumOfParts ==
    ASSUME NEW S, IsFiniteSet(S), NEW T, IsFiniteSet(T), NEW part \in [S -> SUBSET T],
           \A x, y \in S : x # y => part[x] \cap part[y] = {}
    PROVE  /\ \E iter : AddsUp(iter, S, part)
           /\ \A iter : AddsUp(iter, S, part) => iter[S] = Cardinality(UNION {part[x] : x \in S})
<1> DEFINE Whole(s) == UNION {part[x] : x \in s}
           chosen(s) == CHOOSE x \in s : TRUE
           whole == [s \in SUBSET S |-> Cardinality(Whole(s))]
<1>1. ASSUME NEW s \in SUBSET S, s # {}
      PROVE  /\ chosen(s) \in s
             /\ Cardinality(Whole(s)) =
                   Cardinality(part[chosen(s)]) + Cardinality(Whole(s \ {chosen(s)}))
  <2> DEFINE x == chosen(s)
             rest == Whole(s \ {x})
  <2>1. x \in s
    BY <1>1
  <2> HIDE DEF chosen
  <2>2. part[x] \in SUBSET T /\ rest \in SUBSET T
    BY <2>1
  <2>3. part[x] \cap rest = {} /\ Whole(s) = part[x] \cup rest
    BY <2>1
  <2> HIDE DEF x, rest, Whole
  <2>4. IsFiniteSet(part[x]) /\ IsFiniteSet(rest)
    BY <2>2, FS_Subset
  <2>5. Cardinality(part[x] \cup rest) = Cardinality(part[x]) + Cardinality(rest)
    <3>1. Cardinality(part[x] \cap rest) = 0
      BY <2>3, FS_EmptySet
    <3>2. Cardinality(part[x]) \in Nat /\ Cardinality(rest) \in Nat
      BY <2>4, FS_CardinalityType
    <3>3. Cardinality(part[x] \cup rest)
             = Cardinality(part[x]) + Cardinality(rest) - Cardinality(part[x] \cap rest)
      BY <2>4, FS_Union
    <3>4. QED
      BY <3>1, <3>2, <3>3
  <2>6. QED
    BY <2>1, <2>3, <2>5 DEF x, rest
<1>2. AddsUp(whole, S, part)
  <2>1. ASSUME NEW s \in SUBSET S
        PROVE  whole[s] = IF s = {} THEN 0
                          ELSE Cardinality(part[chosen(s)]) + whole[s \ {chosen(s)}]
    <3>1. CASE s = {}
      <4>1. Whole(s) = {}
        BY <3>1
      <4>2. QED
        BY <3>1, <4>1, FS_EmptySet
    <3>2. CASE s # {}
      <4> HIDE DEF Whole, chosen
      <4>1. QED
        BY <1>1, <3>2
    <3>3. QED
      BY <3>1, <3>2
  <2>2. whole = [s \in SUBSET S |->
                   IF s = {} THEN 0
                   ELSE Cardinality(part[chosen(s)]) + whole[s \ {chosen(s)}]]
    <3> HIDE DEF Whole, chosen
    <3>1. QED
      BY <2>1
  <2> HIDE DEF whole
  <2>3. QED
    BY <2>2 DEF AddsUp
<1>3. ASSUME NEW iter, AddsUp(iter, S, part)
      PROVE  iter[S] = whole[S]
  <2> DEFINE Wrong == {s \in SUBSET S : iter[s] # whole[s]}
             Sizes == {Cardinality(s) : s \in Wrong}
  <2>1. \A s \in SUBSET S : IsFiniteSet(s) /\ Cardinality(s) \in Nat
    BY FS_Subset, FS_CardinalityType
  <2>2. ASSUME NEW s \in SUBSET S, s # {}, s \in Wrong
        PROVE  /\ s \ {chosen(s)} \in Wrong
               /\ Cardinality(s \ {chosen(s)}) < Cardinality(s)
    <3>1. chosen(s) \in s /\ s \ {chosen(s)} \in SUBSET S
      BY <1>1, <2>2
    <3>2. iter[s] = Cardinality(part[chosen(s)]) + iter[s \ {chosen(s)}]
      BY <1>3, <2>2 DEF AddsUp
    <3>3. whole[s] = Cardinality(part[chosen(s)]) + whole[s \ {chosen(s)}]
      BY <1>2, <2>2 DEF AddsUp
    <3> HIDE DEF chosen, whole
    <3>4. Cardinality(s \ {chosen(s)}) = Cardinality(s) - 1
      BY <2>1, <3>1, FS_RemoveElement
    <3>5. QED
      BY <2>1, <2>2, <3>1, <3>2, <3>3, <3>4
  <2>3. {} \notin Wrong
    BY <1>2, <1>3 DEF AddsUp
  <2>4. SUFFICES ASSUME S \in Wrong PROVE FALSE
    OBVIOUS
  <2> HIDE DEF Wrong
  <2>5. Sizes \in SUBSET Nat /\ Sizes # {}
    BY <2>1, <2>4 DEF Wrong
  <2>6. PICK m \in Sizes : \A n \in Sizes : m <= n
    <3> HIDE DEF Sizes
    <3>1. QED
      BY <2>5, LeastNumber
  <2>7. PICK s \in Wrong : m = Cardinality(s)
    BY <2>6
  <2>8. s \in SUBSET S /\ s # {}
    BY <2>3, <2>7 DEF Wrong
  <2> DEFINE t == s \ {chosen(s)}
  <2>9. t \in Wrong /\ Cardinality(t) < Cardinality(s) /\ Cardinality(t) \in Nat
    <3>1. t \in SUBSET S
      BY <2>8
    <3>2. QED
      BY <2>1, <2>2, <2>7, <2>8, <3>1
  <2> HIDE DEF t
  <2>10. QED
    BY <2>1, <2>6, <2>7, <2>8, <2>9
<1>4. QED
  BY <1>2, <1>3

-----------------------------------------------------------------------------
(***************************************************************************)
(* The layers of a tree that is built from a list with the base cuboid.    *)
(***************************************************************************)

IsBuilt == ListInv /\ phase = "built" /\ base_cuboid_id \in all_cuboid_ids

Level(i) == {c \in DOMAIN nodes : nodes[c].level = i}

\* Only the root is on level 0; a node is below its parent.
LEMMA LevelFacts ==
    ASSUME IsBuilt
    PROVE  /\ root = base_cuboid_id /\ root \in DOMAIN nodes /\ index = DOMAIN nodes
           /\ DOMAIN nodes \in SUBSET CuboidId
           /\ IsFiniteSet(DOMAIN nodes) /\ Cardinality(index) \in Nat
           /\ \A c \in DOMAIN nodes : nodes[c].level \in Nat
           /\ nodes[root].level = 0
           /\ \A c \in DOMAIN nodes \ {root} :
                 /\ nodes[c].parent \in DOMAIN nodes
                 /\ nodes[c].level = nodes[nodes[c].parent].level + 1
<1>1. DOMAIN nodes # {} /\ index = DOMAIN nodes /\ DOMAIN nodes \in SUBSET CuboidId
  BY DEF IsBuilt, ListInv, ListTypes, Rooted
<1>2. root = base_cuboid_id
  BY <1>1, RootIsBase DEF IsBuilt
<1>3. IsFiniteSet(DOMAIN nodes)
  <2>1. {} \in CuboidId
    BY DEF CuboidId
  <2>2. IsFiniteSet(CuboidId)
    BY <2>1, CuboidFacts
  <2>3. QED
    BY <1>1, <2>2, FS_Subset
<1>4. Cardinality(index) \in Nat
  BY <1>1, <1>3, FS_CardinalityType
<1>5. root \in DOMAIN nodes /\ \A c \in DOMAIN nodes \ {root} : nodes[c].parent \in DOMAIN nodes
  BY <1>1 DEF IsBuilt, ListInv, Rooted, BelowLeast
<1>6. /\ \A c \in DOMAIN nodes : nodes[c].level \in Nat
      /\ nodes[root].level = 0
      /\ \A c \in DOMAIN nodes \ {root} : nodes[c].level = nodes[nodes[c].parent].level + 1
  BY <1>1 DEF IsBuilt, ListInv, ListTypes, Levelled
<1>7. QED
  BY <1>1, <1>2, <1>3, <1>4, <1>5, <1>6

\* A layer is a level.
LEMMA LayersAreLevels ==
    ASSUME IsBuilt, NEW i \in 0 .. Cardinality(index)
    PROVE  Layer[i] = Level(i)
<1> DEFINE n == Cardinality(index)
           Right == {j \in Nat : j <= n => Layer[j] = Level(j)}
<1>1. n \in Nat
  BY LevelFacts
<1>2. /\ Layer[0] = {base_cuboid_id}
      /\ \A j \in 1 .. n : Layer[j] = UNION {Children(p) : p \in Layer[j - 1]}
  BY LevelFacts, LayerFacts
<1> HIDE DEF n
<1>3. 0 \in Right
  <2>1. Level(0) = {root}
    <3>1. \A c \in DOMAIN nodes \ {root} : nodes[c].level # 0
      BY LevelFacts
    <3>2. QED
      BY <3>1, LevelFacts DEF Level
  <2>2. QED
    BY <1>2, <2>1, LevelFacts
<1>4. ASSUME NEW j \in Nat, j \in Right PROVE j + 1 \in Right
  <2>1. SUFFICES ASSUME j + 1 <= n PROVE Layer[j + 1] = Level(j + 1)
    OBVIOUS
  <2>2. Layer[j] = Level(j)
    BY <1>1, <1>4, <2>1
  <2>3. j + 1 \in 1 .. n /\ (j + 1) - 1 = j
    BY <1>1, <2>1
  <2>4. Layer[j + 1] = UNION {Children(p) : p \in Level(j)}
    BY <1>2, <2>2, <2>3
  <2>5. ASSUME NEW c, c \in Level(j + 1) PROVE \E p \in Level(j) : c \in Children(p)
    <3>1. c \in DOMAIN nodes \ {root} /\ nodes[c].level = j + 1
      BY <2>5, LevelFacts DEF Level
    <3>2. nodes[c].parent \in Level(j)
      BY <3>1, LevelFacts DEF Level
    <3>3. QED
      BY <3>1, <3>2 DEF Children
  <2>6. ASSUME NEW p \in Level(j), NEW c \in Children(p) PROVE c \in Level(j + 1)
    BY LevelFacts DEF Level, Children
  <2>7. QED
    BY <2>4, <2>5, <2>6
<1>5. Nat \subseteq Right
  <2> HIDE DEF Right
  <2>1. QED
    BY <1>3, <1>4, InductionOnSets
<1>6. i \in Nat /\ i <= n
  BY <1>1 DEF n
<1>7. QED
  BY <1>5, <1>6

\* The levels with a node are those up to the last, and fewer than the nodes.
LEMMA LastLevel ==
    ASSUME IsBuilt
    PROVE  \E m \in Nat : /\ m + 1 <= Cardinality(index)
                          /\ \A i \in Nat : Level(i) # {} <=> i <= m
                          /\ \A c \in DOMAIN nodes : nodes[c].level \in 0 .. m
<1> DEFINE N == DOMAIN nodes
           Used == {i \in Nat : Level(i) # {}}
<1>1. 0 \in Used
  BY LevelFacts DEF Level
<1>2. ASSUME NEW i \in Nat, i + 1 \in Used PROVE i \in Used
  <2>1. PICK c \in N : nodes[c].level = i + 1
    BY <1>2 DEF Level
  <2>2. c # root /\ nodes[c].parent \in N /\ nodes[nodes[c].parent].level = i
    BY <2>1, LevelFacts
  <2>3. QED
    BY <2>2 DEF Level
<1>3. ASSUME NEW m \in Used PROVE \A i \in Nat : i <= m => i \in Used
  <2> DEFINE S == {k \in Nat : k <= m => m - k \in Used}
  <2>1. m \in Nat /\ 0 \in S
    OBVIOUS
  <2>2. ASSUME NEW k \in Nat, k \in S PROVE k + 1 \in S
    <3>1. SUFFICES ASSUME k + 1 <= m PROVE m - (k + 1) \in Used
      OBVIOUS
    <3>2. m - k \in Used /\ m - (k + 1) \in Nat /\ (m - (k + 1)) + 1 = m - k
      BY <2>1, <2>2, <3>1
    <3> HIDE DEF Used
    <3>3. QED
      BY <1>2, <3>2
  <2>3. Nat \subseteq S
    <3> HIDE DEF S
    <3>1. QED
      BY <2>1, <2>2, InductionOnSets
  <2>4. ASSUME NEW i \in Nat, i <= m PROVE i \in Used
    <3>1. m - i \in Nat /\ m - i <= m /\ m - (m - i) = i
      BY <2>1, <2>4
    <3>2. m - (m - i) \in Used
      BY <2>3, <3>1
    <3>3. QED
      BY <3>1, <3>2
  <2>5. QED
    BY <2>4
<1>4. ASSUME NEW m \in Used PROVE m + 1 <= Cardinality(N)
  <2> DEFINE f == [i \in 0 .. m |-> CHOOSE c \in N : nodes[c].level = i]
  <2>1. m \in Nat
    OBVIOUS
  <2>2. ASSUME NEW i \in 0 .. m PROVE f[i] \in N /\ nodes[f[i]].level = i
    <3>1. Level(i) # {}
      BY <1>3, <2>1
    <3>2. \E c \in N : nodes[c].level = i
      BY <3>1 DEF Level
    <3>3. QED
      BY <3>2
  <2>3. f \in Injection(0 .. m, N)
    <3>1. f \in [0 .. m -> N]
      BY <2>2
    <3>2. \A i, j \in 0 .. m : f[i] = f[j] => i = j
      BY <2>2
    <3> HIDE DEF f
    <3>3. QED
      BY <3>1, <3>2 DEF Injection, IsInjective
  <2> HIDE DEF f
  <2>4. Cardinality(0 .. m) <= Cardinality(N)
    BY <2>3, LevelFacts, FS_Injection
  <2>5. Cardinality(0 .. m) = m + 1
    BY <2>1, FS_Interval
  <2>6. QED
    BY <2>4, <2>5
<1>5. PICK m \in Used : \A i \in Used : i <= m
  <2>1. \A i \in Used : i <= Cardinality(N)
    BY <1>4, LevelFacts
  <2>2. Used \in SUBSET Nat /\ Used # {}
    BY <1>1
  <2> HIDE DEF Used
  <2>3. QED
    BY <2>1, <2>2, LevelFacts, GreatestNumber
<1>6. m \in Nat /\ m + 1 <= Cardinality(index)
  BY <1>4, LevelFacts
<1>7. \A i \in Nat : Level(i) # {} <=> i <= m
  BY <1>3, <1>5
<1>8. \A c \in DOMAIN nodes : nodes[c].level \in 0 .. m
  <2>1. ASSUME NEW c \in DOMAIN nodes PROVE nodes[c].level <= m /\ nodes[c].level \in Nat
    <3>1. nodes[c].level \in Nat /\ c \in Level(nodes[c].level)
      BY LevelFacts DEF Level
    <3>2. QED
      BY <1>7, <3>1
  <2>2. QED
    BY <1>6, <2>1
<1>9. QED
  BY <1>6, <1>7, <1>8

\* The layers are the levels with a node, which are all the tree.
LEMMA LayersOfTreeFacts ==
    ASSUME IsBuilt
    PROVE  \E m \in Nat : /\ LayersOfTree = [i \in 1 .. m + 1 |-> Level(i - 1)]
                          /\ UNION {Level(i - 1) : i \in 1 .. m + 1} = DOMAIN nodes
<1>1. PICK m \in Nat : /\ m + 1 <= Cardinality(index)
                       /\ \A i \in Nat : Level(i) # {} <=> i <= m
                       /\ \A c \in DOMAIN nodes : nodes[c].level \in 0 .. m
  BY LastLevel
<1> DEFINE n == Cardinality(index)
           D == {i \in DOMAIN Layer : Layer[i] # {}}
<1>2. DOMAIN Layer = 0 .. n /\ n \in Nat /\ \A i \in 0 .. n : Layer[i] = Level(i)
  BY LevelFacts, LayerFacts, LayersAreLevels
<1>3. D = 0 .. m
  <2> HIDE DEF n
  <2>1. \A i \in 0 .. n : Layer[i] # {} <=> i <= m
    BY <1>1, <1>2
  <2>2. m <= n
    BY <1>1, <1>2 DEF n
  <2>3. QED
    BY <1>2, <2>1, <2>2
<1>4. Cardinality(D) = m + 1
  <2> HIDE DEF D
  <2>1. Cardinality(0 .. m) = m + 1
    BY FS_Interval
  <2>2. QED
    BY <1>3, <2>1
<1>5. LayersOfTree = [i \in 1 .. m + 1 |-> Layer[i - 1]]
  BY <1>4 DEF LayersOfTree
<1>6. \A i \in 1 .. m + 1 : Layer[i - 1] = Level(i - 1)
  <2>1. \A i \in 1 .. m + 1 : i - 1 \in 0 .. n
    BY <1>1, <1>2
  <2>2. QED
    BY <1>2, <2>1
<1>7. LayersOfTree = [i \in 1 .. m + 1 |-> Level(i - 1)]
  BY <1>5, <1>6
<1>8. UNION {Level(i - 1) : i \in 1 .. m + 1} = DOMAIN nodes
  <2>1. ASSUME NEW c \in DOMAIN nodes PROVE \E i \in 1 .. m + 1 : c \in Level(i - 1)
    <3>1. nodes[c].level + 1 \in 1 .. m + 1 /\ (nodes[c].level + 1) - 1 = nodes[c].level
      BY <1>1
    <3>2. c \in Level(nodes[c].level)
      BY DEF Level
    <3>3. QED
      BY <3>1, <3>2
  <2>2. QED
    BY <2>1 DEF Level
<1>9. QED
  BY <1>7, <1>8

\* They add up to the index: the CHECK_EQ of get_cuboids_by_layer.
LEMMA LayersTotal ==
    ASSUME IsBuilt
    PROVE  MapThenSumSet(LAMBDA i : Cardinality(LayersOfTree[i]), DOMAIN LayersOfTree)
               = Cardinality(index)
<1>1. PICK m \in Nat : /\ LayersOfTree = [i \in 1 .. m + 1 |-> Level(i - 1)]
                       /\ UNION {Level(i - 1) : i \in 1 .. m + 1} = DOMAIN nodes
  BY LayersOfTreeFacts
<1> DEFINE L == LayersOfTree
           S == DOMAIN LayersOfTree
<1>2. MapThenSumSet(LAMBDA i : Cardinality(LayersOfTree[i]), DOMAIN LayersOfTree)
         = (CHOOSE iter : AddsUp(iter, S, L))[S]
  BY DEF MapThenSumSet, MapThenFoldSet, AddsUp
<1>3. S = 1 .. m + 1 /\ L = [i \in S |-> Level(i - 1)]
  BY <1>1
<1> HIDE DEF L, S
<1>4. IsFiniteSet(S)
  BY <1>3, FS_Interval
<1>5. L \in [S -> SUBSET DOMAIN nodes]
  BY <1>3 DEF Level
<1>6. \A i, j \in S : i # j => L[i] \cap L[j] = {}
  BY <1>3 DEF Level
<1>7. UNION {L[i] : i \in S} = DOMAIN nodes
  <2>1. {L[i] : i \in S} = {Level(i - 1) : i \in 1 .. m + 1}
    BY <1>3
  <2>2. QED
    BY <1>1, <2>1
<1>8. IsFiniteSet(DOMAIN nodes) /\ index = DOMAIN nodes
  BY LevelFacts
<1>9. /\ \E iter : AddsUp(iter, S, L)
      /\ \A iter : AddsUp(iter, S, L) => iter[S] = Cardinality(UNION {L[i] : i \in S})
  BY <1>4, <1>5, <1>6, <1>8, SumOfParts
<1>10. QED
  BY <1>2, <1>7, <1>8, <1>9

-----------------------------------------------------------------------------
(***************************************************************************)
(* get_cuboid_count of such a tree.                                        *)
(***************************************************************************)

\* The nodes from c up to the root: what is in every set with c and the parents
\* of its members.
Up(c) ==
    {a \in DOMAIN nodes :
        \A S \in SUBSET DOMAIN nodes :
            c \in S /\ (\A x \in S \ {root} : nodes[x].parent \in S) => a \in S}

\* The subtree of p.
Below(p) == {c \in DOMAIN nodes : p \in Up(c)}

\* The nodes above c are those above its parent, and c.
LEMMA UpSteps ==
    ASSUME IsBuilt, NEW c \in DOMAIN nodes
    PROVE  /\ Up(c) \subseteq DOMAIN nodes
           /\ c = root => Up(c) = {c}
           /\ c # root => Up(c) = {c} \cup Up(nodes[c].parent)
<1> DEFINE N == DOMAIN nodes
           Closed(S) == \A x \in S \ {root} : nodes[x].parent \in S
<1>1. \A d \in N : /\ Up(d) \in SUBSET N /\ d \in Up(d) /\ Closed(Up(d))
                   /\ \A S \in SUBSET N : d \in S /\ Closed(S) => Up(d) \subseteq S
  BY LevelFacts DEF Up
<1>2. CASE c = root
  <2>1. {c} \in SUBSET N /\ Closed({c})
    BY <1>2
  <2> HIDE DEF Closed
  <2>2. QED
    BY <1>1, <1>2, <2>1
<1>3. CASE c # root
  <2> DEFINE p == nodes[c].parent
             S == {c} \cup Up(p)
  <2>1. p \in N
    BY <1>3, LevelFacts
  <2>2. S \in SUBSET N /\ Closed(S)
    BY <1>1, <2>1
  <2>3. Up(c) \subseteq S
    <3> HIDE DEF Closed, p
    <3>1. c \in S
      OBVIOUS
    <3> HIDE DEF S
    <3>2. QED
      BY <1>1, <2>2, <3>1
  <2>4. p \in Up(c)
    BY <1>1, <1>3
  <2>5. Up(p) \subseteq Up(c)
    <3> HIDE DEF Closed, p, S
    <3>1. QED
      BY <1>1, <2>1, <2>4
  <2>6. QED
    BY <1>1, <1>3, <2>3, <2>5
<1>4. QED
  BY <1>1, <1>2, <1>3

\* There is one node on each level above c, and the root is one of them.
LEMMA UpFacts ==
    ASSUME IsBuilt, NEW c \in DOMAIN nodes
    PROVE  /\ c \in Up(c) /\ root \in Up(c)
           /\ \A a \in Up(c) : nodes[a].level <= nodes[c].level
           /\ \A a, b \in Up(c) : nodes[a].level = nodes[b].level => a = b
           /\ \A p \in Up(c) \ {c} : \E q \in Up(c) : q \in Children(p)
<1> DEFINE N == DOMAIN nodes
           Holds(d) ==
               /\ d \in Up(d) /\ root \in Up(d)
               /\ \A a \in Up(d) : nodes[a].level <= nodes[d].level
               /\ \A a, b \in Up(d) : nodes[a].level = nodes[b].level => a = b
               /\ \A p \in Up(d) \ {d} : \E q \in Up(d) : q \in Children(p)
           Right == {k \in Nat : \A d \in N : nodes[d].level = k => Holds(d)}
<1>1. 0 \in Right
  <2>1. ASSUME NEW d \in N, nodes[d].level = 0 PROVE Holds(d)
    <3>1. d = root
      BY <2>1, LevelFacts
    <3>2. Up(d) = {d}
      BY <3>1, UpSteps
    <3>3. QED
      BY <3>1, <3>2, LevelFacts
  <2>2. QED
    BY <2>1
<1>2. ASSUME NEW k \in Nat, k \in Right PROVE k + 1 \in Right
  <2>1. ASSUME NEW d \in N, nodes[d].level = k + 1 PROVE Holds(d)
    <3> DEFINE e == nodes[d].parent
    <3>1. d # root /\ e \in N /\ nodes[e].level = k
      BY <2>1, LevelFacts
    <3>2. Up(d) = {d} \cup Up(e) /\ Up(e) \subseteq N
      BY <3>1, UpSteps
    <3>3. Holds(e)
      BY <1>2, <3>1
    <3>4. d \in Children(e)
      BY <3>1 DEF Children
    <3> HIDE DEF e
    <3>5. \A a \in Up(e) : nodes[a].level \in Nat /\ nodes[a].level <= k
      BY <3>1, <3>2, <3>3, LevelFacts
    <3>6. \A a \in Up(d) : nodes[a].level <= nodes[d].level
      BY <2>1, <3>2, <3>5
    <3>7. \A a, b \in Up(d) : nodes[a].level = nodes[b].level => a = b
      BY <2>1, <3>2, <3>3, <3>5
    <3>8. ASSUME NEW p \in Up(d) \ {d} PROVE \E q \in Up(d) : q \in Children(p)
      BY <3>2, <3>3, <3>4
    <3>9. QED
      BY <3>2, <3>3, <3>6, <3>7, <3>8
  <2>2. QED
    BY <2>1
<1>3. Nat \subseteq Right
  <2> HIDE DEF Right
  <2>1. QED
    BY <1>1, <1>2, InductionOnSets
<1>4. nodes[c].level \in Right
  BY <1>3, LevelFacts
<1>5. QED
  BY <1>4

\* A subtree is its root and the subtrees of the root's children, which have
\* nothing in common.
LEMMA BelowFacts ==
    ASSUME IsBuilt, NEW p \in DOMAIN nodes
    PROVE  /\ Below(p) = {p} \cup (UNION {Below(q) : q \in Children(p)})
           /\ \A q \in Children(p) : q \in DOMAIN nodes /\ p \notin Below(q)
           /\ \A q, r \in Children(p) : q # r => Below(q) \cap Below(r) = {}
<1>1. \A q \in Children(p) : /\ q \in DOMAIN nodes \ {root} /\ nodes[q].parent = p
                             /\ nodes[q].level = nodes[p].level + 1
  BY LevelFacts DEF Children
<1>2. ASSUME NEW c \in Below(p), c # p PROVE \E q \in Children(p) : c \in Below(q)
  <2>1. c \in DOMAIN nodes /\ p \in Up(c) \ {c}
    BY <1>2 DEF Below
  <2>2. PICK q \in Up(c) : q \in Children(p)
    BY <2>1, UpFacts
  <2>3. QED
    BY <2>1, <2>2 DEF Below
<1>3. ASSUME NEW q \in Children(p), NEW c \in Below(q) PROVE c \in Below(p)
  <2>1. c \in DOMAIN nodes /\ q \in Up(c) /\ q # root /\ nodes[q].parent = p
    BY <1>1 DEF Below
  <2>2. \A S \in SUBSET DOMAIN nodes :
            c \in S /\ (\A x \in S \ {root} : nodes[x].parent \in S) => p \in S
    BY <2>1 DEF Up
  <2>3. QED
    BY <2>1, <2>2 DEF Below, Up
<1>4. p \in Below(p)
  BY UpFacts DEF Below
<1>5. ASSUME NEW q \in Children(p), p \in Below(q) PROVE FALSE
  <2>1. q \in Up(p)
    BY <1>5 DEF Below
  <2>2. nodes[q].level <= nodes[p].level
    BY <2>1, UpFacts
  <2>3. QED
    BY <1>1, <2>2, LevelFacts
<1>6. ASSUME NEW q \in Children(p), NEW r \in Children(p), NEW c \in Below(q), c \in Below(r)
      PROVE  q = r
  <2>1. c \in DOMAIN nodes /\ q \in Up(c) /\ r \in Up(c)
    BY <1>6 DEF Below
  <2>2. nodes[q].level = nodes[r].level
    BY <1>1
  <2>3. QED
    BY <2>1, <2>2, UpFacts
<1>7. Below(p) = {p} \cup (UNION {Below(q) : q \in Children(p)})
  BY <1>2, <1>3, <1>4
<1>8. QED
  BY <1>1, <1>5, <1>6, <1>7

\* What the recursion of get_cuboid_count adds to 1 for the node p.
ChildrenCount(count, p) == MapThenSumSet(LAMBDA child : count[child], Children(p))

\* It is the size of the subtree, when it is for the children.
LEMMA CountStep ==
    ASSUME IsBuilt, NEW p \in DOMAIN nodes, NEW count,
           \A q \in Children(p) : count[q] = Cardinality(Below(q))
    PROVE  1 + ChildrenCount(count, p) = Cardinality(Below(p))
<1> DEFINE S == Children(p)
           part == [q \in S |-> Below(q)]
           picked(s) == CHOOSE x \in s : TRUE
           Sums(iter) ==
               iter = [s \in SUBSET S |->
                          IF s = {} THEN 0 ELSE count[picked(s)] + iter[s \ {picked(s)}]]
           whole == UNION {Below(q) : q \in S}
<1>1. IsFiniteSet(DOMAIN nodes) /\ S \in SUBSET DOMAIN nodes
  BY LevelFacts DEF Children
<1>2. IsFiniteSet(S)
  BY <1>1, FS_Subset
<1>3. ChildrenCount(count, p) = (CHOOSE iter : Sums(iter))[S]
  BY DEF ChildrenCount, MapThenSumSet, MapThenFoldSet
<1>4. part \in [S -> SUBSET DOMAIN nodes]
  BY DEF Below
<1>5. \A x, y \in S : x # y => part[x] \cap part[y] = {}
  BY BelowFacts
<1>6. \A s \in SUBSET S : s # {} => picked(s) \in S
                                    /\ count[picked(s)] = Cardinality(part[picked(s)])
  <2>1. ASSUME NEW s \in SUBSET S, s # {}
        PROVE  picked(s) \in S /\ count[picked(s)] = Cardinality(part[picked(s)])
    <3>1. picked(s) \in S
      BY <2>1
    <3> HIDE DEF picked
    <3>2. QED
      BY <3>1
  <2>2. QED
    BY <2>1
<1>7. UNION {part[x] : x \in S} = whole
  BY Zenon
<1> HIDE DEF part, S
<1>8. ASSUME NEW iter PROVE Sums(iter) <=> AddsUp(iter, S, part)
  <2> DEFINE f == [s \in SUBSET S |->
                      IF s = {} THEN 0 ELSE count[picked(s)] + iter[s \ {picked(s)}]]
             g == [s \in SUBSET S |->
                      IF s = {} THEN 0
                      ELSE Cardinality(part[picked(s)]) + iter[s \ {picked(s)}]]
  <2>1. f = g
    <3> HIDE DEF picked
    <3>1. QED
      BY <1>6
  <2>2. AddsUp(iter, S, part) <=> iter = g
    BY DEF AddsUp
  <2> HIDE DEF g
  <2>3. QED
    BY <2>1, <2>2
<1>9. /\ \E iter : AddsUp(iter, S, part)
      /\ \A iter : AddsUp(iter, S, part) => iter[S] = Cardinality(whole)
  <2> HIDE DEF whole
  <2>1. QED
    BY <1>1, <1>2, <1>4, <1>5, <1>7, SumOfParts
<1>10. ChildrenCount(count, p) = Cardinality(whole)
  <2> HIDE DEF Sums
  <2>1. QED
    BY <1>3, <1>8, <1>9
<1>11. Below(p) = whole \cup {p} /\ p \notin whole /\ IsFiniteSet(whole)
  <2>1. Below(p) = whole \cup {p} /\ p \notin whole
    BY BelowFacts DEF S
  <2>2. whole \in SUBSET DOMAIN nodes
    BY <1>1 DEF Below
  <2> HIDE DEF whole
  <2>3. QED
    BY <1>1, <2>1, <2>2, FS_Subset
<1>12. QED
  <2> HIDE DEF whole
  <2>1. Cardinality(whole \cup {p}) = Cardinality(whole) + 1 /\ Cardinality(whole) \in Nat
    BY <1>11, FS_AddElement, FS_CardinalityType
  <2>2. QED
    BY <1>10, <1>11, <2>1

\* The recursion of get_cuboid_count.
IsCount(count) == count = [p \in DOMAIN nodes |-> 1 + ChildrenCount(count, p)]

\* All cuboids are counted from the base cuboid.
LEMMA AllCounted ==
    ASSUME IsBuilt
    PROVE  CuboidCount(base_cuboid_id) = Cardinality(AllCuboidIds)
<1> DEFINE N == DOMAIN nodes
           right == [p \in N |-> Cardinality(Below(p))]
<1>1. IsTree /\ root \in N
  BY NodesAreTree, LevelFacts DEF IsBuilt
<1>2. \A p \in N : \A q \in Children(p) : q \in N
  BY BelowFacts
<1>3. IsCount(right)
  <2>1. \A p \in N : 1 + ChildrenCount(right, p) = Cardinality(Below(p))
    <3>1. \A p \in N : \A q \in Children(p) : right[q] = Cardinality(Below(q))
      BY <1>2
    <3> HIDE DEF right
    <3>2. QED
      BY <3>1, CountStep
  <2>2. right = [p \in N |-> 1 + ChildrenCount(right, p)]
    BY <2>1
  <2>3. QED
    BY <2>2 DEF IsCount
<1>4. ASSUME NEW count, IsCount(count) PROVE \A p \in N : count[p] = Cardinality(Below(p))
  <2> DEFINE Wrong == {p \in N : count[p] # Cardinality(Below(p))}
             Sizes == {Cardinality(p) : p \in Wrong}
  <2>1. \A p \in N : count[p] = 1 + ChildrenCount(count, p)
    BY <1>4 DEF IsCount
  <2>2. ASSUME NEW p \in Wrong PROVE \E q \in Wrong : q \in Children(p)
    <3>1. SUFFICES ASSUME \A q \in Children(p) : q \notin Wrong PROVE FALSE
      OBVIOUS
    <3>2. \A q \in Children(p) : count[q] = Cardinality(Below(q))
      BY <1>2, <3>1
    <3>3. p \in N /\ count[p] # Cardinality(Below(p))
      OBVIOUS
    <3> HIDE DEF Wrong
    <3>4. QED
      BY <2>1, <3>2, <3>3, CountStep
  <2>3. SUFFICES ASSUME Wrong # {} PROVE FALSE
    OBVIOUS
  <2>4. \A p \in Wrong : p \in N
    OBVIOUS
  <2> HIDE DEF Wrong
  <2>5. \A p \in Wrong : Cardinality(p) \in Nat
    <3>1. \A p \in Wrong : p \in CuboidId
      BY <1>1, <2>4 DEF IsTree
    <3>2. QED
      BY <3>1, CuboidFacts
  <2>6. PICK m \in Sizes : \A n \in Sizes : m <= n
    <3>1. Sizes \in SUBSET Nat /\ Sizes # {}
      BY <2>3, <2>5
    <3> HIDE DEF Sizes
    <3>2. QED
      BY <3>1, LeastNumber
  <2>7. PICK p \in Wrong : m = Cardinality(p)
    BY <2>6
  <2>8. PICK q \in Wrong : q \in Children(p)
    BY <2>2
  <2>9. Cardinality(q) < Cardinality(p)
    BY <1>1, <2>4, <2>8, ChildIsSmaller
  <2>10. QED
    BY <2>5, <2>6, <2>7, <2>9
<1>5. CuboidCount(base_cuboid_id) = (CHOOSE count : IsCount(count))[base_cuboid_id]
  BY DEF CuboidCount, IsCount, ChildrenCount
<1>6. Below(root) = N
  BY UpFacts DEF Below
<1>7. IsCount(CHOOSE count : IsCount(count))
  BY <1>3
<1>8. QED
  BY <1>1, <1>4, <1>5, <1>6, <1>7, LevelFacts DEF AllCuboidIds

-----------------------------------------------------------------------------
(***************************************************************************)
(* get_cuboids_by_layer.                                                   *)
(***************************************************************************)

\* A tree that is built from a list with the base cuboid passes its CHECKs.
LEMMA BuiltIsChecked ==
    ASSUME ListInv, BaseListed, phase = "built"
    PROVE  /\ IsBuilt
           /\ GetCuboidsByLayer => phase' = "built" /\ layers' = LayersOfTree
<1>1. all_cuboid_ids # {}
  BY DEF ListInv, ListTypes, Rooted
<1>2. IsBuilt
  BY <1>1 DEF IsBuilt, BaseListed
<1>3. base_cuboid_id \in index
  BY <1>2, LevelFacts
<1>4. MapThenSumSet(LAMBDA i : Cardinality(LayersOfTree[i]), DOMAIN LayersOfTree)
         = Cardinality(AllCuboidIds)
  BY <1>2, LayersTotal DEF AllCuboidIds
<1>5. GetCuboidsByLayer => phase' = "built" /\ layers' = LayersOfTree
  BY <1>3, <1>4 DEF GetCuboidsByLayer
<1>6. QED
  BY <1>2, <1>5

\* The layers that are kept, of a tree that is built once.
LayersKept ==
    /\ phase = "empty" => index = {}
    /\ inits = 0 => phase \in {"empty", "aborted"}
    /\ layers # <<>> =>
          /\ phase = "built" /\ inits # 0
          /\ UNION {layers[i] : i \in DOMAIN layers} = index
          /\ \A i \in DOMAIN layers : \A c \in layers[i] : nodes[c].level = i - 1

\* They are the layers of the tree there is.
LEMMA LayersKeptStep ==
    ASSUME MaxInits \in {0, 1}, ListInv, BaseListed, LayersKept, [Next]_vars
    PROVE  LayersKept'
<1>1. CASE UNCHANGED vars
  BY <1>1 DEF vars, LayersKept
<1>2. ASSUME NEW list \in CuboidLists, InitCuboidTree(list) PROVE LayersKept'
  <2>1. inits \in Nat /\ inits < MaxInits /\ inits' = inits + 1
    BY <1>2 DEF InitCuboidTree, ListInv, ListTypes
  <2>2. inits = 0 /\ inits' # 0
    BY <2>1
  <2>3. layers' = <<>> /\ phase' = "adding"
    BY <1>2, <2>2 DEF InitCuboidTree, LayersKept
  <2>4. QED
    BY <2>2, <2>3 DEF LayersKept
<1>3. CASE AddCuboid
  BY <1>3 DEF AddCuboid, LayersKept
<1>4. CASE BuildIndex
  BY <1>4 DEF BuildIndex, LayersKept
<1>5. CASE GetCuboidsByLayer
  <2>1. UNCHANGED <<inits, nodes, index>> /\ phase \in {"empty", "built"} /\ layers = <<>>
    BY <1>5 DEF GetCuboidsByLayer
  <2>2. CASE phase = "empty"
    <3>1. base_cuboid_id \notin index
      BY <2>2 DEF LayersKept
    <3>2. phase' = "aborted" /\ layers' = layers
      BY <1>5, <3>1 DEF GetCuboidsByLayer
    <3>3. QED
      BY <2>1, <3>2 DEF LayersKept
  <2>3. CASE phase = "built"
    <3>1. IsBuilt /\ phase' = "built" /\ layers' = LayersOfTree
      BY <1>5, <2>3, BuiltIsChecked
    <3>2. PICK m \in Nat : /\ LayersOfTree = [i \in 1 .. m + 1 |-> Level(i - 1)]
                           /\ UNION {Level(i - 1) : i \in 1 .. m + 1} = DOMAIN nodes
      BY <3>1, LayersOfTreeFacts
    <3>3. DOMAIN layers' = 1 .. m + 1 /\ \A i \in 1 .. m + 1 : layers'[i] = Level(i - 1)
      BY <3>1, <3>2
    <3>4. UNION {layers'[i] : i \in DOMAIN layers'} = index'
      <4>1. {layers'[i] : i \in DOMAIN layers'} = {Level(i - 1) : i \in 1 .. m + 1}
        BY <3>3
      <4>2. QED
        BY <2>1, <3>1, <3>2, <4>1, LevelFacts
    <3>5. \A i \in DOMAIN layers' : \A c \in layers'[i] : nodes'[c].level = i - 1
      BY <2>1, <3>3 DEF Level
    <3>6. inits' # 0
      BY <2>1, <2>3 DEF LayersKept
    <3>7. QED
      BY <3>1, <3>4, <3>5, <3>6 DEF LayersKept
  <2>4. QED
    BY <2>1, <2>2, <2>3
<1>6. QED
  BY <1>1, <1>2, <1>3, <1>4, <1>5 DEF Next

\* And get_cuboid_count counts them all.
LEMMA KeptLayersOfTheTree ==
    ASSUME ListInv, BaseListed, LayersKept
    PROVE  LayersOfTheTree
<1>1. SUFFICES ASSUME phase = "built", layers # <<>>
               PROVE  /\ UNION {layers[i] : i \in DOMAIN layers} = AllCuboidIds
                      /\ CuboidCount(base_cuboid_id) = Cardinality(AllCuboidIds)
                      /\ \A i \in DOMAIN layers : \A c \in layers[i] : nodes[c].level = i - 1
  BY DEF LayersOfTheTree
<1>2. CuboidCount(base_cuboid_id) = Cardinality(AllCuboidIds)
  BY <1>1, BuiltIsChecked, AllCounted
<1>3. QED
  BY <1>1, <1>2 DEF LayersKept, AllCuboidIds
=============================================================================
