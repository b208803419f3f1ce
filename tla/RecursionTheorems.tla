------------------------- MODULE RecursionTheorems -------------------------
(***************************************************************************)
(* What the proofs share: induction over the natural numbers, in the form  *)
(* that the provers can use, what recursive functions come to, and what    *)
(* the sequences hold that are joined, flattened and folded.               *)
(***************************************************************************)
EXTENDS Integers, SequencesExt, SequenceTheorems, FiniteSetTheorems, WellFoundedInduction, TLAPS

\* A set of natural numbers has a least element.
LEMMA LeastNumber ==
    ASSUME NEW S \in SUBSET Nat, S # {}
    PROVE  \E m \in S : \A n \in S : m <= n
<1> DEFINE Less == {pair \in Nat \X Nat : pair[1] < pair[2]}
<1>1. IsWellFoundedOn(Less, Nat)
  BY NatLessThanWellFounded DEF OpToRel
<1>2. PICK m \in S : \A n \in S : <<n, m>> \notin Less
  <2> HIDE DEF Less
  <2>1. QED
    BY <1>1, WFMin
<1>3. ASSUME NEW n \in S PROVE m <= n
  <2>1. <<n, m>> \in Nat \X Nat /\ ~(n < m)
    BY <1>2
  <2>2. QED
    BY <2>1
<1>4. QED
  BY <1>3

\* And a greatest one, when it has a bound.
LEMMA GreatestNumber ==
    ASSUME NEW S \in SUBSET Nat, S # {}, NEW b \in Nat, \A n \in S : n <= b
    PROVE  \E m \in S : \A n \in S : n <= m
<1> DEFINE U == {b - n : n \in S}
<1>1. U \in SUBSET Nat /\ U # {}
  <2>1. \A n \in S : n \in Nat /\ n <= b
    OBVIOUS
  <2>2. \A n \in S : b - n \in Nat
    BY <2>1
  <2>3. QED
    BY <2>2
<1> HIDE DEF U
<1>2. PICK u \in U : \A v \in U : u <= v
  BY <1>1, LeastNumber
<1>3. PICK m \in S : u = b - m
  BY DEF U
<1>4. ASSUME NEW n \in S PROVE n <= m
  <2>1. b - n \in U
    BY DEF U
  <2>2. b - m <= b - n
    BY <1>2, <1>3, <2>1
  <2>3. QED
    BY <2>2
<1>5. QED
  BY <1>4

\* Induction over the natural numbers, for a set.
LEMMA InductionOnSets ==
    ASSUME NEW S, 0 \in S, \A n \in Nat : n \in S => n + 1 \in S
    PROVE  Nat \subseteq S
<1> DEFINE Missing == Nat \ S
<1>1. SUFFICES ASSUME Missing # {} PROVE FALSE
  OBVIOUS
<1>2. PICK m \in Missing : \A n \in Missing : m <= n
  BY <1>1, LeastNumber
<1>3. m # 0 /\ m \in Nat
  OBVIOUS
<1>4. m - 1 \in Nat /\ ~(m <= m - 1) /\ (m - 1) + 1 = m
  BY <1>3
<1>5. m - 1 \in S
  BY <1>2, <1>4
<1>6. QED
  BY <1>4, <1>5

\* h computes, from z, what step gives for each of the numbers up to n.
Computes(h, n, V, z, step) ==
    /\ h \in [0 .. n -> V]
    /\ h[0] = z
    /\ \A i \in 1 .. n : h[i] = step[i][h[i - 1]]

\* What can be computed step by step exists as a function: this is what the
\* recursive functions of the model are defined by.
LEMMA RecursionExists ==
    ASSUME NEW V, NEW z \in V, NEW step \in [Nat -> [V -> V]], NEW n \in Nat
    PROVE  \E h : Computes(h, n, V, z, step)
<1> DEFINE Computed == {m \in Nat : \E h : Computes(h, m, V, z, step)}
<1>1. 0 \in Computed
  <2>1. Computes([i \in 0 .. 0 |-> z], 0, V, z, step)
    BY DEF Computes
  <2>2. QED
    BY <2>1
<1>2. ASSUME NEW m \in Computed PROVE m + 1 \in Computed
  <2>1. m \in Nat /\ m + 1 \in Nat
    OBVIOUS
  <2>2. PICK h : Computes(h, m, V, z, step)
    OBVIOUS
  <2> DEFINE g == [i \in 0 .. m + 1 |-> IF i <= m THEN h[i] ELSE step[m + 1][h[m]]]
  <2>3. h[m] \in V /\ step[m + 1][h[m]] \in V
    <3>1. m \in 0 .. m
      BY <2>1
    <3>2. h[m] \in V
      BY <2>2, <3>1 DEF Computes
    <3>3. QED
      BY <2>1, <3>2
  <2>4. g \in [0 .. m + 1 -> V]
    <3>1. ASSUME NEW i \in 0 .. m + 1, i <= m PROVE h[i] \in V
      BY <2>1, <2>2, <3>1 DEF Computes
    <3>2. QED
      BY <2>3, <3>1
  <2>5. g[0] = z
    BY <2>1, <2>2 DEF Computes
  <2>6. ASSUME NEW i \in 1 .. m + 1 PROVE g[i] = step[i][g[i - 1]]
    <3>1. i \in 0 .. m + 1 /\ i - 1 \in 0 .. m + 1 /\ i - 1 <= m /\ i \in Nat
      BY <2>1
    <3>2. g[i - 1] = h[i - 1]
      BY <3>1
    <3>3. CASE i <= m
      <4>1. i \in 1 .. m /\ g[i] = h[i]
        BY <2>1, <3>1, <3>3
      <4>2. QED
        BY <2>2, <3>2, <4>1 DEF Computes
    <3>4. CASE i = m + 1
      <4>1. i - 1 = m /\ ~(i <= m)
        BY <2>1, <3>4
      <4>2. QED
        BY <3>1, <3>2, <3>4, <4>1
    <3>5. QED
      BY <2>1, <3>1, <3>3, <3>4
  <2> HIDE DEF g
  <2>7. Computes(g, m + 1, V, z, step)
    BY <2>4, <2>5, <2>6 DEF Computes
  <2>8. QED
    BY <2>1, <2>7
<1>3. Nat \subseteq Computed
  <2> HIDE DEF Computed
  <2>1. \A m \in Nat : m \in Computed => m + 1 \in Computed
    BY <1>2
  <2>2. QED
    BY <1>1, <2>1, InductionOnSets
<1>4. QED
  BY <1>3

\* g computes it for all of them.
ComputesAll(g, V, z, step) ==
    g \in [Nat -> V] /\ g[0] = z /\ \A n \in Nat : g[n + 1] = step[n + 1][g[n]]

\* Such a function exists just so.
LEMMA RecursionOnNat ==
    ASSUME NEW V, NEW z \in V, NEW step \in [Nat -> [V -> V]]
    PROVE  \E g : ComputesAll(g, V, z, step)
<1> DEFINE Upto(n) == CHOOSE h : Computes(h, n, V, z, step)
           g == [n \in Nat |-> Upto(n)[n]]
           Same == {i \in Nat : \A n \in Nat : \A m \in Nat : i <= n /\ i <= m => Upto(n)[i] = Upto(m)[i]}
<1>1. \A n \in Nat : Computes(Upto(n), n, V, z, step)
  BY RecursionExists
<1> HIDE DEF Upto
<1>2. \A n \in Nat : Upto(n) \in [0 .. n -> V] /\ Upto(n)[0] = z
  BY <1>1 DEF Computes
<1>3. ASSUME NEW i \in Nat, NEW n \in Nat, i + 1 <= n
      PROVE  Upto(n)[i + 1] = step[i + 1][Upto(n)[i]]
  <2>1. i + 1 \in 1 .. n /\ (i + 1) - 1 = i
    BY <1>3
  <2>2. QED
    BY <1>1, <2>1 DEF Computes
<1>4. 0 \in Same
  BY <1>2
<1>5. ASSUME NEW i \in Nat, i \in Same PROVE i + 1 \in Same
  <2>1. ASSUME NEW n \in Nat, NEW m \in Nat, i + 1 <= n, i + 1 <= m
        PROVE  Upto(n)[i + 1] = Upto(m)[i + 1]
    <3>1. i <= n /\ i <= m
      BY <2>1
    <3>2. Upto(n)[i] = Upto(m)[i]
      BY <1>5, <3>1
    <3>3. QED
      BY <1>3, <2>1, <3>2
  <2>2. QED
    BY <2>1
<1> HIDE DEF Same
<1>6. Nat \subseteq Same
  BY <1>4, <1>5, InductionOnSets
<1>7. g \in [Nat -> V] /\ g[0] = z
  <2>1. \A n \in Nat : n \in 0 .. n
    OBVIOUS
  <2>2. \A n \in Nat : Upto(n)[n] \in V
    BY <1>2, <2>1
  <2>3. QED
    BY <1>2, <2>2
<1>8. ASSUME NEW n \in Nat PROVE g[n + 1] = step[n + 1][g[n]]
  <2>1. n + 1 \in Nat /\ n <= n + 1 /\ n <= n /\ n + 1 <= n + 1
    OBVIOUS
  <2>2. Upto(n + 1)[n] = Upto(n)[n]
    BY <1>6, <2>1 DEF Same
  <2>3. Upto(n + 1)[n + 1] = step[n + 1][Upto(n + 1)[n]]
    BY <1>3, <2>1
  <2>4. g[n + 1] = Upto(n + 1)[n + 1] /\ g[n] = Upto(n)[n]
    BY <2>1
  <2> HIDE DEF g
  <2>5. QED
    BY <2>2, <2>3, <2>4
<1> HIDE DEF g
<1>9. ComputesAll(g, V, z, step)
  BY <1>7, <1>8 DEF ComputesAll
<1>10. QED
  BY <1>9

\* The least element of a finite set that is ordered.
LEMMA LeastOfOrdered ==
    ASSUME NEW S, IsFiniteSet(S), S # {}, NEW R,
           \A a \in S : <<a, a>> \notin R,
           \A a, b \in S : a # b => <<a, b>> \in R \/ <<b, a>> \in R,
           \A a, b, c \in S : <<a, b>> \in R /\ <<b, c>> \in R => <<a, c>> \in R
    PROVE  \E a \in S : \A b \in S \ {a} : <<a, b>> \in R
<1> DEFINE Above(a) == {b \in S : <<a, b>> \in R}
           Counts == {Cardinality(Above(a)) : a \in S}
<1>1. ASSUME NEW a \in S
      PROVE  /\ IsFiniteSet(Above(a)) /\ Cardinality(Above(a)) \in Nat
             /\ Cardinality(Above(a)) <= Cardinality(S)
  <2>1. Above(a) \in SUBSET S
    OBVIOUS
  <2> HIDE DEF Above
  <2>2. QED
    BY <2>1, FS_Subset, FS_CardinalityType
<1>2. Cardinality(S) \in Nat
  BY FS_CardinalityType
<1> HIDE DEF Above
<1>3. Counts \in SUBSET Nat /\ Counts # {} /\ \A n \in Counts : n <= Cardinality(S)
  <2>1. Counts \in SUBSET Nat
    BY <1>1
  <2>2. Counts # {}
    OBVIOUS
  <2>3. ASSUME NEW n \in Counts PROVE n <= Cardinality(S)
    BY <1>1
  <2>4. QED
    BY <2>1, <2>2, <2>3
<1> HIDE DEF Counts
<1>4. PICK m \in Counts : \A n \in Counts : n <= m
  BY <1>2, <1>3, GreatestNumber
<1>5. PICK a \in S : m = Cardinality(Above(a))
  BY DEF Counts
<1>6. ASSUME NEW b \in S \ {a}, <<a, b>> \notin R PROVE FALSE
  <2>1. <<b, a>> \in R
    BY <1>6
  <2>2. Above(a) \cup {a} \subseteq Above(b) /\ a \notin Above(a)
    BY <2>1 DEF Above
  <2>3. Cardinality(Above(a) \cup {a}) = Cardinality(Above(a)) + 1
    BY <1>1, <2>2, FS_AddElement
  <2>4. Cardinality(Above(a) \cup {a}) <= Cardinality(Above(b))
    BY <1>1, <2>2, FS_Subset
  <2>5. Cardinality(Above(b)) <= Cardinality(Above(a))
    <3>1. Cardinality(Above(b)) \in Counts
      BY <1>6 DEF Counts
    <3>2. QED
      BY <1>4, <1>5, <3>1
  <2>6. QED
    BY <1>1, <2>3, <2>4, <2>5
<1>7. QED
  BY <1>6

\* The greatest element of a finite set of numbers.
LEMMA MaxFacts ==
    ASSUME NEW S, IsFiniteSet(S), S # {}, \A n \in S : n \in Nat
    PROVE  Max(S) \in S /\ \A n \in S : n <= Max(S)
<1> DEFINE R == {pair \in Nat \X Nat : pair[2] < pair[1]}
<1>1. \A a, b \in S : <<a, b>> \in R <=> b < a
  OBVIOUS
<1> HIDE DEF R
<1>2. IsFiniteSet(S) /\ \A a \in S : a \in Nat
  OBVIOUS
<1>3. \A a \in S : <<a, a>> \notin R
  BY <1>1, <1>2
<1>4. \A a, b \in S : a # b => <<a, b>> \in R \/ <<b, a>> \in R
  BY <1>1, <1>2
<1>5. \A a, b, c \in S : <<a, b>> \in R /\ <<b, c>> \in R => <<a, c>> \in R
  BY <1>1, <1>2
<1>6. PICK a \in S : \A b \in S \ {a} : <<a, b>> \in R
  <2>1. IsFiniteSet(S)
    BY <1>2
  <2>2. QED
    BY <2>1, <1>3, <1>4, <1>5, LeastOfOrdered
<1>7. \A b \in S : a >= b
  <2>1. ASSUME NEW b \in S PROVE a >= b
    <3>1. b = a \/ b < a
      BY <1>1, <1>6
    <3>2. QED
      BY <1>2, <3>1
  <2>2. QED
    BY <2>1
<1>8. Max(S) \in S /\ \A b \in S : Max(S) >= b
  BY <1>7 DEF Max
<1>9. QED
  BY <1>2, <1>8

\* Min is the least number of a set.
LEMMA MinFacts ==
    ASSUME NEW S, S # {}, \A n \in S : n \in Nat
    PROVE  Min(S) \in S /\ \A n \in S : Min(S) <= n
<1>1. S \in SUBSET Nat
  OBVIOUS
<1>2. PICK m \in S : \A n \in S : m <= n
  BY <1>1, LeastNumber
<1>3. QED
  BY <1>2 DEF Min

-----------------------------------------------------------------------------
(***************************************************************************)
(* Sequences.                                                              *)
(***************************************************************************)

\* What two sequences hold, one after the other.
LEMMA ConcatFacts ==
    ASSUME NEW X, NEW u \in Seq(X), NEW v \in Seq(X)
    PROVE  /\ u \o v \in Seq(X)
           /\ \A x : x \in Range(u \o v) <=> x \in Range(u) \/ x \in Range(v)
           /\ IsInjective(u) /\ IsInjective(v) /\ Range(u) \cap Range(v) = {}
                 => IsInjective(u \o v)
<1> DEFINE w == u \o v
           m == Len(u)
           n == Len(v)
<1>1. /\ w \in Seq(X) /\ Len(w) = m + n /\ m \in Nat /\ n \in Nat
      /\ DOMAIN u = 1 .. m /\ DOMAIN v = 1 .. n /\ DOMAIN w = 1 .. m + n
  BY ConcatProperties, LenProperties
<1>2. \A i \in 1 .. m + n : w[i] = IF i <= m THEN u[i] ELSE v[i - m]
  BY ConcatProperties
<1> HIDE DEF w, m, n
<1>3. \A i \in 1 .. m : i \in 1 .. m + n /\ w[i] = u[i]
  BY <1>1, <1>2
<1>4. \A i \in 1 .. n : i + m \in 1 .. m + n /\ w[i + m] = v[i]
  <2>1. ASSUME NEW i \in 1 .. n
        PROVE  i + m \in 1 .. m + n /\ ~(i + m <= m) /\ (i + m) - m = i
    BY <1>1
  <2>2. QED
    BY <1>2, <2>1
<1>5. \A i \in 1 .. m + n :
          \/ i \in 1 .. m /\ w[i] = u[i]
          \/ i \notin 1 .. m /\ i - m \in 1 .. n /\ w[i] = v[i - m]
  <2>1. ASSUME NEW i \in 1 .. m + n
        PROVE  (i <= m /\ i \in 1 .. m) \/ (~(i <= m) /\ i \notin 1 .. m /\ i - m \in 1 .. n)
    BY <1>1
  <2>2. QED
    BY <1>2, <2>1
<1>6. \A x : x \in Range(w) <=> x \in Range(u) \/ x \in Range(v)
  BY <1>1, <1>3, <1>4, <1>5 DEF Range
<1>7. ASSUME IsInjective(u), IsInjective(v), Range(u) \cap Range(v) = {},
             NEW i \in 1 .. m + n, NEW j \in 1 .. m + n, w[i] = w[j]
      PROVE  i = j
  <2>1. \A k \in 1 .. m : u[k] \in Range(u)
    BY <1>1 DEF Range
  <2>2. \A k \in 1 .. n : v[k] \in Range(v)
    BY <1>1 DEF Range
  <2>3. CASE i \in 1 .. m /\ j \in 1 .. m
    BY <1>1, <1>3, <1>7, <2>3 DEF IsInjective
  <2>4. CASE i \in 1 .. m /\ j \notin 1 .. m
    BY <1>5, <1>7, <2>1, <2>2, <2>4
  <2>5. CASE i \notin 1 .. m /\ j \in 1 .. m
    BY <1>5, <1>7, <2>1, <2>2, <2>5
  <2>6. CASE i \notin 1 .. m /\ j \notin 1 .. m
    <3>1. i - m \in 1 .. n /\ j - m \in 1 .. n /\ v[i - m] = v[j - m]
      BY <1>5, <1>7, <2>6
    <3>2. i - m = j - m
      BY <1>1, <1>7, <3>1 DEF IsInjective
    <3>3. QED
      BY <1>1, <3>2
  <2>7. QED
    BY <2>3, <2>4, <2>5, <2>6
<1>8. IsInjective(u) /\ IsInjective(v) /\ Range(u) \cap Range(v) = {} => IsInjective(w)
  BY <1>1, <1>7 DEF IsInjective
<1>9. QED
  BY <1>1, <1>6, <1>8 DEF w

\* FlattenSeq as it is computed: a sequence longer by one of seqs at a time.
LEMMA FlattenComputes ==
    ASSUME NEW X, NEW seqs \in Seq(Seq(X)), Len(seqs) # 0
    PROVE  \E f : /\ f \in [1 .. Len(seqs) -> Seq(X)]
                  /\ f[1] = seqs[1]
                  /\ \A i \in 2 .. Len(seqs) : f[i] = f[i - 1] \o seqs[i]
                  /\ FlattenSeq(seqs) = f[Len(seqs)]
<1> DEFINE n == Len(seqs)
           V == Seq(X)
           step == [i \in Nat |-> [v \in V |-> IF i + 1 \in 1 .. n THEN v \o seqs[i + 1] ELSE v]]
           IsFlat(f) == f = [i \in 1 .. n |-> IF i = 1 THEN seqs[i] ELSE f[i - 1] \o seqs[i]]
<1>1. n \in Nat \ {0} /\ n - 1 \in Nat /\ DOMAIN seqs = 1 .. n /\ \A i \in 1 .. n : seqs[i] \in V
  OBVIOUS
<1>2. step \in [Nat -> [V -> V]]
  <2>1. ASSUME NEW i \in Nat, NEW v \in V
        PROVE  (IF i + 1 \in 1 .. n THEN v \o seqs[i + 1] ELSE v) \in V
    BY <1>1
  <2> HIDE DEF V
  <2>2. QED
    BY <2>1
<1>3. seqs[1] \in V
  BY <1>1
<1>4. PICK h : Computes(h, n - 1, V, seqs[1], step)
  <2> HIDE DEF V, step, n
  <2>1. QED
    BY <1>1, <1>2, <1>3, RecursionExists
<1> DEFINE g == [i \in 1 .. n |-> h[i - 1]]
<1>5. g \in [1 .. n -> V]
  <2>1. ASSUME NEW i \in 1 .. n PROVE h[i - 1] \in V
    <3>1. i - 1 \in 0 .. n - 1
      BY <1>1
    <3>2. QED
      BY <1>4, <3>1 DEF Computes
  <2>2. QED
    BY <2>1
<1>6. g[1] = seqs[1]
  <2>1. g[1] = h[0]
    BY <1>1
  <2>2. QED
    BY <1>4, <2>1 DEF Computes
<1>7. ASSUME NEW i \in 2 .. n PROVE g[i] = g[i - 1] \o seqs[i]
  <2>1. i - 1 \in 1 .. n - 1 /\ i - 1 \in 1 .. n /\ i \in 1 .. n /\ i - 1 \in Nat /\ (i - 1) + 1 = i
        /\ (i - 1) - 1 \in 0 .. n - 1
    BY <1>1
  <2>2. g[i] = h[i - 1] /\ g[i - 1] = h[(i - 1) - 1]
    BY <2>1
  <2>3. h[i - 1] = step[i - 1][h[(i - 1) - 1]] /\ h[(i - 1) - 1] \in V
    BY <1>4, <2>1 DEF Computes
  <2>4. step[i - 1][h[(i - 1) - 1]] = h[(i - 1) - 1] \o seqs[i]
    BY <2>1, <2>3
  <2>5. QED
    BY <2>2, <2>3, <2>4
<1> HIDE DEF g
<1>8. IsFlat(g)
  <2>1. \A i \in 1 .. n : i # 1 => i \in 2 .. n
    BY <1>1
  <2>2. \A i \in 1 .. n : g[i] = IF i = 1 THEN seqs[i] ELSE g[i - 1] \o seqs[i]
    BY <1>6, <1>7, <2>1
  <2>3. g = [i \in 1 .. n |-> g[i]]
    BY <1>5
  <2>4. QED
    BY <2>2, <2>3
<1> DEFINE f == CHOOSE e : IsFlat(e)
<1>9. IsFlat(f)
  <2> HIDE DEF IsFlat
  <2>1. QED
    BY <1>8
<1>10. FlattenSeq(seqs) = f[n]
  BY <1>1 DEF FlattenSeq
<1> HIDE DEF f
<1>11. DOMAIN f = 1 .. n /\ f[1] = seqs[1]
  BY <1>1, <1>9
<1>12. ASSUME NEW i \in 2 .. n PROVE f[i] = f[i - 1] \o seqs[i]
  <2>1. i \in 1 .. n /\ i # 1
    BY <1>1
  <2>2. QED
    BY <1>9, <2>1
<1>13. \A i \in 1 .. n : f[i] \in V
  <2> DEFINE Typed == {i \in Nat : i + 1 \in 1 .. n => f[i + 1] \in V}
  <2>1. 0 \in Typed
    BY <1>3, <1>11
  <2>2. ASSUME NEW i \in Nat, i \in Typed PROVE i + 1 \in Typed
    <3>1. SUFFICES ASSUME (i + 1) + 1 \in 1 .. n PROVE f[(i + 1) + 1] \in V
      OBVIOUS
    <3>2. /\ i + 1 \in 1 .. n /\ (i + 1) + 1 \in 2 .. n /\ ((i + 1) + 1) - 1 = i + 1
      BY <1>1, <3>1
    <3>3. f[i + 1] \in V /\ seqs[(i + 1) + 1] \in V
      BY <1>1, <2>2, <3>1, <3>2
    <3>4. f[(i + 1) + 1] = f[i + 1] \o seqs[(i + 1) + 1]
      BY <1>12, <3>2
    <3>5. QED
      BY <3>3, <3>4
  <2> HIDE DEF Typed
  <2>3. Nat \subseteq Typed
    BY <2>1, <2>2, InductionOnSets
  <2>4. ASSUME NEW i \in 1 .. n PROVE f[i] \in V
    <3>1. i - 1 \in Nat /\ (i - 1) + 1 = i
      BY <1>1
    <3>2. QED
      BY <2>3, <3>1 DEF Typed
  <2>5. QED
    BY <2>4
<1>14. f \in [1 .. n -> V]
  <2>1. f = [i \in 1 .. n |-> f[i]]
    BY <1>9
  <2> HIDE DEF V
  <2>2. QED
    BY <1>13, <2>1
<1>15. QED
  BY <1>10, <1>11, <1>12, <1>14

\* FlattenSeq holds what the sequences hold, and nothing twice when they do not.
LEMMA FlattenFacts ==
    ASSUME NEW X, NEW seqs \in Seq(Seq(X))
    PROVE  /\ FlattenSeq(seqs) \in Seq(X)
           /\ \A x : x \in Range(FlattenSeq(seqs)) <=> \E i \in DOMAIN seqs : x \in Range(seqs[i])
           /\ /\ \A i \in DOMAIN seqs : IsInjective(seqs[i])
              /\ \A i, j \in DOMAIN seqs : i # j => Range(seqs[i]) \cap Range(seqs[j]) = {}
              => IsInjective(FlattenSeq(seqs))
<1> DEFINE n == Len(seqs)
           Apart == /\ \A i \in DOMAIN seqs : IsInjective(seqs[i])
                    /\ \A i, j \in DOMAIN seqs : i # j => Range(seqs[i]) \cap Range(seqs[j]) = {}
<1>1. n \in Nat /\ DOMAIN seqs = 1 .. n /\ \A i \in 1 .. n : seqs[i] \in Seq(X)
  OBVIOUS
<1>2. CASE n = 0
  <2>1. seqs = <<>> /\ FlattenSeq(seqs) = <<>>
    BY <1>2 DEF FlattenSeq
  <2>2. DOMAIN <<>> = {}
    OBVIOUS
  <2>3. <<>> \in Seq(X)
    OBVIOUS
  <2>4. QED
    BY <2>1, <2>2, <2>3 DEF Range, IsInjective
<1>3. CASE n # 0
  <2>1. PICK f : /\ f \in [1 .. n -> Seq(X)]
                 /\ f[1] = seqs[1]
                 /\ \A i \in 2 .. n : f[i] = f[i - 1] \o seqs[i]
                 /\ FlattenSeq(seqs) = f[n]
    BY <1>3, FlattenComputes
  <2> DEFINE Holds(i) ==
                 /\ \A x : x \in Range(f[i]) <=> \E j \in 1 .. i : x \in Range(seqs[j])
                 /\ Apart => IsInjective(f[i])
             Held == {i \in Nat : i + 1 \in 1 .. n => Holds(i + 1)}
  <2>2. 0 \in Held
    <3>1. Holds(1)
      <4>1. 1 .. 1 = {1} /\ 1 \in DOMAIN seqs
        BY <1>1, <1>3
      <4>2. QED
        BY <2>1, <4>1
    <3>2. QED
      BY <3>1
  <2>3. ASSUME NEW i \in Nat, i \in Held PROVE i + 1 \in Held
    <3>1. SUFFICES ASSUME (i + 1) + 1 \in 1 .. n PROVE Holds((i + 1) + 1)
      OBVIOUS
    <3> DEFINE k == i + 1
    <3>2. /\ k \in 1 .. n /\ k + 1 \in 1 .. n /\ k + 1 \in 2 .. n /\ (k + 1) - 1 = k /\ k \in Nat
          /\ 1 .. k + 1 = (1 .. k) \cup {k + 1} /\ k + 1 \notin 1 .. k /\ 1 .. k \subseteq 1 .. n
      BY <1>1, <3>1
    <3>3. Holds(k)
      BY <2>3, <3>2
    <3> HIDE DEF k
    <3>4. f[k] \in Seq(X) /\ seqs[k + 1] \in Seq(X) /\ f[k + 1] = f[k] \o seqs[k + 1]
      BY <1>1, <2>1, <3>2
    <3>5. \A x : x \in Range(f[k + 1]) <=> x \in Range(f[k]) \/ x \in Range(seqs[k + 1])
      BY <3>4, ConcatFacts
    <3>6. \A x : x \in Range(f[k + 1]) <=> \E j \in 1 .. k + 1 : x \in Range(seqs[j])
      BY <3>2, <3>3, <3>5
    <3>7. ASSUME Apart PROVE IsInjective(f[k + 1])
      <4>1. IsInjective(f[k]) /\ IsInjective(seqs[k + 1])
        BY <1>1, <3>2, <3>3, <3>7
      <4>2. Range(f[k]) \cap Range(seqs[k + 1]) = {}
        <5>1. ASSUME NEW x \in Range(f[k]), x \in Range(seqs[k + 1]) PROVE FALSE
          <6>1. PICK j \in 1 .. k : x \in Range(seqs[j])
            BY <3>3
          <6>2. j \in 1 .. n /\ j # k + 1
            BY <3>2
          <6>3. Range(seqs[j]) \cap Range(seqs[k + 1]) = {}
            BY <1>1, <3>2, <3>7, <6>2
          <6>4. QED
            BY <5>1, <6>1, <6>3
        <5>2. QED
          BY <5>1
      <4>3. QED
        BY <3>4, <4>1, <4>2, ConcatFacts
    <3>8. Holds(k + 1)
      BY <3>6, <3>7
    <3>9. QED
      BY <3>8 DEF k
  <2> HIDE DEF Held
  <2>4. Nat \subseteq Held
    BY <2>2, <2>3, InductionOnSets
  <2>5. n - 1 \in Nat /\ (n - 1) + 1 = n /\ n \in 1 .. n
    BY <1>1, <1>3
  <2>6. Holds(n)
    BY <2>4, <2>5 DEF Held
  <2>7. FlattenSeq(seqs) \in Seq(X)
    BY <2>1, <2>5
  <2>8. QED
    BY <1>1, <2>1, <2>6, <2>7
<1>4. QED
  BY <1>2, <1>3

\* A sequence that holds nothing twice is as long as the set of what it holds.
LEMMA LengthOfInjective ==
    ASSUME NEW X, NEW s \in Seq(X), IsInjective(s)
    PROVE  IsFiniteSet(Range(s)) /\ Cardinality(Range(s)) = Len(s)
<1>1. Len(s) \in Nat /\ DOMAIN s = 1 .. Len(s) /\ s \in [1 .. Len(s) -> X]
  OBVIOUS
<1>2. s \in [1 .. Len(s) -> Range(s)]
  BY <1>1 DEF Range
<1>3. \A r \in Range(s) : \E i \in 1 .. Len(s) : s[i] = r
  BY <1>1 DEF Range
<1>4. \A i, j \in 1 .. Len(s) : s[i] = s[j] => i = j
  BY <1>1 DEF IsInjective
<1>5. ExistsBijection(1 .. Len(s), Range(s))
  BY <1>2, <1>3, <1>4 DEF ExistsBijection, Bijection, Injection, Surjection
<1>6. IsFiniteSet(1 .. Len(s)) /\ Cardinality(1 .. Len(s)) = Len(s)
  BY <1>1, FS_Interval
<1>7. QED
  BY <1>5, <1>6, FS_Bijection

-----------------------------------------------------------------------------
(***************************************************************************)
(* Sums.                                                                   *)
(***************************************************************************)

\* The element MapThenSumSet takes first.
Chosen(s) == CHOOSE x \in s : TRUE

\* iter has the sums of v over the parts of S, as MapThenSumSet computes them.
IsSum(iter, S, v) ==
    iter = [s \in SUBSET S |-> IF s = {} THEN 0 ELSE v[Chosen(s)] + iter[s \ {Chosen(s)}]]

Sum(v, S) == (CHOOSE iter : IsSum(iter, S, v))[S]

\* There are such sums.
LEMMA SumExists ==
    ASSUME NEW S, IsFiniteSet(S), NEW v \in [S -> Int]
    PROVE  \E iter \in [SUBSET S -> Int] : IsSum(iter, S, v)
<1> DEFINE Parts(n) == {s \in SUBSET S : Cardinality(s) <= n}
           Next(iter, s) == IF s = {} THEN 0 ELSE v[Chosen(s)] + iter[s \ {Chosen(s)}]
           Sums(iter, n) == iter \in [Parts(n) -> Int] /\ \A s \in Parts(n) : iter[s] = Next(iter, s)
           Found == {n \in Nat : \E iter : Sums(iter, n)}
<1>1. \A s \in SUBSET S : IsFiniteSet(s) /\ Cardinality(s) \in Nat /\ (Cardinality(s) = 0 <=> s = {})
  BY FS_Subset, FS_CardinalityType, FS_EmptySet
<1>2. ASSUME NEW s \in SUBSET S, s # {}
      PROVE  /\ Chosen(s) \in S /\ v[Chosen(s)] \in Int
             /\ s \ {Chosen(s)} \in SUBSET S
             /\ Cardinality(s \ {Chosen(s)}) = Cardinality(s) - 1
  <2>1. Chosen(s) \in s
    BY <1>2 DEF Chosen
  <2>2. QED
    BY <1>1, <2>1, FS_RemoveElement
<1>3. 0 \in Found
  <2>1. Parts(0) = {{}}
    BY <1>1
  <2>2. Sums([s \in {{}} |-> 0], 0)
    BY <2>1
  <2> HIDE DEF Sums
  <2>3. QED
    BY <2>2
<1>4. ASSUME NEW n \in Nat, n \in Found PROVE n + 1 \in Found
  <2>1. PICK f : Sums(f, n)
    BY <1>4
  <2> DEFINE g == [s \in Parts(n + 1) |-> Next(f, s)]
  <2>2. ASSUME NEW s \in Parts(n + 1), s # {}
        PROVE  s \ {Chosen(s)} \in Parts(n) /\ s \ {Chosen(s)} \in Parts(n + 1)
    <3>1. s \in SUBSET S /\ Cardinality(s) <= n + 1
      OBVIOUS
    <3>2. s \ {Chosen(s)} \in SUBSET S /\ Cardinality(s \ {Chosen(s)}) = Cardinality(s) - 1
      BY <1>2, <2>2, <3>1
    <3>3. Cardinality(s) \in Nat
      BY <1>1, <3>1
    <3>4. QED
      BY <3>1, <3>2, <3>3
  <2>3. ASSUME NEW s \in Parts(n) PROVE s \in Parts(n + 1) /\ g[s] = f[s]
    <3>1. s \in Parts(n + 1)
      BY <1>1
    <3>2. f[s] = Next(f, s)
      BY <2>1
    <3> HIDE DEF Next, Parts
    <3>3. QED
      BY <3>1, <3>2
  <2>4. ASSUME NEW s \in Parts(n + 1) PROVE g[s] \in Int /\ g[s] = Next(g, s)
    <3>1. CASE s = {}
      BY <3>1
    <3>2. CASE s # {}
      <4>1. s \ {Chosen(s)} \in Parts(n)
        BY <2>2, <3>2
      <4>2. v[Chosen(s)] \in Int
        BY <1>2, <3>2
      <4>3. f[s \ {Chosen(s)}] \in Int /\ g[s \ {Chosen(s)}] = f[s \ {Chosen(s)}]
        <5>1. f \in [Parts(n) -> Int]
          BY <2>1
        <5> HIDE DEF Parts, g
        <5>2. QED
          BY <2>3, <4>1, <5>1
      <4>4. g[s] = v[Chosen(s)] + f[s \ {Chosen(s)}]
        BY <3>2
      <4> HIDE DEF g, Parts
      <4>5. QED
        BY <3>2, <4>2, <4>3, <4>4
    <3>3. QED
      BY <3>1, <3>2
  <2>5. g \in [Parts(n + 1) -> Int]
    <3>1. g = [s \in Parts(n + 1) |-> g[s]]
      OBVIOUS
    <3> HIDE DEF g, Parts
    <3>2. QED
      BY <2>4, <3>1
  <2> HIDE DEF g, Next, Parts
  <2>6. Sums(g, n + 1)
    BY <2>4, <2>5
  <2>7. QED
    BY <2>6
<1>5. PICK iter : Sums(iter, Cardinality(S))
  <2> HIDE DEF Found
  <2>1. Nat \subseteq Found
    BY <1>3, <1>4, InductionOnSets
  <2>2. Cardinality(S) \in Found
    BY <1>1, <2>1
  <2>3. QED
    BY <2>2 DEF Found
<1>6. Parts(Cardinality(S)) = SUBSET S
  <2>1. \A s \in SUBSET S : Cardinality(s) <= Cardinality(S)
    BY FS_Subset
  <2>2. QED
    BY <2>1
<1>7. iter \in [SUBSET S -> Int] /\ \A s \in SUBSET S : iter[s] = Next(iter, s)
  BY <1>5, <1>6
<1>8. iter = [s \in SUBSET S |-> Next(iter, s)]
  <2> HIDE DEF Next
  <2>1. iter = [s \in SUBSET S |-> iter[s]]
    BY <1>7
  <2>2. QED
    BY <1>7, <2>1
<1>9. QED
  BY <1>7, <1>8 DEF IsSum

\* The sum over a set is that of its parts: it does not matter in which order the
\* elements are taken.
LEMMA SumFacts ==
    ASSUME NEW T, IsFiniteSet(T), NEW v \in [T -> Int]
    PROVE  /\ Sum(v, {}) = 0
           /\ \A S \in SUBSET T : Sum(v, S) \in Int
           /\ \A S \in SUBSET T : \A x \in S : Sum(v, S) = v[x] + Sum(v, S \ {x})
           /\ \A S \in SUBSET T : \A h : IsSum(h, S, v) => h[S] = Sum(v, S)
           /\ \A S \in SUBSET T : \E h : IsSum(h, S, v)
<1>1. PICK iter \in [SUBSET T -> Int] : IsSum(iter, T, v)
  BY SumExists
<1>2. \A s \in SUBSET T : /\ iter[s] \in Int
                          /\ iter[s] = IF s = {} THEN 0 ELSE v[Chosen(s)] + iter[s \ {Chosen(s)}]
  BY <1>1 DEF IsSum
<1>3. \A s \in SUBSET T : IsFiniteSet(s) /\ Cardinality(s) \in Nat
  BY FS_Subset, FS_CardinalityType
<1>4. \A s \in SUBSET T : \A x \in s : /\ s \ {x} \in SUBSET T /\ x \in T /\ v[x] \in Int
                                       /\ Cardinality(s \ {x}) = Cardinality(s) - 1
  BY <1>3, FS_RemoveElement
<1>5. \A s \in SUBSET T : s # {} => Chosen(s) \in s
  BY DEF Chosen
<1>6. ASSUME NEW S \in SUBSET T, NEW h, IsSum(h, S, v) PROVE h[S] = iter[S]
  <2> DEFINE Same == {n \in Nat : \A s \in SUBSET S : Cardinality(s) = n => h[s] = iter[s]}
  <2>1. \A s \in SUBSET S : /\ s \in SUBSET T
                            /\ h[s] = IF s = {} THEN 0 ELSE v[Chosen(s)] + h[s \ {Chosen(s)}]
    BY <1>6 DEF IsSum
  <2>2. 0 \in Same
    <3>1. \A s \in SUBSET S : Cardinality(s) = 0 => s = {}
      BY <1>3, FS_EmptySet
    <3>2. QED
      BY <1>2, <2>1, <3>1
  <2>3. ASSUME NEW n \in Nat, n \in Same PROVE n + 1 \in Same
    <3>1. ASSUME NEW s \in SUBSET S, Cardinality(s) = n + 1 PROVE h[s] = iter[s]
      <4>1. s # {} /\ s \in SUBSET T
        <5>1. Cardinality({}) = 0
          BY FS_EmptySet
        <5>2. s # {}
          BY <3>1, <5>1, n + 1 # 0
        <5>3. QED
          BY <5>2
      <4>2. Chosen(s) \in s
        BY <1>5, <4>1
      <4>3. s \ {Chosen(s)} \in SUBSET S /\ Cardinality(s \ {Chosen(s)}) = n
        BY <1>4, <3>1, <4>1, <4>2
      <4>4. h[s \ {Chosen(s)}] = iter[s \ {Chosen(s)}]
        BY <2>3, <4>3
      <4>5. QED
        BY <1>2, <2>1, <4>1, <4>4
    <3>2. QED
      BY <3>1
  <2> HIDE DEF Same
  <2>4. Nat \subseteq Same
    BY <2>2, <2>3, InductionOnSets
  <2>5. Cardinality(S) \in Same
    BY <1>3, <2>4
  <2>6. QED
    BY <2>5 DEF Same
<1>7. ASSUME NEW S \in SUBSET T PROVE \E h : IsSum(h, S, v)
  <2>1. [x \in S |-> v[x]] \in [S -> Int] /\ IsFiniteSet(S)
    BY <1>3
  <2> DEFINE u == [x \in S |-> v[x]]
  <2>2. PICK h : IsSum(h, S, u)
    <3> HIDE DEF u
    <3>1. u \in [S -> Int]
      BY <2>1 DEF u
    <3>2. QED
      BY <2>1, <3>1, SumExists
  <2>3. \A s \in SUBSET S : s # {} => u[Chosen(s)] = v[Chosen(s)]
    BY <1>5
  <2>4. h = [s \in SUBSET S |-> h[s]]
        /\ \A s \in SUBSET S : h[s] = IF s = {} THEN 0 ELSE u[Chosen(s)] + h[s \ {Chosen(s)}]
    <3> HIDE DEF u
    <3>1. QED
      BY <2>2 DEF IsSum
  <2> HIDE DEF u
  <2>5. \A s \in SUBSET S : h[s] = IF s = {} THEN 0 ELSE v[Chosen(s)] + h[s \ {Chosen(s)}]
    BY <2>3, <2>4
  <2>6. IsSum(h, S, v)
    BY <2>4, <2>5 DEF IsSum
  <2>7. QED
    BY <2>6
<1>8. \A S \in SUBSET T : Sum(v, S) = iter[S]
  BY <1>6, <1>7 DEF Sum
<1>9. \A S \in SUBSET T : \A x \in S : iter[S] = v[x] + iter[S \ {x}]
  <2> DEFINE AnySum == {n \in Nat : \A s \in SUBSET T : Cardinality(s) = n =>
                                     \A x \in s : iter[s] = v[x] + iter[s \ {x}]}
  <2>1. 0 \in AnySum
    BY <1>3, FS_EmptySet
  <2>2. ASSUME NEW n \in Nat, n \in AnySum PROVE n + 1 \in AnySum
    <3>1. ASSUME NEW s \in SUBSET T, Cardinality(s) = n + 1, NEW x \in s
          PROVE  iter[s] = v[x] + iter[s \ {x}]
      <4> DEFINE c == Chosen(s)
      <4>1. c \in s /\ iter[s] = v[c] + iter[s \ {c}]
        BY <1>2, <1>5
      <4> HIDE DEF c
      <4>2. CASE c = x
        BY <4>1, <4>2
      <4>3. CASE c # x
        <5>1. /\ s \ {c} \in SUBSET T /\ Cardinality(s \ {c}) = n /\ x \in s \ {c}
              /\ s \ {x} \in SUBSET T /\ Cardinality(s \ {x}) = n /\ c \in s \ {x}
          BY <1>4, <3>1, <4>1, <4>3
        <5>2. iter[s \ {c}] = v[x] + iter[(s \ {c}) \ {x}]
          BY <2>2, <5>1
        <5>3. iter[s \ {x}] = v[c] + iter[(s \ {x}) \ {c}]
          BY <2>2, <5>1
        <5>4. (s \ {c}) \ {x} = (s \ {x}) \ {c} /\ (s \ {c}) \ {x} \in SUBSET T
          OBVIOUS
        <5>5. v[c] \in Int /\ v[x] \in Int /\ iter[(s \ {c}) \ {x}] \in Int
          BY <1>2, <1>4, <4>1, <5>4
        <5> DEFINE rest == iter[(s \ {c}) \ {x}]
        <5>6. /\ iter[s] = v[c] + iter[s \ {c}]
              /\ iter[s \ {c}] = v[x] + rest
              /\ iter[s \ {x}] = v[c] + rest
          BY <4>1, <5>2, <5>3, <5>4
        <5> HIDE DEF rest
        <5>7. rest \in Int
          BY <5>5 DEF rest
        <5>8. QED
          BY <5>5, <5>6, <5>7
      <4>4. QED
        BY <4>2, <4>3
    <3>2. QED
      BY <3>1
  <2> HIDE DEF AnySum
  <2>3. Nat \subseteq AnySum
    BY <2>1, <2>2, InductionOnSets
  <2>4. \A s \in SUBSET T : Cardinality(s) \in AnySum
    BY <1>3, <2>3
  <2>5. QED
    BY <2>4 DEF AnySum
<1>10. \A S \in SUBSET T : iter[S] \in Int /\ \A x \in S : S \ {x} \in SUBSET T
  BY <1>2
<1>11. iter[{}] = 0
  BY <1>2
<1>12. QED
  BY <1>6, <1>7, <1>8, <1>9, <1>10, <1>11

\* The sums over two sets with nothing in common add up.
LEMMA SumOfUnion ==
    ASSUME NEW T, IsFiniteSet(T), NEW v \in [T -> Int], NEW A \in SUBSET T, NEW B \in SUBSET T, A \cap B = {}
    PROVE  Sum(v, A \cup B) = Sum(v, A) + Sum(v, B)
<1> DEFINE Adds == {n \in Nat : \A s \in SUBSET A : Cardinality(s) = n => Sum(v, s \cup B) = Sum(v, s) + Sum(v, B)}
<1>1. \A s \in SUBSET A : IsFiniteSet(s) /\ Cardinality(s) \in Nat /\ s \in SUBSET T /\ s \cup B \in SUBSET T
  BY FS_Subset, FS_CardinalityType
<1>2. Sum(v, {}) = 0 /\ \A s \in SUBSET T : Sum(v, s) \in Int
  BY SumFacts
<1>3. 0 \in Adds
  <2>1. \A s \in SUBSET A : Cardinality(s) = 0 => s = {}
    BY <1>1, FS_EmptySet
  <2>2. {} \cup B = B
    OBVIOUS
  <2>3. Sum(v, {} \cup B) = Sum(v, {}) + Sum(v, B)
    BY <1>2, <2>2
  <2>4. QED
    BY <2>1, <2>3
<1>4. ASSUME NEW n \in Nat, n \in Adds PROVE n + 1 \in Adds
  <2>1. ASSUME NEW s \in SUBSET A, Cardinality(s) = n + 1
        PROVE  Sum(v, s \cup B) = Sum(v, s) + Sum(v, B)
    <3>1. s # {}
      <4>1. Cardinality({}) = 0
        BY FS_EmptySet
      <4>2. QED
        BY <2>1, <4>1
    <3>2. PICK x \in s : TRUE
      BY <3>1
    <3>3. Cardinality(s \ {x}) = n /\ s \ {x} \in SUBSET A
      <4>1. IsFiniteSet(s)
        BY <1>1
      <4>2. Cardinality(s \ {x}) = Cardinality(s) - 1
        BY <4>1, <3>2, FS_RemoveElement
      <4>3. QED
        BY <2>1, <4>2
    <3>4. Sum(v, (s \ {x}) \cup B) = Sum(v, s \ {x}) + Sum(v, B)
      BY <1>4, <3>3
    <3>5. (s \cup B) \ {x} = (s \ {x}) \cup B /\ x \in s \cup B
      OBVIOUS
    <3>6. Sum(v, s) = v[x] + Sum(v, s \ {x})
      BY <1>1, SumFacts
    <3>7. Sum(v, s \cup B) = v[x] + Sum(v, (s \cup B) \ {x})
      BY <1>1, <3>5, SumFacts
    <3>8. v[x] \in Int /\ Sum(v, s \ {x}) \in Int /\ Sum(v, B) \in Int
      BY <1>2
    <3>9. Sum(v, s \cup B) = v[x] + (Sum(v, s \ {x}) + Sum(v, B))
      BY <3>4, <3>5, <3>7
    <3>10. QED
      BY <3>6, <3>8, <3>9
  <2>2. QED
    BY <2>1
<1> HIDE DEF Adds
<1>5. Nat \subseteq Adds
  BY <1>3, <1>4, InductionOnSets
<1>6. Cardinality(A) \in Adds
  BY <1>1, <1>5
<1>7. QED
  BY <1>6 DEF Adds
=============================================================================
