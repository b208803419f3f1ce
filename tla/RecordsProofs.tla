--------------------------- MODULE RecordsProofs ----------------------------
(***************************************************************************)
(* The records of the cube, for any columns, encodings, measures and       *)
(* tables: that a key says which cuboid it is of and which values its rows *)
(* have, that a record of a level that is built has all of them, and that  *)
(* counts, sums and maxima are those of the rows, however the records are  *)
(* combined.                                                               *)
(***************************************************************************)
EXTENDS CuboidRecords, RecursionTheorems

-----------------------------------------------------------------------------
(***************************************************************************)
(* Arithmetic.                                                             *)
(***************************************************************************)

\* The larger factor gives the larger product.
LEMMA Products ==
    ASSUME NEW d \in Nat \ {0}, NEW p \in Int, NEW q \in Int
    PROVE  /\ d * p \in Int
           /\ p >= 0 => d * p >= p /\ d * p >= 0
           /\ p < q => d * p + d <= d * q
<1>1. ASSUME NEW k \in Int, k >= 0 PROVE d * k \in Int /\ d * k >= k
  BY <1>1, Z3
<1>2. ASSUME p < q PROVE d * p + d <= d * q
  <2>1. q - p - 1 \in Int /\ q - p - 1 >= 0
    BY <1>2
  <2>2. d * (q - p - 1) >= 0 /\ d * (q - p - 1) \in Int
    BY <1>1, <2>1
  <2>3. d * (q - p - 1) = d * q - d * p - d
    BY Z3
  <2>4. d * q \in Int /\ d * p \in Int
    BY Z3
  <2>5. QED
    BY <2>2, <2>3, <2>4
<1>3. d * p \in Int
  BY Z3
<1>4. QED
  BY <1>1, <1>2, <1>3

\* Division with a remainder.
LEMMA DivFacts ==
    ASSUME NEW n \in Int, NEW d \in Nat \ {0}
    PROVE  /\ n \div d \in Int /\ n % d \in 0 .. d - 1
           /\ n = d * (n \div d) + (n % d)
           /\ \A q \in Int : \A r \in 0 .. d - 1 : n = d * q + r => q = n \div d /\ r = n % d
<1>1. n \div d \in Int /\ n % d \in 0 .. d - 1
  BY Z3
<1>2. n = d * (n \div d) + (n % d)
  BY Z3
<1>3. ASSUME NEW q \in Int, NEW r \in 0 .. d - 1, n = d * q + r PROVE q = n \div d /\ r = n % d
  <2> DEFINE p == n \div d
             s == n % d
  <2>1. p \in Int /\ s \in 0 .. d - 1 /\ d * p + s = d * q + r
    BY <1>1, <1>2, <1>3
  <2> HIDE DEF p, s
  <2>2. d * p \in Int /\ d * q \in Int
    BY <2>1, Products
  <2>3. ~(p < q)
    <3>1. p < q => d * p + d <= d * q
      BY <2>1, Products
    <3>2. QED
      BY <2>1, <2>2, <3>1
  <2>4. ~(q < p)
    <3>1. q < p => d * q + d <= d * p
      BY <2>1, Products
    <3>2. QED
      BY <2>1, <2>2, <3>1
  <2>5. p = q
    BY <2>1, <2>3, <2>4
  <2>6. r = s
    <3>1. d * p = d * q
      BY <2>5
    <3>2. QED
      BY <2>1, <2>2, <3>1
  <2>7. QED
    BY <2>5, <2>6 DEF p, s
<1>4. QED
  BY <1>1, <1>2, <1>3

\* Dividing twice.
LEMMA DivDiv ==
    ASSUME NEW n \in Int, NEW d \in Nat \ {0}, NEW e \in Nat \ {0}
    PROVE  (n \div e) \div d = n \div (d * e)
<1> DEFINE m == n \div e
           r == n % e
           q == m \div d
           s == m % d
<1>1. m \in Int /\ r \in 0 .. e - 1 /\ n = e * m + r
  BY DivFacts
<1>2. q \in Int /\ s \in 0 .. d - 1 /\ m = d * q + s
  BY <1>1, DivFacts
<1> HIDE DEF m, r, q, s
<1>3. d * e \in Nat \ {0}
  <2>1. d * e \in Int /\ d * e >= e
    BY Products
  <2>2. QED
    BY <2>1
<1>4. n = (d * e) * q + (e * s + r)
  <2>1. e * (d * q + s) = (d * e) * q + e * s
    BY <1>2, Z3
  <2>2. (d * e) * q \in Int /\ e * s \in Int
    BY <1>2, <1>3, Products
  <2>3. QED
    BY <1>1, <1>2, <2>1, <2>2
<1>5. e * s + r \in 0 .. d * e - 1
  <2>1. s \in Int /\ s >= 0 /\ d \in Int /\ s < d
    BY <1>2
  <2>2. e * s \in Int /\ e * s >= 0 /\ e * s + e <= e * d
    BY <2>1, Products
  <2>3. e * d = d * e
    BY Z3
  <2>4. QED
    BY <1>1, <1>3, <2>2, <2>3
<1>6. q = n \div (d * e)
  <2> DEFINE de == d * e
             rest == e * s + r
  <2>1. de \in Nat \ {0} /\ n = de * q + rest /\ rest \in 0 .. de - 1
    BY <1>3, <1>4, <1>5
  <2> HIDE DEF de, rest
  <2>2. q = n \div de
    BY <1>2, <2>1, DivFacts
  <2>3. QED
    BY <2>2 DEF de
<1>7. QED
  BY <1>3, <1>6 DEF q, m

\* Powers as they are computed.
LEMMA PowerFacts ==
    ASSUME NEW base \in Nat \ {0}
    PROVE  /\ Power(base, 0) = 1
           /\ \A n \in Nat : /\ Power(base, n) \in Nat \ {0}
                             /\ Power(base, n + 1) = base * Power(base, n)
<1> DEFINE IsPowers(h) == h = [i \in Nat |-> IF i = 0 THEN 1 ELSE base * h[i - 1]]
           powers == CHOOSE h : IsPowers(h)
<1>1. \A n : Power(base, n) = powers[n]
  BY DEF Power
<1>2. \E h : IsPowers(h)
  <2> DEFINE step == [i \in Nat |-> [v \in Nat |-> base * v]]
             Next0(h, n) == IF n = 0 THEN 1 ELSE base * h[n - 1]
  <2>1. step \in [Nat -> [Nat -> Nat]]
    <3>1. \A v \in Nat : base * v \in Nat
      BY Products
    <3>2. QED
      BY <3>1
  <2>2. PICK g : ComputesAll(g, Nat, 1, step)
    <3> HIDE DEF step
    <3>1. QED
      BY <2>1, RecursionOnNat
  <2>3. ASSUME NEW n \in Nat PROVE g[n] = Next0(g, n)
    <3>1. CASE n = 0
      BY <2>2, <3>1 DEF ComputesAll
    <3>2. CASE n # 0
      <4> DEFINE m == n - 1
      <4>1. m \in Nat /\ m + 1 = n
        BY <3>2
      <4>2. g[m + 1] = step[m + 1][g[m]] /\ g[m] \in Nat
        <5> HIDE DEF m, step
        <5>1. QED
          BY <2>2, <4>1 DEF ComputesAll
      <4>3. QED
        BY <3>2, <4>1, <4>2
    <3>3. QED
      BY <3>1, <3>2
  <2> HIDE DEF Next0
  <2>4. g = [n \in Nat |-> Next0(g, n)]
    BY <2>2, <2>3 DEF ComputesAll
  <2>5. QED
    BY <2>4 DEF Next0
<1>3. IsPowers(powers)
  <2> HIDE DEF IsPowers
  <2>1. QED
    BY <1>2
<1> HIDE DEF powers
<1>4. powers[0] = 1
  BY <1>3
<1>5. ASSUME NEW n \in Nat PROVE powers[n + 1] = base * powers[n]
  BY <1>3
<1>6. \A n \in Nat : powers[n] \in Nat \ {0}
  <2> DEFINE Positive == {n \in Nat : powers[n] \in Nat \ {0}}
  <2>1. 0 \in Positive
    BY <1>4
  <2>2. ASSUME NEW n \in Nat, n \in Positive PROVE n + 1 \in Positive
    <3>1. powers[n] \in Nat \ {0} /\ base \in Int
      BY <2>2
    <3>2. base * powers[n] \in Int /\ base * powers[n] >= powers[n]
      BY <3>1, Products
    <3>3. QED
      BY <1>5, <3>1, <3>2
  <2> HIDE DEF Positive
  <2>3. Nat \subseteq Positive
    BY <2>1, <2>2, InductionOnSets
  <2>4. QED
    BY <2>3 DEF Positive
<1>7. QED
  BY <1>1, <1>4, <1>5, <1>6

\* The numbers a byte, a long and an int are counted with.
LEMMA RadixPowers ==
    /\ Radix \in Nat \ {0, 1}
    /\ Power(Radix, 0) = 1
    /\ \A n \in Nat : /\ Power(Radix, n) \in Nat \ {0}
                      /\ Power(Radix, n + 1) = Radix * Power(Radix, n)
    /\ LongLength \in Nat /\ IntLength \in Nat /\ DateLength \in Nat
    /\ LongLength >= 3
<1>1. Radix \in Nat \ {0, 1} /\ Radix \in Nat \ {0}
  BY LengthAssumption
<1>2. QED
  BY <1>1, LengthAssumption, PowerFacts

\* The number without its last digit.
LEMMA NextDigit ==
    ASSUME NEW n \in Int, NEW e \in Nat \ {0}
    PROVE  (n \div e) \div Radix = n \div (Radix * e)
<1>1. Radix \in Nat \ {0}
  BY RadixPowers
<1>2. QED
  BY <1>1, DivDiv, Zenon

\* The value read_long makes of the first i bytes, where h has it for each i.
ReadsTo(h, bytes) ==
    h = [i \in 0 .. Len(bytes) |-> IF i = 0 THEN 0 ELSE h[i - 1] * Radix + bytes[i]]

\* read_long, given the value of the bytes.
LEMMA ReadLongIs ==
    ASSUME NEW bytes, NEW h, ReadsTo(h, bytes), \A g : ReadsTo(g, bytes) => g = h
    PROVE  ReadLong(bytes) =
              {garbage * Power(Radix, Len(bytes)) + h[Len(bytes)] :
                  garbage \in 0 .. Power(Radix, LongLength - Len(bytes)) - 1}
<1> DEFINE value == CHOOSE g : ReadsTo(g, bytes)
<1>1. value = h
  <2>1. ReadsTo(value, bytes)
    BY ReadsTo(h, bytes)
  <2>2. QED
    BY <2>1
<1>2. ReadLong(bytes) =
              {garbage * Power(Radix, Len(bytes)) + value[Len(bytes)] :
                  garbage \in 0 .. Power(Radix, LongLength - Len(bytes)) - 1}
  BY DEF ReadLong, ReadsTo
<1> HIDE DEF value
<1>3. QED
  BY <1>1, <1>2

\* read_long of what write_long wrote of num: its low bytes.
LEMMA ReadWritten ==
    ASSUME NEW num \in Int, NEW size \in Nat
    PROVE  /\ Len(WriteLong(num, size)) = size
           /\ DOMAIN WriteLong(num, size) = 1 .. size
           /\ ReadLong(WriteLong(num, size)) =
                 {garbage * Power(Radix, size) + (num % Power(Radix, size)) :
                     garbage \in 0 .. Power(Radix, LongLength - size) - 1}
<1> DEFINE bytes == WriteLong(num, size)
           P(i) == Power(Radix, i)
           high == num \div P(size)
           Read(i) == (num \div P(size - i)) - P(i) * high
           h == [i \in 0 .. size |-> Read(i)]
<1>1. bytes = [i \in 1 .. size |-> (num \div P(size - i)) % Radix]
  BY DEF WriteLong
<1> HIDE DEF bytes
<1>2. Len(bytes) = size /\ DOMAIN bytes = 1 .. size
  BY <1>1
<1>3. /\ \A i \in Nat : P(i) \in Nat \ {0} /\ P(i + 1) = Radix * P(i)
      /\ P(0) = 1 /\ Radix \in Nat \ {0}
  BY RadixPowers
<1> HIDE DEF P
<1>4. \A n \in Int : n \div 1 = n
  <2>1. ASSUME NEW n \in Int PROVE n = n \div 1
    <3>1. 1 \in Nat \ {0} /\ 0 \in 0 .. 1 - 1 /\ n = 1 * n + 0
      OBVIOUS
    <3>2. QED
      BY <3>1, DivFacts
  <2>2. QED
    BY <2>1
<1>5. high \in Int
  BY <1>3, DivFacts
<1>6. Read(0) = 0
  <2>1. P(size - 0) = P(size)
    OBVIOUS
  <2>2. QED
    BY <1>3, <1>5, <2>1
<1>7. ASSUME NEW i \in Nat, i + 1 <= size
      PROVE  Read(i + 1) = Read(i) * Radix + bytes[i + 1] /\ Read(i) \in Int
  <2> DEFINE m == num \div P(size - (i + 1))
             d == num \div P(size - i)
  <2>1. size - (i + 1) \in Nat /\ (size - (i + 1)) + 1 = size - i /\ i + 1 \in 1 .. size
    BY <1>7
  <2>2. P(size - (i + 1)) \in Nat \ {0} /\ P(size - i) = Radix * P(size - (i + 1)) /\ P(size - i) \in Nat \ {0}
    BY <1>3, <2>1
  <2>3. m \in Int /\ d \in Int /\ m \div Radix = d
    <3>1. (num \div P(size - (i + 1))) \div Radix = num \div (Radix * P(size - (i + 1)))
      <4> DEFINE e == P(size - (i + 1))
      <4>1. e \in Nat \ {0}
        BY <2>2
      <4> HIDE DEF e
      <4>2. (num \div e) \div Radix = num \div (Radix * e)
        BY <4>1, NextDigit, Zenon
      <4>3. QED
        BY <4>2 DEF e
    <3>2. m \in Int /\ d \in Int
      BY <2>2, DivFacts
    <3>3. QED
      BY <2>2, <3>1, <3>2
  <2>4. bytes[i + 1] = m % Radix
    BY <1>1, <2>1
  <2>5. Read(i) = d - P(i) * high /\ Read(i + 1) = m - P(i + 1) * high
    <3> HIDE DEF high
    <3>1. QED
      BY Zenon
  <2> HIDE DEF m, d, high, Read
  <2>6. m = Radix * d + bytes[i + 1] /\ bytes[i + 1] \in Int
    <3>1. m = Radix * (m \div Radix) + (m % Radix) /\ m % Radix \in 0 .. Radix - 1
      BY <1>3, <2>3, DivFacts, Zenon
    <3>2. m % Radix \in Int
      BY <1>3, <3>1
    <3>3. QED
      BY <2>3, <2>4, <3>1, <3>2, Zenon
  <2>7. P(i + 1) * high = Radix * (P(i) * high)
    <3>1. P(i + 1) = Radix * P(i) /\ P(i) \in Int /\ Radix \in Int
      BY <1>3
    <3>2. QED
      BY <1>5, <3>1, Z3
  <2> DEFINE ph == P(i) * high
  <2>8. ph \in Int
    BY <1>3, <1>5, Products
  <2>9. Read(i) = d - ph /\ Read(i + 1) = m - Radix * ph
    BY <2>5, <2>7
  <2> HIDE DEF ph
  <2>10. (d - ph) * Radix = Radix * d - Radix * ph
    BY <1>3, <2>3, <2>8, Z3
  <2>11. Radix * d \in Int /\ Radix * ph \in Int
    BY <1>3, <2>3, <2>8, Products
  <2>12. QED
    BY <2>3, <2>6, <2>8, <2>9, <2>10, <2>11
<1>8. Read(size) = num % P(size)
  <2>1. Read(size) = num - P(size) * high
    <3>1. size - size = 0
      OBVIOUS
    <3>2. Read(size) = (num \div P(0)) - P(size) * high
      BY <3>1
    <3>3. num \div P(0) = num
      BY <1>3, <1>4
    <3>4. QED
      BY <3>2, <3>3
  <2>2. num = P(size) * high + (num % P(size)) /\ num % P(size) \in Int
    <3>1. P(size) \in Nat \ {0}
      BY <1>3
    <3>2. num = P(size) * high + (num % P(size)) /\ num % P(size) \in 0 .. P(size) - 1
      BY num \in Int, <3>1, DivFacts, Zenon
    <3>3. num % P(size) \in Int
      BY <3>1, <3>2
    <3>4. QED
      BY <3>2, <3>3
  <2>3. P(size) * high \in Int
    BY <1>3, <1>5, Products
  <2> HIDE DEF Read, high
  <2>4. QED
    BY <2>1, <2>2, <2>3
<1> HIDE DEF Read
<1>9. ReadsTo(h, bytes)
  <2>1. ASSUME NEW i \in 0 .. size
        PROVE  h[i] = IF i = 0 THEN 0 ELSE h[i - 1] * Radix + bytes[i]
    <3>1. CASE i = 0
      BY <1>6, <3>1
    <3>2. CASE i # 0
      <4>1. i - 1 \in Nat /\ (i - 1) + 1 = i /\ i <= size /\ i - 1 \in 0 .. size
        BY <3>2
      <4>2. Read(i) = Read(i - 1) * Radix + bytes[i]
        BY <1>7, <4>1
      <4>3. QED
        BY <3>2, <4>1, <4>2
    <3>3. QED
      BY <3>1, <3>2
  <2>2. h = [i \in 0 .. size |-> h[i]]
    OBVIOUS
  <2> HIDE DEF h
  <2>3. QED
    BY <1>2, <2>1, <2>2 DEF ReadsTo
<1>10. ASSUME NEW g, ReadsTo(g, bytes) PROVE g = h
  <2>1. g = [i \in 0 .. size |-> IF i = 0 THEN 0 ELSE g[i - 1] * Radix + bytes[i]]
    BY <1>2, <1>10 DEF ReadsTo
  <2> DEFINE Same == {i \in Nat : i <= size => g[i] = Read(i)}
  <2>2. 0 \in Same
    BY <1>6, <2>1
  <2>3. ASSUME NEW i \in Nat, i \in Same PROVE i + 1 \in Same
    <3>1. SUFFICES ASSUME i + 1 <= size PROVE g[i + 1] = Read(i + 1)
      OBVIOUS
    <3>2. i + 1 \in 0 .. size /\ i + 1 # 0 /\ (i + 1) - 1 = i /\ i <= size
      BY <3>1
    <3>3. g[i + 1] = g[i] * Radix + bytes[i + 1]
      BY <2>1, <3>2
    <3>4. QED
      BY <1>7, <2>3, <3>1, <3>2, <3>3
  <2> HIDE DEF Same
  <2>4. Nat \subseteq Same
    BY <2>2, <2>3, InductionOnSets
  <2>5. \A i \in 0 .. size : g[i] = Read(i)
    BY <2>4 DEF Same
  <2>6. g = [i \in 0 .. size |-> g[i]]
    BY <2>1
  <2>7. QED
    BY <2>5, <2>6
<1>11. h[size] = num % P(size)
  BY <1>8
<1> HIDE DEF h
<1>12. ReadLong(bytes) = {garbage * P(size) + (num % P(size)) : garbage \in 0 .. P(LongLength - size) - 1}
  BY <1>2, <1>9, <1>10, <1>11, ReadLongIs DEF P
<1>13. QED
  BY <1>2, <1>12 DEF P, bytes

-----------------------------------------------------------------------------
(***************************************************************************)
(* The header of a key.                                                    *)
(***************************************************************************)

\* What the bits of a cuboid id stand for.
Weights == [b \in Bit |-> Power(2, b)]

LEMMA WeightFacts ==
    /\ Weights \in [Bit -> Nat \ {0}] /\ Weights \in [Bit -> Int]
    /\ IsFiniteSet(Bit)
    /\ \A k \in Nat : Power(2, k) \in Nat \ {0} /\ Power(2, k + 1) = 2 * Power(2, k)
    /\ Power(2, 0) = 1
<1>1. 2 \in Nat \ {0}
  OBVIOUS
<1>2. /\ \A k \in Nat : Power(2, k) \in Nat \ {0} /\ Power(2, k + 1) = 2 * Power(2, k)
      /\ Power(2, 0) = 1
  BY <1>1, PowerFacts
<1>3. IsFiniteSet(Bit) /\ \A b \in Bit : b \in Nat
  BY BitAssumption
<1>4. QED
  BY <1>2, <1>3 DEF Weights

\* Their sums, taken one by one.
LEMMA WeightSums ==
    /\ Sum(Weights, {}) = 0
    /\ \A S \in SUBSET Bit : \A x \in S : Sum(Weights, S) = Weights[x] + Sum(Weights, S \ {x})
<1>1. Weights \in [Bit -> Int] /\ IsFiniteSet(Bit)
  BY WeightFacts
<1>2. QED
  BY <1>1, SumFacts

\* A cuboid id is the sum of the weights of its bits.
LEMMA IdNumberIsSum ==
    ASSUME NEW c \in CuboidId
    PROVE  IdNumber(c) = Sum(Weights, c)
<1> DEFINE IsId(h) == h = [s \in SUBSET c |-> IF s = {} THEN 0
                                              ELSE Power(2, Chosen(s)) + h[s \ {Chosen(s)}]]
           id == CHOOSE h : IsId(h)
<1>1. IdNumber(c) = id[c]
  BY DEF IdNumber, MapThenSumSet, MapThenFoldSet, Chosen
<1>2. c \in SUBSET Bit
  BY DEF CuboidId
<1>3. \A s \in SUBSET c : s # {} => Weights[Chosen(s)] = Power(2, Chosen(s))
  <2>1. \A s \in SUBSET c : s # {} => Chosen(s) \in Bit
    BY <1>2 DEF Chosen
  <2>2. QED
    BY <2>1 DEF Weights
<1>4. \A h : IsId(h) <=> IsSum(h, c, Weights)
  <2>1. ASSUME NEW h PROVE IsId(h) <=> IsSum(h, c, Weights)
    <3>1. [s \in SUBSET c |-> IF s = {} THEN 0 ELSE Power(2, Chosen(s)) + h[s \ {Chosen(s)}]]
            = [s \in SUBSET c |-> IF s = {} THEN 0 ELSE Weights[Chosen(s)] + h[s \ {Chosen(s)}]]
      BY <1>3
    <3>2. QED
      BY <3>1 DEF IsSum
  <2>2. QED
    BY <2>1
<1> HIDE DEF IsId
<1>5. \E h : IsId(h)
  BY <1>2, <1>4, WeightFacts, SumFacts
<1>6. IsId(id)
  BY <1>5
<1>7. id[c] = Sum(Weights, c)
  BY <1>2, <1>4, <1>6, WeightFacts, SumFacts
<1>8. QED
  BY <1>1, <1>7

\* The bits of a cuboid below k, and what they sum up to.
Low(c, k) == {b \in c : b < k}

\* Below k there are the numbers below the k-th power of two, and no two cuboids
\* have the same.
LEMMA LowSums ==
    ASSUME NEW k \in Nat
    PROVE  \A c \in CuboidId :
               /\ Sum(Weights, Low(c, k)) \in Nat
               /\ Sum(Weights, Low(c, k)) < Power(2, k)
               /\ \A d \in CuboidId :
                     Sum(Weights, Low(c, k)) = Sum(Weights, Low(d, k)) => Low(c, k) = Low(d, k)
<1> DEFINE S(c, n) == Sum(Weights, Low(c, n))
           Good(n) == \A c \in CuboidId :
                          /\ S(c, n) \in Nat
                          /\ S(c, n) < Power(2, n)
                          /\ \A d \in CuboidId : S(c, n) = S(d, n) => Low(c, n) = Low(d, n)
           Goods == {n \in Nat : Good(n)}
<1>1. \A c \in CuboidId : \A n : Low(c, n) \in SUBSET Bit
  BY DEF CuboidId, Low
<1>2. \A b \in Bit : b \in Nat
  BY BitAssumption
<1>3. 0 \in Goods
  <2>1. \A c \in CuboidId : Low(c, 0) = {}
    BY <1>2 DEF CuboidId, Low
  <2>2. Sum(Weights, {}) = 0
    BY WeightFacts, SumFacts
  <2>3. \A c \in CuboidId : S(c, 0) = 0
    BY <2>1, <2>2
  <2> HIDE DEF S
  <2>4. \A c \in CuboidId : \A d \in CuboidId : Low(c, 0) = Low(d, 0)
    BY <2>1
  <2>5. Power(2, 0) = 1
    BY WeightFacts
  <2>6. Good(0)
    BY <2>3, <2>4, <2>5
  <2>7. QED
    BY <2>6
<1>4. ASSUME NEW n \in Nat, Good(n) PROVE Good(n + 1)
  <2>1. ASSUME NEW c \in CuboidId
        PROVE  /\ n \notin c => Low(c, n + 1) = Low(c, n) /\ S(c, n + 1) = S(c, n)
               /\ n \in c => Low(c, n + 1) = Low(c, n) \cup {n} /\ S(c, n + 1) = Power(2, n) + S(c, n)
    <3>1. \A b \in c : b \in Nat
      BY <1>2 DEF CuboidId
    <3>2. \A b \in c : b < n + 1 <=> b < n \/ b = n
      BY <3>1
    <3>3. n \notin c => Low(c, n + 1) = Low(c, n)
      BY <3>2 DEF Low
    <3>4. ASSUME n \in c PROVE Low(c, n + 1) = Low(c, n) \cup {n} /\ Low(c, n) = Low(c, n + 1) \ {n}
      <4>1. n \notin Low(c, n)
        BY DEF Low
      <4>2. Low(c, n + 1) = Low(c, n) \cup {n}
        BY <3>2, <3>4 DEF Low
      <4>3. QED
        BY <4>1, <4>2
    <3>5. ASSUME n \in c PROVE S(c, n + 1) = Power(2, n) + S(c, n)
      <4>1. n \in Bit /\ n \in Low(c, n + 1)
        BY <3>4, <3>5 DEF CuboidId
      <4>2. Sum(Weights, Low(c, n + 1)) = Weights[n] + Sum(Weights, Low(c, n + 1) \ {n})
        BY <1>1, <4>1, WeightSums
      <4>3. Weights[n] = Power(2, n)
        BY <4>1 DEF Weights
      <4>4. QED
        BY <3>4, <3>5, <4>2, <4>3
    <3>6. QED
      BY <3>3, <3>4, <3>5
  <2>2. Power(2, n) \in Nat \ {0} /\ Power(2, n + 1) = 2 * Power(2, n)
    BY WeightFacts
  <2> HIDE DEF S
  <2>3. ASSUME NEW c \in CuboidId
        PROVE  S(c, n + 1) \in Nat /\ S(c, n + 1) < Power(2, n + 1)
    <3>1. S(c, n) \in Nat /\ S(c, n) < Power(2, n)
      BY <1>4
    <3>2. QED
      BY <2>1, <2>2, <3>1
  <2>4. ASSUME NEW c \in CuboidId, NEW d \in CuboidId, S(c, n + 1) = S(d, n + 1)
        PROVE  Low(c, n + 1) = Low(d, n + 1)
    <3>1. /\ S(c, n) \in Nat /\ S(c, n) < Power(2, n) /\ S(d, n) \in Nat /\ S(d, n) < Power(2, n)
          /\ S(c, n) = S(d, n) => Low(c, n) = Low(d, n)
      BY <1>4
    <3>2. n \in c <=> n \in d
      BY <2>1, <2>2, <2>4, <3>1
    <3>3. S(c, n) = S(d, n)
      <4>1. CASE n \in c
        BY <2>1, <2>2, <2>4, <3>1, <3>2, <4>1
      <4>2. CASE n \notin c
        BY <2>1, <2>4, <3>2, <4>2
      <4>3. QED
        BY <4>1, <4>2
    <3>4. QED
      BY <2>1, <3>1, <3>2, <3>3
  <2>5. QED
    BY <2>3, <2>4
<1> HIDE DEF Good
<1>5. \A n \in Nat : n \in Goods => n + 1 \in Goods
  BY <1>4
<1>6. Good(k)
  <2> HIDE DEF Goods
  <2>1. Nat \subseteq Goods
    BY <1>3, <1>5, InductionOnSets
  <2>2. k \in Goods
    BY <2>1
  <2>3. QED
    BY <2>2 DEF Goods
<1>7. QED
  BY <1>6 DEF Good

\* A cuboid id is a long, and no two cuboids have the same.
LEMMA IdNumberFacts ==
    ASSUME NEW c \in CuboidId
    PROVE  /\ IdNumber(c) \in Nat /\ IdNumber(c) < Power(Radix, LongLength)
           /\ \A d \in CuboidId : IdNumber(c) = IdNumber(d) => c = d
<1> DEFINE n == Len(RowKeyColumns)
<1>1. n \in Nat /\ Bit = 0 .. n - 1 /\ Power(2, n) <= Power(Radix, LongLength)
  BY RowKeyAssumption
<1> HIDE DEF n
<1>2. \A d \in CuboidId : Low(d, n) = d
  <2>1. \A b \in Bit : b < n
    BY <1>1
  <2>2. QED
    BY <2>1 DEF CuboidId, Low
<1>3. \A d \in CuboidId : IdNumber(d) = Sum(Weights, Low(d, n))
  BY <1>2, IdNumberIsSum
<1>4. Power(2, n) \in Nat /\ Power(Radix, LongLength) \in Nat
  BY <1>1, WeightFacts, RadixPowers
<1>5. IdNumber(c) \in Nat /\ IdNumber(c) < Power(2, n)
  BY <1>1, <1>3, LowSums
<1>6. \A d \in CuboidId : IdNumber(c) = IdNumber(d) => c = d
  BY <1>1, <1>2, <1>3, LowSums
<1>7. QED
  BY <1>1, <1>4, <1>5, <1>6

\* The header is as long as a long, and says which cuboid the key is of.
LEMMA HeaderFacts ==
    ASSUME NEW c \in CuboidId
    PROVE  /\ Header(c) \in Seq(Int) /\ Len(Header(c)) = LongLength
           /\ \A key : SubSeq(key, 1, LongLength) = Header(c) => ParseCuboid(key) = c
<1> DEFINE P == Power(Radix, LongLength)
           id == IdNumber(c)
<1>1. id \in Nat /\ id < P /\ P \in Nat \ {0} /\ LongLength \in Nat
  BY IdNumberFacts, RadixPowers
<1>2. Header(c) \in Seq(Int) /\ Len(Header(c)) = LongLength
  <2>1. Header(c) = [i \in 1 .. LongLength |-> (id \div Power(Radix, LongLength - i)) % Radix]
    BY DEF Header, WriteLong
  <2>2. ASSUME NEW i \in 1 .. LongLength
        PROVE  (id \div Power(Radix, LongLength - i)) % Radix \in Int
    <3>1. LongLength - i \in Nat
      BY <1>1
    <3>2. Power(Radix, LongLength - i) \in Nat \ {0} /\ Radix \in Nat \ {0} /\ id \in Int
      BY <1>1, <3>1, RadixPowers
    <3>3. id \div Power(Radix, LongLength - i) \in Int
      BY <3>2, DivFacts
    <3>4. QED
      BY <3>2, <3>3
  <2> HIDE DEF id
  <2>3. QED
    BY <1>1, <2>1, <2>2
<1>3. ReadLong(Header(c)) = {id}
  <2>1. id % P = id
    <3>1. id = P * 0 + id /\ id \in 0 .. P - 1 /\ 0 \in Int /\ id \in Int
      BY <1>1
    <3> HIDE DEF P, id
    <3>2. QED
      BY <1>1, <3>1, DivFacts
  <2>2. Power(Radix, LongLength - LongLength) = 1
    BY <1>1, RadixPowers
  <2>3. ReadLong(Header(c)) = {garbage * P + (id % P) : garbage \in 0 .. 1 - 1}
    BY <1>1, <2>2, ReadWritten DEF Header
  <2> HIDE DEF id, P
  <2>4. \A garbage \in 0 .. 1 - 1 : garbage * P + id = id
    BY <1>1
  <2>5. QED
    BY <1>1, <2>1, <2>3, <2>4
<1> HIDE DEF id
<1>4. ASSUME NEW key, SubSeq(key, 1, LongLength) = Header(c) PROVE ParseCuboid(key) = c
  <2>1. ParseCuboid(key) = CHOOSE d \in CuboidId : IdNumber(d) \in {id}
    BY <1>3, <1>4 DEF ParseCuboid
  <2>2. \A d \in CuboidId : IdNumber(d) \in {id} <=> d = c
    BY IdNumberFacts DEF id
  <2>3. QED
    BY <2>1, <2>2
<1>5. QED
  BY <1>2, <1>4

\* A key that starts with its header is read back, whatever follows.
LEMMA ParseKey ==
    ASSUME NEW c \in CuboidId, NEW X, NEW body \in Seq(X), NEW key, key = Header(c) \o body
    PROVE  /\ Len(key) = LongLength + Len(body)
           /\ SubSeq(key, 1, LongLength) = Header(c) /\ ParseCuboid(key) = c
<1>1. Header(c) \in Seq(Int \cup X) /\ body \in Seq(Int \cup X)
  BY HeaderFacts
<1>2. Len(Header(c)) = LongLength /\ LongLength \in Nat
  BY HeaderFacts, RadixPowers
<1>3. /\ Len(key) = LongLength + Len(body)
      /\ \A i \in 1 .. LongLength : key[i] = Header(c)[i]
      /\ key \in Seq(Int \cup X)
  <2> DEFINE h == Header(c)
             m == Len(body)
  <2>1. key \in Seq(Int \cup X) /\ Len(key) = Len(h) + m
    BY <1>1, ConcatProperties
  <2>2. \A i \in 1 .. Len(h) + m : key[i] = IF i <= Len(h) THEN h[i] ELSE body[i - Len(h)]
    BY <1>1, ConcatProperties
  <2>3. Len(h) = LongLength /\ m \in Nat
    BY <1>2
  <2> HIDE DEF h, m
  <2>4. \A i \in 1 .. LongLength : i \in 1 .. LongLength + m /\ i <= LongLength
    BY <1>2, <2>3
  <2>5. \A i \in 1 .. LongLength : key[i] = h[i]
    BY <2>2, <2>3, <2>4
  <2>6. QED
    BY <2>1, <2>3, <2>5 DEF h, m
<1>4. SubSeq(key, 1, LongLength) = Header(c)
  BY <1>1, <1>2, <1>3
<1>5. QED
  BY <1>3, <1>4, HeaderFacts

-----------------------------------------------------------------------------
(***************************************************************************)
(* Sums in a long, and of doubles that are printed.                        *)
(***************************************************************************)

\* How many numbers a long has.
LongNumbers == Power(Radix, LongLength)

\* A number in a long is off by so many times all its values, which makes no
\* difference to the long.
LEMMA SignedFacts ==
    ASSUME NEW n \in Int
    PROVE  /\ Signed(n, LongLength) \in Int
           /\ \E k \in Int : Signed(n, LongLength) = n - LongNumbers * k
           /\ \A k \in Int : Signed(n - LongNumbers * k, LongLength) = Signed(n, LongLength)
<1> DEFINE P == LongNumbers
           S(x) == IF x % P < P \div 2 THEN x % P ELSE (x % P) - P
<1>1. \A x : Signed(x, LongLength) = S(x)
  BY DEF Signed, LongNumbers
<1>2. P \in Nat \ {0}
  BY RadixPowers DEF LongNumbers
<1>3. n \div P \in Int /\ n % P \in 0 .. P - 1 /\ n = P * (n \div P) + (n % P)
  BY <1>2, DivFacts
<1> HIDE DEF P
<1>4. \E k \in Int : S(n) = n - P * k
  <2>1. S(n) = n % P \/ S(n) = (n % P) - P
    OBVIOUS
  <2>2. P * (n \div P) \in Int /\ P * ((n \div P) + 1) = P * (n \div P) + P
    BY <1>2, <1>3, Z3
  <2>3. CASE S(n) = n % P
    <3>1. S(n) = n - P * (n \div P)
      BY <1>2, <1>3, <2>2, <2>3
    <3>2. QED
      BY <1>3, <3>1
  <2>4. CASE S(n) = (n % P) - P
    <3>1. S(n) = n - P * ((n \div P) + 1)
      BY <1>2, <1>3, <2>2, <2>4
    <3>2. (n \div P) + 1 \in Int
      BY <1>3
    <3>3. QED
      BY <3>1, <3>2
  <2>5. QED
    BY <2>1, <2>3, <2>4
<1>5. ASSUME NEW k \in Int PROVE S(n - P * k) = S(n)
  <2> DEFINE m == n - P * k
             q == (n \div P) - k
             r == n % P
  <2>1. m \in Int /\ q \in Int /\ r \in 0 .. P - 1
    BY <1>2, <1>3, Products
  <2>2. m = P * q + r
    <3>1. P * ((n \div P) - k) = P * (n \div P) - P * k /\ P * (n \div P) \in Int /\ P * k \in Int
      BY <1>2, <1>3, Z3
    <3>2. QED
      BY <1>3, <3>1
  <2> HIDE DEF m, q, r
  <2>3. r = m % P
    BY <1>2, <2>1, <2>2, DivFacts
  <2>4. QED
    BY <2>3 DEF m, r
<1>6. S(n) \in Int
  <2>1. n % P \in Int /\ (n % P) - P \in Int
    BY <1>2, <1>3
  <2>2. QED
    BY <2>1
<1> HIDE DEF S
<1>7. QED
  BY <1>1, <1>4, <1>5, <1>6 DEF P

\* Adding in a long gives the sum of the numbers as far as a long holds it.
LEMMA SignedSum ==
    ASSUME NEW a \in Int, NEW b \in Int
    PROVE  Signed(Signed(a, LongLength) + Signed(b, LongLength), LongLength) = Signed(a + b, LongLength)
<1>1. PICK k \in Int : Signed(a, LongLength) = a - LongNumbers * k
  BY SignedFacts
<1>2. PICK l \in Int : Signed(b, LongLength) = b - LongNumbers * l
  BY SignedFacts
<1>3. LongNumbers \in Nat \ {0}
  BY RadixPowers DEF LongNumbers
<1>4. (a - LongNumbers * k) + (b - LongNumbers * l) = (a + b) - LongNumbers * (k + l)
  <2>1. LongNumbers * (k + l) = LongNumbers * k + LongNumbers * l
    BY <1>3, Z3
  <2>2. LongNumbers * k \in Int /\ LongNumbers * l \in Int
    BY <1>3, Products
  <2>3. QED
    BY <2>1, <2>2
<1>5. a + b \in Int /\ k + l \in Int
  OBVIOUS
<1>6. Signed((a + b) - LongNumbers * (k + l), LongLength) = Signed(a + b, LongLength)
  BY <1>5, SignedFacts
<1>7. QED
  BY <1>1, <1>2, <1>4, <1>6

\* A long holds 1.
LEMMA SignedOne == Signed(1, LongLength) = 1
<1>1. LongNumbers \in Nat \ {0} /\ LongNumbers >= 4
  <2> DEFINE n == LongLength - 1
             m == LongLength - 2
  <2>1. n \in Nat /\ m \in Nat /\ n + 1 = LongLength /\ m + 1 = n
    BY RadixPowers
  <2>2. /\ LongNumbers = Radix * Power(Radix, n) /\ Power(Radix, n) = Radix * Power(Radix, m)
        /\ LongNumbers \in Nat \ {0} /\ Power(Radix, n) \in Nat \ {0} /\ Power(Radix, m) \in Nat \ {0}
    BY <2>1, RadixPowers DEF LongNumbers
  <2> HIDE DEF n, m
  <2>3. ASSUME NEW x \in Nat \ {0} PROVE Radix * x >= 2 * x
    <3>1. (Radix - 2) \in Nat
      BY RadixPowers
    <3>2. x * (Radix - 2) \in Int /\ x * (Radix - 2) >= 0
      BY <3>1, Products
    <3>3. x * (Radix - 2) = Radix * x - 2 * x
      <4>1. ASSUME NEW r \in Int PROVE x * (r - 2) = r * x - 2 * x
        BY Z3
      <4>2. Radix \in Int
        BY RadixPowers
      <4>3. QED
        BY <4>1, <4>2
    <3>4. Radix * x \in Int
      BY RadixPowers, Products
    <3>5. QED
      BY <3>2, <3>3, <3>4
  <2>4. Power(Radix, n) >= 2 * Power(Radix, m) /\ LongNumbers >= 2 * Power(Radix, n)
    BY <2>2, <2>3
  <2>5. QED
    BY <2>2, <2>4
<1> DEFINE P == LongNumbers
<1>2. 1 % P = 1
  <2>1. 1 = P * 0 + 1 /\ 1 \in 0 .. P - 1 /\ 0 \in Int /\ 1 \in Int /\ P \in Nat \ {0}
    BY <1>1
  <2> HIDE DEF P
  <2>2. QED
    BY <2>1, DivFacts
<1>3. 1 < P \div 2
  <2>1. P \div 2 \in Int /\ P % 2 \in 0 .. 2 - 1 /\ P = 2 * (P \div 2) + (P % 2)
    <3>1. 2 \in Nat \ {0} /\ P \in Int
      BY <1>1
    <3> HIDE DEF P
    <3>2. QED
      BY <3>1, DivFacts
  <2>2. QED
    BY <1>1, <2>1
<1>4. QED
  BY <1>2, <1>3 DEF Signed, LongNumbers

\* Printing a double loses no more than half of the sixth digit.
LEMMA PrintedDouble ==
    ASSUME NEW x \in Int
    PROVE  /\ DoubleToString(x) \in Int /\ Precision \div 2 \in Nat
           /\ DoubleToString(x) - x >= -(Precision \div 2)
           /\ DoubleToString(x) - x <= Precision \div 2
<1> DEFINE p == Precision
           h == p \div 2
           q == (x + h) \div p
           r == (x + h) % p
<1>1. p \in Nat \ {0} /\ h \in Nat /\ p = 2 * h + 1
  <2>1. Precision \in Nat /\ Precision % 2 = 1
    BY PrecisionAssumption
  <2>2. Precision \div 2 \in Int /\ Precision = 2 * (Precision \div 2) + (Precision % 2)
    BY <2>1, DivFacts
  <2>3. QED
    BY <2>1, <2>2
<1>2. x + h \in Int
  BY <1>1
<1>3. q \in Int /\ r \in 0 .. p - 1 /\ x + h = p * q + r
  BY <1>1, <1>2, DivFacts
<1>4. DoubleToString(x) = q * p
  BY DEF DoubleToString
<1> HIDE DEF q, r, h, p
<1>5. q * p = p * q /\ p * q \in Int
  BY <1>1, <1>3, Z3
<1>6. QED
  BY <1>1, <1>3, <1>4, <1>5 DEF h, p

-----------------------------------------------------------------------------
(***************************************************************************)
(* What a row of a table t gives the measures.                             *)
(***************************************************************************)

\* Proper, of a table, the row a reader makes of a line, the rows the encoder
\* can read, and Input.
PlainRows(t) == {x \in DOMAIN t : t[x] # Null /\ \A i \in DOMAIN t[x] : IsNumber(t[x][i])}
ReadRow(t, x) == Cut(PrintRow(t[x]))
ReadyRows(t) == {x \in DOMAIN t : Readable(ReadRow(t, x))}
InputIn(t, m, x) ==
    IF Head(m.parameters).type = "column" THEN t[x][ColumnIdx(Head(m.parameters).value)]
    ELSE Head(m.parameters).value

\* What is added up.
GoodRows(t) == PlainRows(t) \cap ReadyRows(t)
Inputs(t, m) == [x \in GoodRows(t) |-> InputIn(t, m, x)]

\* A cell, and what cut leaves of a line.
Cells == Int \cup {Empty, Null}

\* A reader's rows are cells, and a row of numbers is read as it is.
LEMMA ReadRowFacts ==
    ASSUME NEW t \in Tables, NEW x \in DOMAIN t
    PROVE  /\ ReadRow(t, x) \in Seq(Cells)
           /\ x \in PlainRows(t) => ReadRow(t, x) = t[x] /\ t[x] \in Seq(Int)
<1> DEFINE line == PrintRow(t[x])
           seqs == [i \in DOMAIN line |-> IF line[i] = Empty THEN <<>> ELSE <<line[i]>>]
<1>1. ReadRow(t, x) = FlattenSeq(seqs)
  BY DEF ReadRow, Cut
<1>2. line \in Seq(Cells)
  <2>1. CASE t[x] = Null
    BY <2>1 DEF PrintRow, Cells
  <2>2. CASE t[x] # Null
    <3>1. t[x] \in Range(t) \ {Null}
      BY <2>2 DEF Range
    <3>2. t[x] \in Seq(Cells)
      BY <3>1, TableAssumption DEF Cells
    <3>3. QED
      BY <2>2, <3>2 DEF PrintRow
  <2>3. QED
    BY <2>1, <2>2
<1> HIDE DEF line
<1>3. seqs \in Seq(Seq(Cells))
  <2>1. \A i \in DOMAIN line : line[i] \in Cells
    BY <1>2
  <2>2. \A i \in DOMAIN line : (IF line[i] = Empty THEN <<>> ELSE <<line[i]>>) \in Seq(Cells)
    BY <2>1
  <2>3. DOMAIN line = 1 .. Len(line) /\ Len(line) \in Nat
    BY <1>2
  <2>4. QED
    BY <2>2, <2>3
<1>4. ReadRow(t, x) \in Seq(Cells)
  <2> HIDE DEF seqs
  <2>1. QED
    BY <1>1, <1>3, FlattenFacts
<1>5. ASSUME x \in PlainRows(t) PROVE ReadRow(t, x) = t[x] /\ t[x] \in Seq(Int)
  <2>1. t[x] = line
    BY <1>5 DEF PlainRows, PrintRow, line
  <2>2. \A i \in DOMAIN line : line[i] \in Cells /\ line[i] # Empty /\ line[i] # Null
    BY <1>2, <1>5, <2>1 DEF PlainRows, IsNumber
  <2>3. line \in Seq(Int)
    <3>1. \A i \in DOMAIN line : line[i] \in Int
      BY <2>2 DEF Cells
    <3>2. QED
      BY <1>2, <3>1
  <2>4. \A i \in DOMAIN line : seqs[i] = <<line[i]>>
    BY <2>2
  <2>5. Len(seqs) = Len(line) /\ DOMAIN line = 1 .. Len(line) /\ Len(line) \in Nat
    BY <1>2
  <2> HIDE DEF seqs
  <2>6. FlattenSeq(seqs) = line
    <3>1. CASE Len(line) = 0
      <4>1. FlattenSeq(seqs) \in Seq(Cells)
        BY <1>3, FlattenFacts
      <4>2. \A y : y \notin Range(FlattenSeq(seqs))
        <5>1. DOMAIN seqs = {}
          BY <1>3, <2>5, <3>1
        <5>2. QED
          BY <1>3, <5>1, FlattenFacts
      <4>3. DOMAIN FlattenSeq(seqs) = {}
        BY <4>2 DEF Range
      <4>4. FlattenSeq(seqs) = <<>>
        BY <4>1, <4>3
      <4>5. line = <<>>
        BY <1>2, <3>1
      <4>6. QED
        BY <4>4, <4>5
    <3>2. CASE Len(line) # 0
      <4> DEFINE n == Len(line)
      <4>1. PICK f : /\ f \in [1 .. Len(seqs) -> Seq(Cells)]
                     /\ f[1] = seqs[1]
                     /\ \A i \in 2 .. Len(seqs) : f[i] = f[i - 1] \o seqs[i]
                     /\ FlattenSeq(seqs) = f[Len(seqs)]
        BY <1>3, <2>5, <3>2, FlattenComputes
      <4> DEFINE Prefix(i) == Len(f[i]) = i /\ \A j \in 1 .. i : f[i][j] = line[j]
                 Right == {i \in Nat : i + 1 <= n => Prefix(i + 1)}
      <4>2. n \in Nat /\ n # 0 /\ Len(seqs) = n /\ \A i \in 1 .. n : seqs[i] = <<line[i]>> /\ f[i] \in Seq(Cells)
        BY <2>4, <2>5, <3>2, <4>1
      <4>3. Prefix(1)
        <5>1. 1 \in 1 .. n
          BY <4>2
        <5>2. f[1] = <<line[1]>>
          BY <4>1, <4>2, <5>1
        <5>3. Len(<<line[1]>>) = 1 /\ <<line[1]>>[1] = line[1]
          OBVIOUS
        <5>4. QED
          BY <5>2, <5>3
      <4>4. ASSUME NEW i \in Nat, i \in Right, i + 2 <= n PROVE Prefix(i + 2)
        <5>1. i + 1 \in 1 .. n /\ i + 2 \in 2 .. n /\ i + 2 \in 1 .. n /\ (i + 2) - 1 = i + 1
          BY <4>2, <4>4
        <5>2. Prefix(i + 1)
          BY <4>2, <4>4
        <5>3. f[i + 2] = f[i + 1] \o <<line[i + 2]>> /\ f[i + 1] \in Seq(Cells) /\ line[i + 2] \in Cells
          <6>1. f[i + 2] = f[(i + 2) - 1] \o seqs[i + 2]
            BY <4>1, <4>2, <5>1
          <6>2. seqs[i + 2] = <<line[i + 2]>> /\ f[i + 1] \in Seq(Cells)
            BY <4>2, <5>1
          <6>3. line[i + 2] \in Cells
            BY <1>2, <5>1
          <6>4. QED
            BY <5>1, <6>1, <6>2, <6>3
        <5>4. <<line[i + 2]>> \in Seq(Cells) /\ Len(<<line[i + 2]>>) = 1 /\ <<line[i + 2]>>[1] = line[i + 2]
          BY <5>3
        <5>5. Len(f[i + 2]) = i + 2
          BY <5>2, <5>3, <5>4
        <5>6. \A j \in 1 .. i + 2 : f[i + 2][j] = line[j]
          BY <5>2, <5>3, <5>4, <5>5
        <5>7. QED
          BY <5>5, <5>6
      <4>5. 0 \in Right /\ \A i \in Nat : i \in Right => i + 1 \in Right
        <5>1. 0 \in Right
          BY <4>3
        <5>2. ASSUME NEW i \in Nat, i \in Right PROVE i + 1 \in Right
          <6>1. (i + 1) + 1 = i + 2 /\ i + 1 \in Nat
            OBVIOUS
          <6> HIDE DEF Prefix
          <6>2. i + 2 <= n => Prefix(i + 2)
            BY <4>4, <5>2
          <6>3. QED
            BY <6>1, <6>2
        <5>3. QED
          BY <5>1, <5>2
      <4>6. Prefix(n)
        <5> HIDE DEF Prefix
        <5> DEFINE m == n - 1
        <5>1. m \in Nat /\ m + 1 = n
          BY <4>2
        <5> HIDE DEF m, n
        <5>2. Nat \subseteq Right
          <6> HIDE DEF Right
          <6>1. QED
            BY <4>5, InductionOnSets
        <5>3. m + 1 <= n => Prefix(m + 1)
          BY <5>1, <5>2
        <5>4. QED
          BY <4>2, <5>1, <5>3
      <4>7. FlattenSeq(seqs) = f[n] /\ f[n] \in Seq(Cells)
        BY <4>1, <4>2
      <4>8. QED
        BY <1>2, <2>5, <4>2, <4>6, <4>7
    <3>3. QED
      BY <3>1, <3>2
  <2>7. QED
    BY <1>1, <2>1, <2>3, <2>6
<1>6. QED
  BY <1>4, <1>5

\* The index of a column is one of the columns'.
LEMMA ColumnIdxFacts ==
    ASSUME NEW col \in Range(Columns)
    PROVE  /\ ColumnIdx(col) \in 1 .. Len(Columns) /\ Len(Columns) \in Nat
           /\ ColumnIdx(col) \in Nat /\ ColumnIdx(col) >= 1
<1>1. Columns \in Seq(Range(Columns))
  BY MeasureAssumption
<1>2. DOMAIN Columns = 1 .. Len(Columns) /\ Len(Columns) \in Nat
  BY <1>1
<1>3. \E i \in DOMAIN Columns : Columns[i] = col
  BY DEF Range
<1>4. ColumnIdx(col) \in DOMAIN Columns
  BY <1>3 DEF ColumnIdx
<1>5. QED
  BY <1>2, <1>4

\* A measure has a first parameter, which is what its string starts with; that
\* of a count starts with 1.
LEMMA StringValueFacts ==
    ASSUME NEW m \in Range(Measures), NEW row
    PROVE  /\ m.expression = "COUNT" => StringValue(m, row)[1] = 1
           /\ m.expression # "COUNT" =>
                 StringValue(m, row)[1] =
                    IF Head(m.parameters).type = "column" THEN row[ColumnIdx(Head(m.parameters).value)]
                    ELSE Head(m.parameters).value
           /\ Head(m.parameters) = m.parameters[1] /\ Head(m.parameters) \in Range(m.parameters)
<1>1. m.parameters \in Seq(Range(m.parameters)) /\ m.parameters # <<>>
  BY MeasureAssumption
<1> DEFINE ps == m.parameters
           n == Len(ps)
           inputs == InputToMeasure(m, row)
<1>2. n \in Nat /\ n >= 1 /\ DOMAIN ps = 1 .. n /\ Head(ps) = ps[1]
  BY <1>1
<1>3. Head(ps) \in Range(ps)
  BY <1>2 DEF Range
<1>4. DOMAIN inputs = 1 .. n /\ Len(inputs) = n
  BY <1>2 DEF InputToMeasure
<1>5. inputs[1] = CASE m.expression = "COUNT" -> 1
                    [] m.expression # "COUNT" /\ ps[1].type = "column" -> row[ColumnIdx(ps[1].value)]
                    [] OTHER -> ps[1].value
  BY <1>2 DEF InputToMeasure
<1> HIDE DEF inputs
<1>6. StringValue(m, row)[1] = inputs[1]
  <2>1. StringValue(m, row) = [k \in 1 .. 2 * Len(inputs) - 1 |->
                                  IF k % 2 = 1 THEN inputs[k \div 2 + 1] ELSE ":"]
    BY DEF StringValue, inputs
  <2>2. 1 \in 1 .. 2 * Len(inputs) - 1
    BY <1>2, <1>4
  <2>3. 1 % 2 = 1 /\ 1 \div 2 + 1 = 1
    OBVIOUS
  <2>4. QED
    BY <2>1, <2>2, <2>3
<1>7. QED
  BY <1>2, <1>3, <1>5, <1>6

\* What a good row gives a sum is a number, and one that a long holds when the
\* sum is one of integers.
LEMMA InputFacts ==
    ASSUME NEW t \in Tables, NEW m \in Range(Measures), m.expression = "SUM", NEW x \in GoodRows(t)
    PROVE  /\ InputIn(t, m, x) \in Int
           /\ m.return_type[1] \in IntegerFamily => Signed(InputIn(t, m, x), LongLength) = InputIn(t, m, x)
<1> DEFINE p == Head(m.parameters)
           row == t[x]
           idx == ColumnIdx(p.value)
<1>1. x \in DOMAIN t /\ x \in PlainRows(t) /\ Readable(ReadRow(t, x))
  BY DEF GoodRows, ReadyRows
<1>2. ReadRow(t, x) = row /\ row \in Seq(Int)
  BY <1>1, ReadRowFacts
<1>3. p = m.parameters[1] /\ p \in Range(m.parameters)
  BY StringValueFacts
<1>4. IF p.type = "column" THEN p.value \in Range(Columns)
      ELSE p.value \in Int /\ Signed(p.value, LongLength) = p.value
  BY <1>3, MeasureAssumption
<1>5. CASE p.type = "column"
  <2>1. idx \in Nat /\ idx >= 1
    BY <1>4, <1>5, ColumnIdxFacts
  <2>2. PICK i \in DOMAIN Measures : Measures[i] = m
    BY DEF Range
  <2>3. \A j \in ReadBy(m) : j <= Len(row)
    BY <1>1, <1>2, <2>2 DEF Readable
  <2>4. idx \in ReadBy(m)
    <3>1. m.expression # "COUNT"
      OBVIOUS
    <3>2. QED
      BY <1>3, <1>5, <3>1 DEF ReadBy
  <2>5. idx \in DOMAIN row
    BY <1>2, <2>1, <2>3, <2>4
  <2>6. row[idx] \in Int /\ InputIn(t, m, x) = row[idx]
    BY <1>2, <1>5, <2>5 DEF InputIn
  <2>7. ASSUME m.return_type[1] \in IntegerFamily PROVE Signed(row[idx], LongLength) = row[idx]
    <3>1. row \in Range(t) \ {Null} /\ IsNumber(row[idx])
      BY <1>1, <2>5 DEF PlainRows, Range
    <3>2. QED
      BY <1>3, <1>5, <2>5, <2>7, <3>1, TableAssumption
  <2>8. QED
    BY <2>6, <2>7
<1>6. CASE p.type # "column"
  <2>1. InputIn(t, m, x) = p.value
    BY <1>6 DEF InputIn
  <2>2. QED
    BY <1>4, <1>6, <2>1
<1>7. QED
  BY <1>5, <1>6

-----------------------------------------------------------------------------
(***************************************************************************)
(* What a record's measures have of its rows.                              *)
(***************************************************************************)

\* No type other than decimal has something in parentheses: the type is looked
\* for in its family as it is written.
PlainTypes ==
    \A m \in Range(Measures) : m.return_type[1] # "decimal" => m.return_type = <<m.return_type[1]>>

\* The aggregator of each kind of measure.
LEMMA AggregatorFacts ==
    ASSUME PlainTypes, NEW m \in Range(Measures)
    PROVE  /\ m.expression \in {"COUNT", "SUM"} /\ m.return_type[1] \in IntegerFamily
                => NewAggregator(m) = "long"
           /\ m.expression = "SUM" /\ m.return_type[1] \in NumberFamily \ IntegerFamily
                => NewAggregator(m) = "double"
           /\ m.expression = "MAX" => NewAggregator(m) = "none"
<1> DEFINE name == m.return_type[1]
<1>1. TypeName(m.return_type) = <<name>>
  <2>1. CASE name = "decimal"
    BY <2>1 DEF TypeName
  <2>2. CASE name # "decimal"
    BY <2>2 DEF TypeName, PlainTypes
  <2>3. QED
    BY <2>1, <2>2
<1>2. ASSUME NEW F PROVE InFamily(F, m.return_type) <=> name \in F
  <2>1. InFamily(F, m.return_type) <=> <<name>> \in {<<n>> : n \in F}
    BY <1>1 DEF InFamily
  <2>2. \A n \in F : <<name>> = <<n>> => name = n
    OBVIOUS
  <2>3. QED
    BY <2>1, <2>2
<1>3. IntegerFamily \subseteq NumberFamily
  BY DEF NumberFamily
<1> HIDE DEF name
<1>4. name \in IntegerFamily => InFamily(NumberFamily, m.return_type) /\ InFamily(IntegerFamily, m.return_type)
  BY <1>2, <1>3
<1>5. name \in NumberFamily \ IntegerFamily =>
          InFamily(NumberFamily, m.return_type) /\ ~InFamily(IntegerFamily, m.return_type)
  BY <1>2
<1>6. QED
  BY <1>4, <1>5 DEF NewAggregator, name

\* A sum v of decimals is close to the exact one, when none of them is large.
Close(v, sum, w, rows, large) ==
    LET n == Cardinality(rows)
        h == Precision \div 2
    IN  (\A x \in rows : Magnitude(w[x]) <= large) /\ n * (large + h) < ExactBelow =>
            /\ v - sum \in -((n - 1) * h) .. (n - 1) * h
            /\ Magnitude(v) <= n * (large + h) - h

\* What the strings of a measure are, given the rows it has been taken from.
Sound(t, m, v, rows) ==
    /\ m.expression = "COUNT" /\ m.return_type[1] \in IntegerFamily =>
          v[1] = Signed(Cardinality(rows), LongLength)
    /\ m.expression = "SUM" /\ m.return_type[1] \in IntegerFamily =>
          v[1] = Signed(Sum(Inputs(t, m), rows), LongLength)
    /\ m.expression = "SUM" /\ m.return_type[1] \in NumberFamily \ IntegerFamily =>
          /\ v[1] \in Int
          /\ \A large \in Nat : Close(v[1], Sum(Inputs(t, m), rows), Inputs(t, m), rows, large)
    /\ m.expression = "MAX" => \E x \in rows : v = StringValue(m, t[x])

\* There are finitely many rows, and numbers to add up.
LEMMA RowsAreFinite ==
    ASSUME NEW t \in Tables
    PROVE  /\ IsFiniteSet(GoodRows(t)) /\ DOMAIN t = 1 .. Len(t) /\ Len(t) \in Nat
           /\ \A m \in Range(Measures) : m.expression = "SUM" => Inputs(t, m) \in [GoodRows(t) -> Int]
<1>1. DOMAIN t = 1 .. Len(t) /\ Len(t) \in Nat
  BY TableAssumption
<1>2. IsFiniteSet(1 .. Len(t)) /\ GoodRows(t) \subseteq 1 .. Len(t)
  BY <1>1, FS_Interval DEF GoodRows, ReadyRows
<1>3. IsFiniteSet(GoodRows(t))
  BY <1>2, FS_Subset
<1>4. ASSUME NEW m \in Range(Measures), m.expression = "SUM" PROVE Inputs(t, m) \in [GoodRows(t) -> Int]
  <2>1. \A x \in GoodRows(t) : InputIn(t, m, x) \in Int
    BY <1>4, InputFacts
  <2>2. QED
    BY <2>1 DEF Inputs
<1>5. QED
  BY <1>1, <1>3, <1>4

\* A row that is pushed has its own values.
LEMMA PushedIsSound ==
    ASSUME NEW t \in Tables, NEW m \in Range(Measures), NEW x \in GoodRows(t)
    PROVE  Sound(t, m, StringValue(m, t[x]), {x})
<1> DEFINE v == StringValue(m, t[x])
<1>1. Cardinality({x}) = 1
  BY FS_Singleton
<1>2. m.expression = "COUNT" => v[1] = Signed(Cardinality({x}), LongLength)
  BY <1>1, SignedOne, StringValueFacts
<1>3. ASSUME m.expression = "SUM"
      PROVE  /\ v[1] = InputIn(t, m, x) /\ Sum(Inputs(t, m), {x}) = InputIn(t, m, x)
             /\ InputIn(t, m, x) \in Int
             /\ m.return_type[1] \in IntegerFamily => Signed(InputIn(t, m, x), LongLength) = InputIn(t, m, x)
  <2> DEFINE w == Inputs(t, m)
  <2>1. v[1] = InputIn(t, m, x)
    BY <1>3, StringValueFacts DEF InputIn
  <2>2. IsFiniteSet(GoodRows(t)) /\ w \in [GoodRows(t) -> Int] /\ w[x] = InputIn(t, m, x)
    BY <1>3, RowsAreFinite DEF Inputs
  <2> HIDE DEF w
  <2>3. {x} \in SUBSET GoodRows(t) /\ x \in {x} /\ {x} \ {x} = {}
    OBVIOUS
  <2>4. Sum(w, {x}) = w[x] + Sum(w, {x} \ {x}) /\ Sum(w, {}) = 0
    BY <2>2, <2>3, SumFacts
  <2>5. InputIn(t, m, x) \in Int
    BY <1>3, InputFacts
  <2>6. Sum(w, {x}) = InputIn(t, m, x)
    BY <2>2, <2>3, <2>4, <2>5
  <2>7. QED
    BY <1>3, <2>1, <2>6, InputFacts DEF w
<1>4. ASSUME m.expression = "SUM", NEW large \in Nat
      PROVE  Close(v[1], Sum(Inputs(t, m), {x}), Inputs(t, m), {x}, large)
  <2> DEFINE h == Precision \div 2
             n == Cardinality({x})
             a == v[1]
             w == Inputs(t, m)
  <2>1. v[1] - Sum(Inputs(t, m), {x}) = 0 /\ a = w[x] /\ a \in Int
    BY <1>3, <1>4 DEF Inputs
  <2>2. h \in Nat
    BY PrintedDouble
  <2> HIDE DEF h, a, w
  <2>3. (n - 1) * h = 0 /\ n * (large + h) - h = large
    <3>1. (1 - 1) * h = 0 /\ 1 * (large + h) - h = large
      BY <2>2
    <3>2. QED
      BY <1>1, <3>1
  <2>4. (\A y \in {x} : Magnitude(w[y]) <= large) => Magnitude(a) <= n * (large + h) - h
    BY <2>1, <2>3
  <2>5. v[1] - Sum(Inputs(t, m), {x}) \in -((n - 1) * h) .. (n - 1) * h
    BY <2>1, <2>3
  <2>6. QED
    BY <2>4, <2>5 DEF Close, h, a, w
<1>5. QED
  BY <1>2, <1>3, <1>4 DEF Sound

\* Two doubles are added to a number, and exactly when they are small.
LEMMA SumsOfDoubles ==
    ASSUME NEW a \in Int, NEW b \in Int, NEW sum \in DoubleSums(a, b)
    PROVE  /\ sum \in Int
           /\ Magnitude(a) + Magnitude(b) < ExactBelow => sum = a + b
<1> DEFINE size == Magnitude(a) + Magnitude(b)
           error == size \div ExactBelow
<1>1. size \in Nat /\ ExactBelow \in Nat \ {0}
  BY PrecisionAssumption DEF Magnitude
<1>2. PICK e \in -error .. error : sum = a + b + e
  BY DEF DoubleSums
<1>3. size < ExactBelow => error = 0
  <2>1. ASSUME size < ExactBelow PROVE error = 0
    <3> DEFINE d == ExactBelow
               n == size
    <3>1. n \in Int /\ 0 \in Int /\ n \in 0 .. d - 1 /\ n = d * 0 + n /\ d \in Nat \ {0}
      BY <1>1, <2>1
    <3> HIDE DEF n, d
    <3>2. 0 = n \div d
      BY <3>1, DivFacts
    <3>3. QED
      BY <3>2 DEF n, d
  <2>2. QED
    BY <2>1
<1>4. QED
  BY <1>1, <1>2, <1>3

\* Two sums that are close are added to one that is.
LEMMA CloseSums ==
    ASSUME NEW w, NEW A, NEW B, NEW a \in Int, NEW b \in Int, NEW sa \in Int, NEW sb \in Int, NEW large \in Nat,
           Cardinality(A) \in Nat, Cardinality(B) \in Nat, Cardinality(A \cup B) = Cardinality(A) + Cardinality(B),
           Close(a, sa, w, A, large), Close(b, sb, w, B, large),
           NEW sum \in DoubleSums(a, b)
    PROVE  Close(DoubleToString(sum), sa + sb, w, A \cup B, large)
<1> DEFINE h == Precision \div 2
           ca == Cardinality(A)
           cb == Cardinality(B)
           c == large + h
           v == DoubleToString(sum)
           ma == (ca - 1) * h
           mb == (cb - 1) * h
           mu == ((ca + cb) - 1) * h
           la == ca * c
           lb == cb * c
           lu == (ca + cb) * c
<1>1. SUFFICES ASSUME \A x \in A \cup B : Magnitude(w[x]) <= large, lu < ExactBelow
               PROVE  v - (sa + sb) \in -mu .. mu /\ Magnitude(v) <= lu - h
  BY DEF Close
<1>2. /\ sum \in Int /\ h \in Nat /\ v \in Int /\ v - sum >= -h /\ v - sum <= h /\ ca \in Nat /\ cb \in Nat
      /\ c \in Nat /\ ExactBelow \in Nat
  BY SumsOfDoubles, PrintedDouble, PrecisionAssumption
<1>3. /\ Close(a, sa, w, A, large) <=>
            ((\A x \in A : Magnitude(w[x]) <= large) /\ la < ExactBelow => a - sa \in -ma .. ma /\ Magnitude(a) <= la - h)
      /\ Close(b, sb, w, B, large) <=>
            ((\A x \in B : Magnitude(w[x]) <= large) /\ lb < ExactBelow => b - sb \in -mb .. mb /\ Magnitude(b) <= lb - h)
  BY DEF Close
<1> HIDE DEF h, ca, cb, v, c
<1>4. /\ ma \in Int /\ mb \in Int /\ mu \in Int /\ mu = ma + mb + h
      /\ la \in Nat /\ lb \in Nat /\ lu \in Nat /\ lu = la + lb
  <2>1. ma \in Int /\ mb \in Int /\ mu \in Int /\ la \in Nat /\ lb \in Nat /\ lu \in Nat
    BY <1>2
  <2>2. mu = ma + mb + h
    BY <1>2, Z3
  <2>3. lu = la + lb
    BY <1>2, Z3
  <2>4. QED
    BY <2>1, <2>2, <2>3
<1> HIDE DEF ma, mb, mu, la, lb, lu
<1>5. a - sa \in -ma .. ma /\ Magnitude(a) <= la - h /\ b - sb \in -mb .. mb /\ Magnitude(b) <= lb - h
  BY <1>1, <1>2, <1>3, <1>4
<1>6. Magnitude(a) \in Nat /\ Magnitude(b) \in Nat /\ Magnitude(a) + Magnitude(b) < ExactBelow
  <2>1. Magnitude(a) \in Nat /\ Magnitude(b) \in Nat
    BY DEF Magnitude
  <2>2. QED
    BY <1>1, <1>2, <1>4, <1>5, <2>1
<1>7. sum = a + b
  BY <1>6, SumsOfDoubles
<1>8. v - (sa + sb) \in -mu .. mu
  BY <1>2, <1>4, <1>5, <1>7
<1>9. Magnitude(v) <= lu - h
  BY <1>2, <1>4, <1>5, <1>7 DEF Magnitude
<1>10. QED
  BY <1>8, <1>9

\* What is combined has the values of both's rows.
LEMMA CombinedIsSound ==
    ASSUME PlainTypes, NEW t \in Tables, NEW m \in Range(Measures), NEW a, NEW b,
           NEW A \in SUBSET GoodRows(t), NEW B \in SUBSET GoodRows(t), A \cap B = {},
           Sound(t, m, a, A), Sound(t, m, b, B),
           NEW v \in AggregateOne(NewAggregator(m), a, b)
    PROVE  Sound(t, m, v, A \cup B)
<1> DEFINE w == Inputs(t, m)
<1>1. /\ IsFiniteSet(A) /\ IsFiniteSet(B) /\ IsFiniteSet(A \cup B)
      /\ Cardinality(A) \in Nat /\ Cardinality(B) \in Nat
      /\ Cardinality(A \cup B) = Cardinality(A) + Cardinality(B)
  <2>1. IsFiniteSet(A) /\ IsFiniteSet(B)
    BY RowsAreFinite, FS_Subset
  <2>2. IsFiniteSet(A \cup B) /\ Cardinality(A \cup B) = Cardinality(A) + Cardinality(B) - Cardinality(A \cap B)
    BY <2>1, FS_Union
  <2>3. Cardinality(A \cap B) = 0
    BY FS_EmptySet
  <2>4. Cardinality(A) \in Nat /\ Cardinality(B) \in Nat
    BY <2>1, FS_CardinalityType
  <2>5. QED
    BY <2>1, <2>2, <2>3, <2>4
<1>2. m.expression = "SUM" =>
          /\ Sum(w, A \cup B) = Sum(w, A) + Sum(w, B) /\ Sum(w, A) \in Int /\ Sum(w, B) \in Int
  <2> HIDE DEF w
  <2>1. m.expression = "SUM" => w \in [GoodRows(t) -> Int] /\ IsFiniteSet(GoodRows(t))
    BY RowsAreFinite DEF w
  <2>2. ASSUME m.expression = "SUM"
        PROVE  /\ Sum(w, A \cup B) = Sum(w, A) + Sum(w, B) /\ Sum(w, A) \in Int /\ Sum(w, B) \in Int
    <3>1. Sum(w, A) \in Int /\ Sum(w, B) \in Int
      BY <2>1, <2>2, SumFacts
    <3>2. Sum(w, A \cup B) = Sum(w, A) + Sum(w, B)
      BY <2>1, <2>2, SumOfUnion
    <3>3. QED
      BY <3>1, <3>2
  <2>3. QED
    BY <2>2
<1> HIDE DEF w
<1>3. ASSUME m.expression = "COUNT", m.return_type[1] \in IntegerFamily
      PROVE  v[1] = Signed(Cardinality(A \cup B), LongLength)
  <2>1. v \in {<<Signed(a[1] + b[1], LongLength)>>}
    BY <1>3, AggregatorFacts DEF AggregateOne
  <2>2. a[1] = Signed(Cardinality(A), LongLength) /\ b[1] = Signed(Cardinality(B), LongLength)
    BY <1>3 DEF Sound
  <2>3. Cardinality(A) \in Int /\ Cardinality(B) \in Int
    BY <1>1
  <2>4. Signed(a[1] + b[1], LongLength) = Signed(Cardinality(A) + Cardinality(B), LongLength)
    BY <2>2, <2>3, SignedSum
  <2>5. QED
    BY <1>1, <2>1, <2>4
<1>4. ASSUME m.expression = "SUM", m.return_type[1] \in IntegerFamily
      PROVE  v[1] = Signed(Sum(w, A \cup B), LongLength)
  <2>1. v \in {<<Signed(a[1] + b[1], LongLength)>>}
    BY <1>4, AggregatorFacts DEF AggregateOne
  <2>2. a[1] = Signed(Sum(w, A), LongLength) /\ b[1] = Signed(Sum(w, B), LongLength)
    BY <1>4 DEF Sound, w
  <2>3. Sum(w, A) \in Int /\ Sum(w, B) \in Int
    BY <1>2, <1>4
  <2>4. Signed(a[1] + b[1], LongLength) = Signed(Sum(w, A) + Sum(w, B), LongLength)
    BY <2>2, <2>3, SignedSum
  <2>5. QED
    BY <1>2, <1>4, <2>1, <2>4
<1>5. ASSUME m.expression = "SUM", m.return_type[1] \in NumberFamily \ IntegerFamily
      PROVE  /\ v[1] \in Int
             /\ \A large \in Nat : Close(v[1], Sum(w, A \cup B), w, A \cup B, large)
  <2>1. PICK sum \in DoubleSums(a[1], b[1]) : v = <<DoubleToString(sum)>>
    BY <1>5, AggregatorFacts DEF AggregateOne
  <2>2. /\ a[1] \in Int /\ \A large \in Nat : Close(a[1], Sum(w, A), w, A, large)
        /\ b[1] \in Int /\ \A large \in Nat : Close(b[1], Sum(w, B), w, B, large)
    BY <1>5 DEF Sound, w
  <2>3. Sum(w, A) \in Int /\ Sum(w, B) \in Int /\ Sum(w, A \cup B) = Sum(w, A) + Sum(w, B)
    BY <1>2, <1>5
  <2>4. sum \in Int /\ v[1] = DoubleToString(sum)
    <3>1. sum \in Int
      BY <2>2, SumsOfDoubles
    <3>2. QED
      BY <2>1, <3>1
  <2>5. v[1] \in Int
    BY <2>4, PrintedDouble
  <2>6. ASSUME NEW large \in Nat PROVE Close(v[1], Sum(w, A \cup B), w, A \cup B, large)
    BY <1>1, <2>2, <2>3, <2>4, CloseSums
  <2>7. QED
    BY <2>5, <2>6
<1>6. ASSUME m.expression = "MAX" PROVE \E x \in A \cup B : v = StringValue(m, t[x])
  <2>1. v = a
    BY <1>6, AggregatorFacts DEF AggregateOne
  <2>2. \E x \in A : a = StringValue(m, t[x])
    BY <1>6 DEF Sound
  <2>3. QED
    BY <2>1, <2>2
<1>7. QED
  BY <1>3, <1>4, <1>5, <1>6 DEF Sound, w

-----------------------------------------------------------------------------
(***************************************************************************)
(* The bytes of a column's value, and which value they are read back as.   *)
(***************************************************************************)

\* Powers of Radix grow, and all but the first are even.
LEMMA PowersGrow ==
    ASSUME NEW m \in Nat, NEW n \in Nat, m < n
    PROVE  /\ 2 * Power(Radix, m) <= Power(Radix, n)
           /\ Power(Radix, n) = 2 * (Power(Radix, n) \div 2) /\ Power(Radix, n) \div 2 \in Nat
<1> DEFINE P(i) == Power(Radix, i)
           k == Radix \div 2
           Grown == {i \in Nat : P(m) <= P(m + i)}
<1>1. /\ Radix \in Nat \ {0, 1} /\ Radix = 2 * k /\ k \in Nat \ {0}
      /\ \A i \in Nat : P(i) \in Nat \ {0} /\ P(i + 1) = Radix * P(i)
  <2>1. Radix \in Nat \ {0, 1} /\ \A i \in Nat : P(i) \in Nat \ {0} /\ P(i + 1) = Radix * P(i)
    BY RadixPowers
  <2>2. Radix = 2 * k /\ k \in Nat \ {0}
    BY <2>1, LengthAssumption
  <2>3. QED
    BY <2>1, <2>2
<1> HIDE DEF P, k
<1>2. \A i \in Nat : P(i + 1) = 2 * (k * P(i)) /\ k * P(i) \in Nat /\ P(i) <= k * P(i)
  <2>1. ASSUME NEW i \in Nat PROVE P(i + 1) = 2 * (k * P(i)) /\ k * P(i) \in Nat /\ P(i) <= k * P(i)
    <3> DEFINE p == P(i)
    <3>1. p \in Nat \ {0} /\ P(i + 1) = Radix * p
      BY <1>1
    <3> HIDE DEF p
    <3>2. k * p >= p /\ k * p \in Int
      BY <1>1, <3>1, Products
    <3>3. Radix * p = 2 * (k * p)
      BY <1>1, <3>1, Z3
    <3>4. QED
      BY <3>1, <3>2, <3>3 DEF p
  <2>2. QED
    BY <2>1
<1>3. 0 \in Grown
  BY <1>1
<1>4. ASSUME NEW i \in Nat, i \in Grown PROVE i + 1 \in Grown
  <2>1. m + i \in Nat /\ (m + i) + 1 = m + (i + 1)
    OBVIOUS
  <2>2. P(m + (i + 1)) = 2 * (k * P(m + i)) /\ k * P(m + i) \in Nat /\ P(m + i) <= k * P(m + i)
    BY <1>2, <2>1
  <2>3. P(m) \in Nat /\ P(m + i) \in Nat /\ P(m) <= P(m + i)
    BY <1>1, <1>4, <2>1
  <2>4. QED
    BY <2>2, <2>3
<1>5. Nat \subseteq Grown
  <2> HIDE DEF Grown
  <2>1. QED
    BY <1>3, <1>4, InductionOnSets
<1> DEFINE l == n - 1
<1>6. l \in Nat /\ l + 1 = n /\ l - m \in Nat /\ m + (l - m) = l
  OBVIOUS
<1> HIDE DEF l
<1>7. P(m) <= P(l) /\ P(m) \in Nat /\ P(l) \in Nat
  BY <1>1, <1>5, <1>6
<1>8. P(n) = 2 * (k * P(l)) /\ k * P(l) \in Nat /\ P(l) <= k * P(l)
  BY <1>2, <1>6
<1>9. QED
  BY <1>7, <1>8 DEF P

\* A number that fits in so many bytes comes back from them, whatever more the
\* long held.
LEMMA SignedFits ==
    ASSUME NEW len \in Nat, NEW v \in Int, NEW g \in Int,
           -(Power(Radix, len) \div 2) <= v, v < Power(Radix, len) \div 2
    PROVE  Signed(g * Power(Radix, len) + v, len) = v
<1> DEFINE P == Power(Radix, len)
           h == P \div 2
           n == g * P + v
           r == IF v >= 0 THEN v ELSE v + P
           q == IF v >= 0 THEN g ELSE g - 1
<1>1. P \in Nat \ {0}
  BY RadixPowers
<1>2. Signed(n, len) = IF n % P < h THEN n % P ELSE (n % P) - P
  BY DEF Signed
<1> HIDE DEF P
<1>3. h \in Nat /\ 2 * h <= P
  BY <1>1
<1>4. -h <= v /\ v < h
  BY DEF P
<1> HIDE DEF h
<1>5. r \in 0 .. P - 1 /\ q \in Int
  BY <1>1, <1>3, <1>4
<1>6. g * P \in Int /\ n = P * q + r
  <2>1. g * P = P * g /\ P * (g - 1) = P * g - P /\ g * P \in Int
    BY <1>1, Z3
  <2>2. QED
    BY <1>1, <2>1
<1> HIDE DEF r, q
<1>7. n \in Int
  BY <1>6
<1> HIDE DEF n
<1>8. r = n % P
  BY <1>1, <1>5, <1>6, <1>7, DivFacts
<1>9. Signed(n, len) = IF r < h THEN r ELSE r - P
  BY <1>2, <1>8
<1>10. (IF r < h THEN r ELSE r - P) = v
  BY <1>1, <1>3, <1>4 DEF r
<1>11. QED
  BY <1>9, <1>10 DEF n, P


\* What write_long wrote of a number that fits is read back, is written of no
\* other, and is not NULL's unless the number is the largest.
LEMMA WrittenBytes ==
    ASSUME NEW size \in Nat, size <= LongLength, NEW num \in 0 .. Power(Radix, size) - 1
    PROVE  /\ ReadLong(WriteLong(num, size)) =
                 {garbage * Power(Radix, size) + num :
                     garbage \in 0 .. Power(Radix, LongLength - size) - 1}
           /\ num \in ReadLong(WriteLong(num, size))
           /\ \A other \in 0 .. Power(Radix, size) - 1 :
                 WriteLong(other, size) = WriteLong(num, size) => other = num
           /\ num < Power(Radix, size) - 1 => ~IsNull(WriteLong(num, size))
<1> DEFINE P == Power(Radix, size)
           G == Power(Radix, LongLength - size)
           Read(n) == {garbage * P + n : garbage \in 0 .. G - 1}
           bytes == WriteLong(num, size)
<1>1. P \in Nat \ {0} /\ G \in Nat \ {0} /\ LongLength \in Nat /\ Radix \in Nat \ {0, 1}
  BY RadixPowers
<1>2. ASSUME NEW n \in 0 .. P - 1
      PROVE  /\ Len(WriteLong(n, size)) = size /\ DOMAIN WriteLong(n, size) = 1 .. size
             /\ ReadLong(WriteLong(n, size)) = Read(n)
  <2>1. n % P = n
    <3> DEFINE q == 0
    <3>1. n = P * q + n /\ q \in Int /\ n \in Int /\ n \in 0 .. P - 1
      BY <1>1
    <3> HIDE DEF P, q
    <3>2. P \in Nat \ {0}
      BY <1>1
    <3>3. \A z \in Int : \A r \in 0 .. P - 1 : n = P * z + r => z = n \div P /\ r = n % P
      BY <3>1, <3>2, DivFacts, Zenon
    <3>4. QED
      BY <3>1, <3>3, Zenon
  <2>2. n \in Int
    BY <1>1
  <2>3. /\ Len(WriteLong(n, size)) = size /\ DOMAIN WriteLong(n, size) = 1 .. size
        /\ ReadLong(WriteLong(n, size)) = {garbage * P + (n % P) : garbage \in 0 .. G - 1}
    BY <2>2, ReadWritten
  <2> HIDE DEF P, G
  <2>4. QED
    BY <2>1, <2>3
<1> HIDE DEF P, G, bytes
<1>3. \A n, m \in 0 .. P - 1 : \A garbage \in 0 .. G - 1 : n = garbage * P + m => m <= n
  <2>1. ASSUME NEW garbage \in 0 .. G - 1 PROVE garbage * P >= 0 /\ garbage * P \in Int
    <3>1. garbage \in Int /\ garbage >= 0
      BY <1>1
    <3>2. P * garbage >= 0 /\ P * garbage \in Int /\ garbage * P = P * garbage
      BY <1>1, <3>1, Products
    <3>3. QED
      BY <3>2
  <2>2. QED
    BY <1>1, <2>1
<1>4. \A n \in 0 .. P - 1 : n \in Read(n)
  <2>1. ASSUME NEW n \in 0 .. P - 1 PROVE n = 0 * P + n /\ 0 \in 0 .. G - 1
    BY <1>1
  <2>2. QED
    BY <2>1
<1>5. \A n, m \in 0 .. P - 1 : n \in Read(m) => m <= n
  BY <1>3
<1> HIDE DEF Read
<1>6. ReadLong(bytes) = Read(num) /\ num \in Read(num) /\ num \in 0 .. P - 1
  BY <1>2, <1>4 DEF bytes, P
<1>7. ASSUME NEW other \in 0 .. P - 1, WriteLong(other, size) = bytes PROVE other = num
  <2>1. Read(other) = Read(num)
    BY <1>2, <1>6, <1>7
  <2>2. other <= num /\ num <= other
    BY <1>4, <1>5, <1>6, <2>1
  <2>3. QED
    BY <1>1, <1>6, <2>2
<1>8. ASSUME num < P - 1, IsNull(bytes) PROVE FALSE
  <2> DEFINE Q(i) == Power(Radix, i) - 1
             h == [i \in 0 .. size |-> Q(i)]
  <2>1. /\ Len(bytes) = size /\ DOMAIN bytes = 1 .. size
        /\ \A i \in 1 .. size : bytes[i] = Radix - 1
    BY <1>2, <1>6, <1>8 DEF IsNull, bytes
  <2>2. Q(0) = 0 /\ \A i \in Nat : Q(i) \in Nat /\ Q(i + 1) = Q(i) * Radix + (Radix - 1)
    <3>1. Power(Radix, 0) = 1
      BY RadixPowers
    <3>2. ASSUME NEW i \in Nat PROVE Q(i) \in Nat /\ Q(i + 1) = Q(i) * Radix + (Radix - 1)
      <4> DEFINE p == Power(Radix, i)
      <4>1. p \in Nat \ {0} /\ Power(Radix, i + 1) = Radix * p
        BY RadixPowers
      <4> HIDE DEF p
      <4>2. (p - 1) * Radix = Radix * p - Radix /\ Radix * p \in Int
        BY <1>1, <4>1, Z3
      <4>3. QED
        BY <1>1, <4>1, <4>2 DEF p
    <3>3. QED
      BY <3>1, <3>2
  <2> HIDE DEF Q
  <2>3. \A i \in 1 .. size : Q(i) = Q(i - 1) * Radix + bytes[i]
    <3>1. ASSUME NEW i \in 1 .. size PROVE Q(i) = Q(i - 1) * Radix + bytes[i]
      <4>1. i - 1 \in Nat /\ (i - 1) + 1 = i
        OBVIOUS
      <4>2. QED
        BY <2>1, <2>2, <4>1
    <3>2. QED
      BY <3>1
  <2>4. ReadsTo(h, bytes)
    <3>1. ASSUME NEW i \in 0 .. size PROVE h[i] = IF i = 0 THEN 0 ELSE h[i - 1] * Radix + bytes[i]
      <4>1. CASE i = 0
        BY <2>2, <4>1
      <4>2. CASE i # 0
        <5>1. i \in 1 .. size /\ i - 1 \in 0 .. size
          BY <4>2
        <5>2. QED
          BY <2>3, <4>2, <5>1
      <4>3. QED
        BY <4>1, <4>2
    <3>2. h = [i \in 0 .. size |-> h[i]]
      OBVIOUS
    <3> HIDE DEF h
    <3>3. QED
      BY <2>1, <3>1, <3>2 DEF ReadsTo
  <2>5. ASSUME NEW g, ReadsTo(g, bytes) PROVE g = h
    <3>1. g = [i \in 0 .. size |-> IF i = 0 THEN 0 ELSE g[i - 1] * Radix + bytes[i]]
      BY <2>1, <2>5 DEF ReadsTo
    <3> DEFINE Same == {i \in Nat : i <= size => g[i] = Q(i)}
    <3>2. 0 \in Same
      BY <2>2, <3>1
    <3>3. ASSUME NEW i \in Nat, i \in Same PROVE i + 1 \in Same
      <4>1. SUFFICES ASSUME i + 1 <= size PROVE g[i + 1] = Q(i + 1)
        OBVIOUS
      <4>2. i + 1 \in 0 .. size /\ i + 1 # 0 /\ (i + 1) - 1 = i /\ i <= size /\ i + 1 \in 1 .. size
        BY <4>1
      <4>3. g[i + 1] = g[i] * Radix + bytes[i + 1]
        BY <3>1, <4>2
      <4>4. QED
        BY <2>3, <3>3, <4>2, <4>3
    <3> HIDE DEF Same
    <3>4. Nat \subseteq Same
      BY <3>2, <3>3, InductionOnSets
    <3>5. \A i \in 0 .. size : g[i] = Q(i)
      BY <3>4 DEF Same
    <3>6. g = [i \in 0 .. size |-> g[i]]
      BY <3>1
    <3>7. QED
      BY <3>5, <3>6
  <2>6. h[size] = P - 1
    BY DEF Q, P
  <2> HIDE DEF h
  <2>7. ReadLong(bytes) = {garbage * P + (P - 1) : garbage \in 0 .. G - 1}
    BY <2>1, <2>4, <2>5, <2>6, ReadLongIs DEF P, G
  <2>8. PICK garbage \in 0 .. G - 1 : num = garbage * P + (P - 1)
    BY <1>6, <2>7
  <2>9. P - 1 \in 0 .. P - 1
    BY <1>1
  <2>10. P - 1 <= num
    BY <1>3, <1>6, <2>8, <2>9
  <2>11. QED
    BY <1>1, <1>6, <1>8, <2>10
<1>9. QED
  BY <1>6, <1>7, <1>8 DEF P, G, Read, bytes

\* A number is its own remainder by a larger one.
LEMMA SmallRemainder ==
    ASSUME NEW d \in Nat \ {0}, NEW n \in 0 .. d - 1
    PROVE  n % d = n
<1> DEFINE q == 0
<1>1. n = d * q + n /\ q \in Int /\ n \in Int
  OBVIOUS
<1> HIDE DEF q
<1>2. \A z \in Int : \A r \in 0 .. d - 1 : n = d * z + r => z = n \div d /\ r = n % d
  BY <1>1, DivFacts, Zenon
<1>3. QED
  BY <1>1, <1>2, Zenon

\* An integer that is not too large is read back as it was, and is not written
\* as NULL.
LEMMA IntegerBytes ==
    ASSUME NEW len \in 1 .. LongLength, NEW v \in -Cap(len) .. Cap(len)
    PROVE  /\ Cap(len) \in Int /\ v + Cap(len) \in 0 .. Power(Radix, len) - 2
           /\ EncodeInteger(v, len) = WriteLong(v + Cap(len), len)
           /\ DecodeInteger(EncodeInteger(v, len)) = {v}
<1> DEFINE P == Power(Radix, len)
           L == Power(Radix, LongLength)
           G == Power(Radix, LongLength - len)
           cap == Cap(len)
           code == v + cap
<1>1. /\ LongLength \in Nat /\ len \in Nat /\ len <= LongLength /\ 0 < len
      /\ P \in Nat \ {0} /\ L \in Nat \ {0} /\ G \in Nat \ {0}
  BY RadixPowers
<1>2. P = 2 * (P \div 2) /\ P \div 2 \in Nat
  BY <1>1, PowersGrow
<1>3. P <= L
  <2>1. CASE len = LongLength
    BY <1>1, <2>1
  <2>2. CASE len # LongLength
    <3>1. len < LongLength
      BY <1>1, <2>2
    <3>2. 2 * P <= L
      BY <1>1, <3>1, PowersGrow
    <3> HIDE DEF P, L
    <3>3. QED
      BY <1>1, <3>2
  <2>3. QED
    BY <2>1, <2>2
<1>4. cap = P \div 2 - 1
  BY DEF Cap
<1>5. v \in -cap .. cap
  OBVIOUS
<1> HIDE DEF P, L, G, cap
<1>6. cap \in Int /\ v \in Int /\ code \in 0 .. P - 2 /\ code \in 0 .. P - 1 /\ code \in 0 .. L - 1
  BY <1>1, <1>2, <1>3, <1>4, <1>5
<1>7. code % L = code
  <2> HIDE DEF code
  <2>1. QED
    BY <1>1, <1>6, SmallRemainder, Zenon
<1>8. EncodeInteger(v, len) = WriteLong(code, len)
  BY <1>7 DEF EncodeInteger, L, cap
<1> DEFINE bytes == WriteLong(code, len)
<1>9. Len(bytes) = len
  <2>1. code \in Int
    BY <1>6
  <2> HIDE DEF code
  <2>2. QED
    BY <1>1, <2>1, ReadWritten
<1>10. ReadLong(bytes) = {garbage * P + code : garbage \in 0 .. G - 1}
  <2> HIDE DEF code
  <2>1. QED
    BY <1>1, <1>6, WrittenBytes DEF P, G
<1> HIDE DEF bytes
<1>11. DecodeInteger(bytes) = {Signed(integer - cap, len) : integer \in ReadLong(bytes)}
  BY <1>9 DEF DecodeInteger, cap
<1>12. ASSUME NEW garbage \in 0 .. G - 1 PROVE Signed((garbage * P + code) - cap, len) = v
  <2>1. garbage \in Int
    BY <1>1
  <2>2. (garbage * P + code) - cap = garbage * P + v
    <3>1. garbage * P \in Int
      BY <1>1, <2>1, Z3
    <3>2. QED
      BY <1>6, <3>1
  <2>3. -(P \div 2) <= v /\ v < P \div 2
    BY <1>2, <1>4, <1>5, <1>6
  <2>4. Signed(garbage * P + v, len) = v
    BY <1>1, <1>6, <2>1, <2>3, SignedFits DEF P
  <2>5. QED
    BY <2>2, <2>4
<1>13. 0 \in 0 .. G - 1
  BY <1>1
<1> HIDE DEF code
<1>14. DecodeInteger(bytes) = {v}
  <2>1. \A integer \in ReadLong(bytes) : Signed(integer - cap, len) = v
    BY <1>10, <1>12
  <2>2. \E integer : integer \in ReadLong(bytes)
    BY <1>10, <1>13
  <2>3. QED
    BY <1>11, <2>1, <2>2
<1>15. QED
  BY <1>6, <1>8, <1>14 DEF bytes, code, cap, P

\* The days there may be between a date and the one its seconds are taken for.
DayShift == (-ZoneOffset) \div DaySeconds

\* The code of a date is the same with and without daylight saving: that of the
\* day or of the day before it.
LEMMA DateCodes ==
    ASSUME NEW day \in Nat \ {0}, day * DaySeconds < Power(Radix, IntLength) \div 2,
           day + DaysTo1970 < Power(Radix, DateLength) - 1
    PROVE  /\ DayShift \in {-1, 0} /\ DaysTo1970 \in Nat /\ DaySeconds \in Nat \ {0}
           /\ day + DayShift + DaysTo1970 \in 0 .. Power(Radix, DateLength) - 2
           /\ 2 * Power(Radix, DateLength) <= Power(Radix, IntLength)
           /\ \A seconds \in EpochTimes(day) : DateCode(seconds) = day + DayShift + DaysTo1970
<1> DEFINE D == DaySeconds
           I == Power(Radix, IntLength)
           L == Power(Radix, LongLength)
           T == Power(Radix, DateLength)
           code == day + DayShift + DaysTo1970
<1>1. /\ D \in Nat \ {0} /\ DaysTo1970 \in Nat /\ ZoneOffset \in Int /\ DstShift \in Int
      /\ DayShift \in {-1, 0} /\ (-ZoneOffset - DstShift) \div D = DayShift
  BY ZoneAssumption DEF DayShift
<1>2. /\ I \in Nat \ {0} /\ L \in Nat \ {0} /\ T \in Nat \ {0}
      /\ IntLength \in Nat /\ DateLength \in Nat /\ LongLength \in Nat
      /\ DateLength < IntLength /\ IntLength < LongLength
  BY RadixPowers, LengthAssumption
<1>3. 2 * T <= I /\ 2 * I <= L /\ I = 2 * (I \div 2) /\ I \div 2 \in Nat
  BY <1>2, PowersGrow
<1>4. day * D < I \div 2 /\ day + DaysTo1970 < T - 1
  OBVIOUS
<1> HIDE DEF I, L, T
<1>5. code \in 0 .. T - 2
  BY <1>1, <1>2, <1>4
<1>6. D * day \in Int /\ D * day >= D /\ D * day = day * D
  <2> HIDE DEF D
  <2> DEFINE before == day - 1
  <2>1. before \in Nat /\ day = before + 1
    OBVIOUS
  <2>2. D * (before + 1) = D * before + D /\ (before + 1) * D = D * before + D
    BY <1>1, <2>1, Z3
  <2>3. D * before \in Int /\ D * before >= 0
    BY <1>1, <2>1, Products
  <2> HIDE DEF before
  <2>4. QED
    BY <1>1, <2>1, <2>2, <2>3
<1>7. ASSUME NEW seconds \in EpochTimes(day) PROVE DateCode(seconds) = code
  <2> DEFINE a == seconds - D * day
             r == a % D
             e == DayShift
  <2>1. seconds \in Int /\ a \in Int /\ a \div D = e
    <3>1. PICK dst \in {0, DstShift} : seconds = day * D - ZoneOffset - dst
      BY DEF EpochTimes
    <3>2. a = -ZoneOffset - dst /\ dst \in Int
      BY <1>1, <1>6, <3>1
    <3>3. CASE dst = 0
      <4>1. a = -ZoneOffset
        BY <1>1, <3>2, <3>3
      <4>2. QED
        BY <1>1, <1>6, <3>1, <3>2, <4>1 DEF DayShift
    <3>4. CASE dst = DstShift
      <4>1. a = -ZoneOffset - DstShift
        BY <3>2, <3>4
      <4>2. QED
        BY <1>1, <1>6, <3>1, <3>2, <4>1
    <3>5. QED
      BY <3>3, <3>4
  <2>2. seconds = D * day + a
    BY <1>1, <1>6, <2>1
  <2> HIDE DEF D, a
  <2>3. a = D * e + r /\ r \in 0 .. D - 1
    BY <1>1, <2>1, DivFacts
  <2> HIDE DEF r, e
  <2>4. e \in {-1, 0} /\ D \in Nat \ {0} /\ day \in Int
    BY <1>1 DEF e
  <2>5. seconds = D * (day + e) + r
    <3>1. D * (day + e) = D * day + D * e /\ D * e \in Int
      BY <2>4, Z3
    <3>2. QED
      BY <1>6, <2>2, <2>3, <2>4, <3>1
  <2>6. seconds \in 0 .. L - 1
    <3>1. D * e = 0 \/ D * e = -D
      BY <2>4
    <3>2. D * day < I \div 2
      BY <1>4, <1>6
    <3>3. QED
      BY <1>2, <1>3, <1>6, <2>1, <2>2, <2>3, <2>4, <3>1, <3>2
  <2>7. seconds % L = seconds
    BY <1>2, <2>6, SmallRemainder, Zenon
  <2>8. seconds \div D = day + e
    <3>1. day + e \in Int
      BY <2>4
    <3>2. \A q \in Int : \A s \in 0 .. D - 1 : seconds = D * q + s => q = seconds \div D /\ s = seconds % D
      BY <2>1, <2>4, DivFacts, Zenon
    <3>3. QED
      BY <2>3, <2>5, <3>1, <3>2, Zenon
  <2>9. DateCode(seconds) = Signed((day + e) + DaysTo1970, IntLength)
    BY <2>7, <2>8 DEF DateCode, L, D
  <2>10. Signed(code, IntLength) = code
    <3> DEFINE g == 0
    <3>1. code \in Int /\ -(I \div 2) <= code /\ code < I \div 2 /\ g \in Int
      BY <1>2, <1>3, <1>5
    <3> HIDE DEF code
    <3>2. g * I + code = code
      BY <1>2, <3>1
    <3> HIDE DEF g
    <3>3. Signed(g * I + code, IntLength) = code
      BY <1>2, <3>1, SignedFits DEF I
    <3>4. QED
      BY <3>2, <3>3
  <2>11. QED
    BY <2>9, <2>10 DEF e
<1>8. QED
  BY <1>1, <1>3, <1>5, <1>7 DEF T, I

\* A date is read back as its day or the day before it.
LEMMA DateBytes ==
    ASSUME NEW day \in Nat \ {0}, day * DaySeconds < Power(Radix, IntLength) \div 2,
           day + DaysTo1970 < Power(Radix, DateLength) - 1
    PROVE  LET bytes == WriteLong(day + DayShift + DaysTo1970, DateLength)
           IN  /\ EncodeDate(day) = {bytes}
               /\ {(day - 1) * DaySeconds, day * DaySeconds} \cap DecodeDate(bytes) # {}
<1> DEFINE D == DaySeconds
           I == Power(Radix, IntLength)
           T == Power(Radix, DateLength)
           code == day + DayShift + DaysTo1970
           bytes == WriteLong(code, DateLength)
           before == day - 1
<1>1. /\ DayShift \in {-1, 0} /\ DaysTo1970 \in Nat /\ D \in Nat \ {0} /\ code \in 0 .. T - 2
      /\ 2 * T <= I /\ \A seconds \in EpochTimes(day) : DateCode(seconds) = code
  BY DateCodes
<1>2. /\ I \in Nat \ {0} /\ T \in Nat \ {0} /\ DateLength \in Nat /\ DateLength <= LongLength
      /\ IntLength \in Nat /\ I = 2 * (I \div 2) /\ I \div 2 \in Nat
  <2>1. /\ DateLength \in Nat /\ IntLength \in Nat /\ LongLength \in Nat
        /\ DateLength < IntLength /\ IntLength < LongLength
    BY RadixPowers, LengthAssumption
  <2>2. QED
    BY <2>1, RadixPowers, PowersGrow
<1>3. day * D < I \div 2
  OBVIOUS
<1>4. EncodeDate(day) = {bytes}
  <2>1. \E seconds : seconds \in EpochTimes(day)
    BY DEF EpochTimes
  <2>2. EncodeDate(day) = {WriteLong(DateCode(seconds), DateLength) : seconds \in EpochTimes(day)}
    BY DEF EncodeDate
  <2> HIDE DEF code
  <2>3. QED
    BY <1>1, <2>1, <2>2
<1> HIDE DEF I, T, D
<1>5. code \in Int /\ 0 <= code /\ code < I \div 2
  <2> HIDE DEF code
  <2>1. QED
    BY <1>1, <1>2
<1>6. code - DaysTo1970 = day + DayShift
  BY <1>1
<1> HIDE DEF code
<1>7. ASSUME NEW v \in Int, 0 <= v, v < I \div 2 PROVE Signed(v, IntLength) = v
  <2> DEFINE g == 0
  <2>1. -(I \div 2) <= v /\ g \in Int /\ g * I + v = v
    BY <1>2, <1>7
  <2> HIDE DEF g
  <2>2. Signed(g * I + v, IntLength) = v
    BY <1>2, <1>7, <2>1, SignedFits DEF I
  <2>3. QED
    BY <2>1, <2>2
<1>8. before \in Nat /\ before * D \in Int /\ 0 <= before * D /\ before * D < I \div 2 /\ day * D \in Int /\ 0 <= day * D
  <2>1. before \in Nat /\ day = before + 1
    OBVIOUS
  <2>2. (before + 1) * D = before * D + D /\ before * D = D * before
    BY <1>1, <2>1, Z3
  <2>3. D * before \in Int /\ D * before >= 0
    BY <1>1, <2>1, Products
  <2> HIDE DEF before
  <2>4. QED
    BY <1>1, <1>2, <1>3, <2>1, <2>2, <2>3
<1> DEFINE back == (day + DayShift) * D
<1>9. back \in {before * D, day * D}
  <2>1. day + DayShift = before \/ day + DayShift = day
    BY <1>1, Z3
  <2>2. QED
    BY <2>1
<1>10. back \in DecodeDate(bytes)
  <2>1. code \in ReadLong(bytes)
    <3>1. code \in 0 .. T - 1
      BY <1>1, <1>2
    <3>2. QED
      BY <1>2, <3>1, WrittenBytes DEF T
  <2>2. Signed(code, IntLength) = code
    BY <1>5, <1>7
  <2>3. Signed(back, IntLength) = back
    <3> HIDE DEF back, before
    <3>1. back \in Int /\ 0 <= back /\ back < I \div 2
      BY <1>3, <1>8, <1>9
    <3>2. QED
      BY <1>7, <3>1
  <2>4. Signed((Signed(code, IntLength) - DaysTo1970) * D, IntLength) = back
    BY <1>6, <2>2, <2>3
  <2> HIDE DEF back, bytes
  <2>5. QED
    BY <2>1, <2>4 DEF DecodeDate, D
<1> HIDE DEF back, bytes
<1>11. {before * D, day * D} \cap DecodeDate(bytes) # {}
  BY <1>9, <1>10
<1>12. QED
  BY <1>4, <1>11 DEF bytes, code, D

-----------------------------------------------------------------------------
(***************************************************************************)
(* The keys that are made.                                                 *)
(***************************************************************************)

\* The bits of a cuboid, one by one: as many are higher as come before.
LEMMA BitsFacts ==
    ASSUME NEW c \in CuboidId
    PROVE  /\ Cardinality(c) \in Nat /\ DOMAIN BitsInOrder(c) = 1 .. Cardinality(c)
           /\ \A i \in 1 .. Cardinality(c) :
                /\ BitsInOrder(c)[i] \in c
                /\ Cardinality({d \in c : d > BitsInOrder(c)[i]}) = i - 1
<1> DEFINE Higher(s, b) == {d \in s : d > b}
           InPlace(s) == \A k \in 0 .. Cardinality(s) - 1 : \E b \in s : Cardinality(Higher(s, b)) = k
           Ns == {n \in Nat : \A s \in CuboidId : Cardinality(s) = n => InPlace(s)}
<1>1. \A s \in CuboidId : IsFiniteSet(s) /\ Cardinality(s) \in Nat /\ \A b \in s : b \in Nat
  BY BitAssumption, FS_Subset, FS_CardinalityType DEF CuboidId
<1>2. 0 \in Ns
  <2>1. \A s : Cardinality(s) = 0 => InPlace(s)
    OBVIOUS
  <2>2. QED
    BY <2>1
<1>3. ASSUME NEW n \in Nat, n \in Ns, NEW s \in CuboidId, Cardinality(s) = n + 1 PROVE InPlace(s)
  <2> DEFINE g == Max(s)
             r == s \ {g}
  <2>1. s # {}
    <3>1. Cardinality({}) = 0
      BY FS_EmptySet
    <3>2. Cardinality(s) # 0
      BY <1>3
    <3>3. QED
      BY <3>1, <3>2
  <2>2. g \in s /\ \A b \in s : b <= g
    BY <1>1, <2>1, MaxFacts
  <2> HIDE DEF g
  <2>3. r \in CuboidId /\ IsFiniteSet(r) /\ Cardinality(r) = n
    <3>1. IsFiniteSet(s) /\ r \in CuboidId
      BY <1>1 DEF CuboidId
    <3>2. Cardinality(r) = IF g \in s THEN Cardinality(s) - 1 ELSE Cardinality(s)
      BY <3>1, FS_RemoveElement
    <3>3. QED
      BY <1>1, <1>3, <2>2, <3>1, <3>2
  <2>4. InPlace(r)
    BY <1>3, <2>3
  <2>5. ASSUME NEW k \in 0 .. n PROVE \E b \in s : Cardinality(Higher(s, b)) = k
    <3>1. CASE k = 0
      <4>1. Higher(s, g) = {}
        BY <1>1, <2>2
      <4>2. Cardinality(Higher(s, g)) = 0
        BY <4>1, FS_EmptySet
      <4>3. QED
        BY <2>2, <3>1, <4>2
    <3>2. CASE k # 0
      <4>1. k - 1 \in 0 .. Cardinality(r) - 1
        BY <2>3, <3>2
      <4>2. PICK b \in r : Cardinality(Higher(r, b)) = k - 1
        BY <2>4, <4>1
      <4>3. Higher(s, b) = Higher(r, b) \cup {g} /\ g \notin Higher(r, b)
        BY <1>1, <2>2, <4>2
      <4>4. IsFiniteSet(Higher(r, b))
        BY <2>3, FS_Subset
      <4>5. Cardinality(Higher(r, b) \cup {g}) = Cardinality(Higher(r, b)) + 1
        BY <4>3, <4>4, FS_AddElement
      <4>6. Cardinality(Higher(s, b)) = k
        BY <4>2, <4>3, <4>5
      <4>7. QED
        BY <4>2, <4>6
    <3>3. QED
      BY <3>1, <3>2
  <2>6. Cardinality(s) - 1 = n
    BY <1>3
  <2>7. \A k \in 0 .. n : \E b \in s : Cardinality(Higher(s, b)) = k
    BY <2>5
  <2> HIDE DEF Higher
  <2>8. QED
    BY <2>6, <2>7
<1> HIDE DEF InPlace
<1>4. \A n \in Nat : n \in Ns => n + 1 \in Ns
  BY <1>3
<1>5. InPlace(c)
  <2>1. Nat \subseteq Ns
    <3> HIDE DEF Ns
    <3>1. QED
      BY <1>2, <1>4, InductionOnSets
  <2>2. Cardinality(c) \in Ns
    BY <1>1, <2>1
  <2>3. QED
    BY <2>2
<1>6. ASSUME NEW i \in 1 .. Cardinality(c)
      PROVE  /\ BitsInOrder(c)[i] \in c
             /\ Cardinality({d \in c : d > BitsInOrder(c)[i]}) = i - 1
  <2>1. i - 1 \in 0 .. Cardinality(c) - 1
    BY <1>1
  <2>2. \E b \in c : Cardinality(Higher(c, b)) = i - 1
    BY <1>5, <2>1 DEF InPlace
  <2>3. BitsInOrder(c)[i] = CHOOSE b \in c : Cardinality(Higher(c, b)) = i - 1
    BY DEF BitsInOrder
  <2>4. QED
    BY <2>2, <2>3
<1>7. QED
  BY <1>1, <1>6 DEF BitsInOrder

\* A column's encoding and its length.
LEMMA EncodingLength ==
    ASSUME NEW b \in Bit
    PROVE  /\ ColumnEncoding(b).fixed_len \in 1 .. LongLength /\ LongLength \in Nat
           /\ ColumnEncoding(b).name = "date" => ColumnEncoding(b).fixed_len = DateLength
<1> DEFINE enc == ColumnEncoding(b)
           desc == RowKeyColDesc(Encoding[b])
<1>1. enc.fixed_len \in 1 .. LongLength /\ LongLength \in Nat
  BY RowKeyAssumption, RadixPowers DEF ColumnEncoding
<1>2. enc = Create(desc)
  BY DEF ColumnEncoding
<1> HIDE DEF enc, desc
<1>3. CASE desc.encoding_name = <<"date">>
  <2>1. enc = [name |-> "date", fixed_len |-> DateLength]
    BY <1>2, <1>3 DEF Create
  <2>2. enc.fixed_len = DateLength
    BY <2>1
  <2>3. QED
    BY <1>1, <2>2 DEF enc
<1>4. CASE desc.encoding_name # <<"date">>
  <2>1. enc.name = "integer"
    <3>1. CASE desc.encoding_name = <<"integer">>
      BY <1>2, <1>4, <3>1 DEF Create
    <3>2. CASE desc.encoding_name # <<"integer">>
      BY <1>2, <1>4, <3>2 DEF Create
    <3>3. QED
      BY <3>1, <3>2
  <2>2. enc.name # "date"
    BY <2>1
  <2>3. QED
    BY <1>1, <2>2 DEF enc
<1>5. QED
  BY <1>3, <1>4

\* What a column's encoding writes is so many bytes.
LEMMA EncodeFacts ==
    ASSUME NEW b \in Bit, NEW value
    PROVE  /\ ColumnLength(b) \in 1 .. LongLength /\ ColumnLength(b) \in Int
           /\ \A bytes \in Encode(ColumnEncoding(b), value) :
                bytes \in Seq(Range(bytes)) /\ Len(bytes) = ColumnLength(b)
<1> DEFINE enc == ColumnEncoding(b)
<1>1. /\ enc.fixed_len \in 1 .. LongLength /\ LongLength \in Nat /\ DateLength \in Nat
      /\ enc.name = "date" => enc.fixed_len = DateLength
  BY EncodingLength, RadixPowers
<1> HIDE DEF enc
<1>2. ASSUME NEW num, NEW size \in Nat
      PROVE  WriteLong(num, size) \in Seq(Range(WriteLong(num, size))) /\ Len(WriteLong(num, size)) = size
  <2> DEFINE f == WriteLong(num, size)
  <2>1. f = [i \in 1 .. size |-> (num \div Power(Radix, size - i)) % Radix]
    BY DEF WriteLong
  <2>2. DOMAIN f = 1 .. size /\ f = [i \in 1 .. size |-> f[i]]
    BY <2>1
  <2> HIDE DEF f
  <2>3. \A i \in 1 .. size : f[i] \in Range(f)
    BY <2>2 DEF Range
  <2>4. f \in [1 .. size -> Range(f)]
    BY <2>2, <2>3
  <2>5. f \in Seq(Range(f)) /\ Len(f) = size
    BY <2>2, <2>4
  <2>6. QED
    BY <2>5 DEF f
<1>3. ASSUME NEW bytes \in Encode(enc, value) PROVE \E num : bytes = WriteLong(num, enc.fixed_len)
  <2>1. CASE enc.name = "date"
    <3>1. bytes \in EncodeDate(value)
      BY <1>3, <2>1 DEF Encode
    <3>2. QED
      BY <1>1, <2>1, <3>1 DEF EncodeDate
  <2>2. CASE enc.name # "date"
    <3>1. bytes = EncodeInteger(value, enc.fixed_len)
      BY <1>3, <2>2 DEF Encode
    <3>2. enc.fixed_len \in Nat
      BY <1>1
    <3>3. QED
      BY <3>1, <3>2 DEF EncodeInteger
  <2>3. QED
    BY <2>1, <2>2
<1>4. \A bytes \in Encode(enc, value) : bytes \in Seq(Range(bytes)) /\ Len(bytes) = enc.fixed_len
  <2>1. enc.fixed_len \in Nat
    BY <1>1
  <2>2. QED
    BY <1>2, <1>3, <2>1
<1>5. ColumnLength(b) \in 1 .. LongLength /\ ColumnLength(b) \in Int
  BY <1>1 DEF ColumnLength, enc
<1>6. QED
  BY <1>4, <1>5 DEF ColumnLength, enc

\* A value that has bytes of its own is always written as them, they are read
\* back as the value, and no other value's bytes are the same.
LEMMA OwnBytes ==
    ASSUME NEW b \in Bit, NEW v, HasBytes(ColumnEncoding(b), v), NEW bytes \in Encode(ColumnEncoding(b), v)
    PROVE  /\ StandsFor(ColumnEncoding(b), bytes, v) /\ ~IsNull(bytes)
           /\ Encode(ColumnEncoding(b), v) = {bytes}
           /\ \A w : HasBytes(ColumnEncoding(b), w) /\ bytes \in Encode(ColumnEncoding(b), w) => w = v
<1> DEFINE enc == ColumnEncoding(b)
           len == enc.fixed_len
           shift == IF enc.name = "date" THEN DayShift + DaysTo1970 ELSE Cap(len)
           P == Power(Radix, len)
<1>1. len \in 1 .. LongLength /\ LongLength \in Nat /\ (enc.name = "date" => len = DateLength)
  BY EncodingLength
<1> HIDE DEF enc, len
<1>2. P \in Nat \ {0} /\ len \in Nat /\ len <= LongLength
  BY <1>1, RadixPowers
<1> HIDE DEF P
<1>3. ASSUME NEW w, HasBytes(enc, w)
      PROVE  /\ w \in Int /\ shift \in Int /\ w + shift \in 0 .. P - 2
             /\ Encode(enc, w) = {WriteLong(w + shift, len)}
             /\ StandsFor(enc, WriteLong(w + shift, len), w)
  <2>1. CASE enc.name = "date"
    <3>1. /\ w \in Nat \ {0} /\ w * DaySeconds < Power(Radix, IntLength) \div 2
          /\ w + DaysTo1970 < Power(Radix, DateLength) - 1
      BY <1>3, <2>1 DEF HasBytes
    <3>2. /\ DayShift \in {-1, 0} /\ DaysTo1970 \in Nat
          /\ w + DayShift + DaysTo1970 \in 0 .. Power(Radix, DateLength) - 2
      BY <3>1, DateCodes
    <3>3. w + shift = w + DayShift + DaysTo1970 /\ shift \in Int
      BY <2>1, <3>1, <3>2
    <3> HIDE DEF shift
    <3>4. /\ EncodeDate(w) = {WriteLong(w + shift, DateLength)}
          /\ {(w - 1) * DaySeconds, w * DaySeconds} \cap DecodeDate(WriteLong(w + shift, DateLength)) # {}
      BY <3>1, <3>3, DateBytes
    <3>5. QED
      BY <1>1, <2>1, <3>1, <3>2, <3>3, <3>4 DEF Encode, StandsFor, P
  <2>2. CASE enc.name # "date"
    <3>1. w \in -Cap(len) .. Cap(len)
      BY <1>3, <2>2 DEF HasBytes, len
    <3>2. /\ Cap(len) \in Int /\ w + Cap(len) \in 0 .. P - 2
          /\ EncodeInteger(w, len) = WriteLong(w + Cap(len), len)
          /\ DecodeInteger(EncodeInteger(w, len)) = {w}
      BY <1>1, <3>1, IntegerBytes DEF P
    <3>3. shift = Cap(len)
      BY <2>2
    <3> HIDE DEF shift
    <3>4. w \in Int
      BY <3>1, <3>2
    <3>5. QED
      BY <2>2, <3>2, <3>3, <3>4 DEF Encode, StandsFor, len
  <2>3. QED
    BY <2>1, <2>2
<1> HIDE DEF shift
<1> DEFINE code == v + shift
<1>4. /\ v \in Int /\ shift \in Int /\ code \in 0 .. P - 2 /\ code \in 0 .. P - 1 /\ code < P - 1
      /\ Encode(enc, v) = {bytes} /\ bytes = WriteLong(code, len) /\ StandsFor(enc, bytes, v)
  <2>1. HasBytes(enc, v) /\ bytes \in Encode(enc, v)
    BY DEF enc
  <2>2. QED
    BY <1>2, <1>3, <2>1
<1> HIDE DEF code
<1>5. /\ ~IsNull(WriteLong(code, len))
      /\ \A other \in 0 .. P - 1 : WriteLong(other, len) = WriteLong(code, len) => other = code
  BY <1>2, <1>4, WrittenBytes DEF P
<1>6. ASSUME NEW w, HasBytes(enc, w), bytes \in Encode(enc, w) PROVE w = v
  <2>1. w \in Int /\ w + shift \in 0 .. P - 2 /\ bytes = WriteLong(w + shift, len)
    BY <1>3, <1>6
  <2>2. w + shift \in 0 .. P - 1
    BY <1>2, <2>1
  <2>3. w + shift = code
    BY <1>4, <1>5, <2>1, <2>2
  <2>4. QED
    BY <1>4, <2>1, <2>3 DEF code
<1>7. QED
  BY <1>4, <1>5, <1>6 DEF enc

\* The lengths of a cuboid's columns add up.
LEMMA LengthSums ==
    ASSUME NEW c \in CuboidId
    PROVE  /\ BodyLength({}) = 0 /\ BodyLength(c) \in Nat
           /\ \A b \in c : BodyLength(c) = BodyLength(c \ {b}) + ColumnLength(b)
           /\ \A s \in SUBSET c : BodyLength(s) \in Nat /\ BodyLength(s) <= BodyLength(c)
<1> DEFINE w == [b \in Bit |-> ColumnLength(b)]
           Adds(s) == \A b \in s : BodyLength(s) = BodyLength(s \ {b}) + ColumnLength(b)
           Ns == {n \in Nat : \A s \in CuboidId : Cardinality(s) = n => BodyLength(s) \in Nat}
<1>1. IsFiniteSet(Bit) /\ w \in [Bit -> Int] /\ \A b \in Bit : w[b] = ColumnLength(b) /\ ColumnLength(b) \in Nat
  <2>1. \A b \in Bit : ColumnLength(b) \in Int /\ ColumnLength(b) \in Nat
    <3>1. \A b \in Bit : ColumnLength(b) \in 1 .. LongLength
      BY EncodeFacts
    <3>2. LongLength \in Nat
      BY RadixPowers
    <3>3. QED
      BY <3>1, <3>2
  <2>2. QED
    BY <2>1, BitAssumption
<1>2. ASSUME NEW s \in CuboidId PROVE BodyLength(s) = Sum(w, s)
  <2> DEFINE IsLength(h) == h = [r \in SUBSET s |-> IF r = {} THEN 0
                                                ELSE ColumnLength(Chosen(r)) + h[r \ {Chosen(r)}]]
             length == CHOOSE h : IsLength(h)
  <2>1. BodyLength(s) = length[s]
    BY DEF BodyLength, MapThenSumSet, MapThenFoldSet, Chosen
  <2>2. s \in SUBSET Bit /\ \A r \in SUBSET s : r # {} => w[Chosen(r)] = ColumnLength(Chosen(r))
    BY <1>1 DEF Chosen, CuboidId
  <2> HIDE DEF w
  <2>3. ASSUME NEW h PROVE IsLength(h) <=> IsSum(h, s, w)
    <3>1. [r \in SUBSET s |-> IF r = {} THEN 0 ELSE ColumnLength(Chosen(r)) + h[r \ {Chosen(r)}]]
            = [r \in SUBSET s |-> IF r = {} THEN 0 ELSE w[Chosen(r)] + h[r \ {Chosen(r)}]]
      BY <2>2
    <3>2. QED
      BY <3>1 DEF IsSum
  <2> HIDE DEF IsLength
  <2>4. \E h : IsLength(h)
    BY <1>1, <2>2, <2>3, SumFacts
  <2>5. IsSum(length, s, w)
    <3>1. IsLength(length)
      BY <2>4
    <3>2. QED
      BY <2>3, <3>1
  <2> HIDE DEF length
  <2>6. QED
    BY <1>1, <2>1, <2>2, <2>5, SumFacts
<1> HIDE DEF w
<1>3. ASSUME NEW s \in CuboidId PROVE Adds(s) /\ BodyLength(s) \in Int
  <2>1. s \in SUBSET Bit
    BY DEF CuboidId
  <2>2. /\ \A r \in SUBSET Bit : Sum(w, r) \in Int
        /\ \A b \in s : Sum(w, s) = w[b] + Sum(w, s \ {b})
    BY <1>1, <2>1, SumFacts
  <2>3. ASSUME NEW b \in s PROVE BodyLength(s) = BodyLength(s \ {b}) + ColumnLength(b)
    <3>1. s \ {b} \in CuboidId /\ s \ {b} \in SUBSET Bit /\ b \in Bit
      BY <2>1 DEF CuboidId
    <3>2. BodyLength(s) = Sum(w, s) /\ BodyLength(s \ {b}) = Sum(w, s \ {b}) /\ Sum(w, s \ {b}) \in Int
      BY <1>2, <2>2, <3>1
    <3>3. ColumnLength(b) \in Int /\ Sum(w, s) = ColumnLength(b) + Sum(w, s \ {b})
      BY <1>1, <2>2, <3>1
    <3>4. QED
      BY <3>2, <3>3
  <2>4. QED
    BY <1>2, <2>1, <2>2, <2>3
<1>4. {} \in CuboidId /\ BodyLength({}) = 0
  <2>1. {} \in CuboidId
    BY DEF CuboidId
  <2>2. QED
    BY <1>1, <1>2, <2>1, SumFacts
<1>5. \A s \in CuboidId : IsFiniteSet(s) /\ Cardinality(s) \in Nat /\ (Cardinality(s) = 0 <=> s = {})
  BY BitAssumption, FS_Subset, FS_CardinalityType, FS_EmptySet DEF CuboidId
<1>6. 0 \in Ns
  BY <1>4, <1>5
<1>7. ASSUME NEW n \in Nat, n \in Ns, NEW s \in CuboidId, Cardinality(s) = n + 1 PROVE BodyLength(s) \in Nat
  <2>1. PICK b \in s : TRUE
    BY <1>5, <1>7
  <2>2. s \ {b} \in CuboidId /\ b \in Bit
    BY DEF CuboidId
  <2>3. Cardinality(s \ {b}) = n
    <3>1. IsFiniteSet(s)
      BY <1>5
    <3>2. Cardinality(s \ {b}) = IF b \in s THEN Cardinality(s) - 1 ELSE Cardinality(s)
      BY <3>1, FS_RemoveElement
    <3>3. QED
      BY <1>7, <2>1, <3>2
  <2>4. BodyLength(s \ {b}) \in Nat
    BY <1>7, <2>2, <2>3
  <2>5. BodyLength(s) = BodyLength(s \ {b}) + ColumnLength(b) /\ ColumnLength(b) \in Nat
    BY <1>1, <1>3, <2>2
  <2>6. QED
    BY <2>4, <2>5
<1>8. \A s \in CuboidId : BodyLength(s) \in Nat
  <2>1. \A n \in Nat : n \in Ns => n + 1 \in Ns
    BY <1>7
  <2> HIDE DEF Ns
  <2>2. Nat \subseteq Ns
    BY <1>6, <2>1, InductionOnSets
  <2>3. QED
    BY <1>5, <2>2 DEF Ns
<1>9. ASSUME NEW s \in SUBSET c PROVE BodyLength(s) \in Nat /\ BodyLength(s) <= BodyLength(c)
  <2> DEFINE r == c \ s
  <2>1. s \in CuboidId /\ r \in CuboidId /\ s \in SUBSET Bit /\ r \in SUBSET Bit /\ s \cap r = {} /\ s \cup r = c
    BY DEF CuboidId
  <2> HIDE DEF r
  <2>2. Sum(w, s \cup r) = Sum(w, s) + Sum(w, r)
    BY <1>1, <2>1, SumOfUnion
  <2>3. BodyLength(c) = BodyLength(s) + BodyLength(r)
    BY <1>2, <2>1, <2>2
  <2>4. QED
    BY <1>8, <2>1, <2>3
<1>10. QED
  BY <1>3, <1>4, <1>8, <1>9

\* The columns of a cuboid that come before b.
Above(c, b) == {d \in c : d > b}

\* A cuboid's columns, as BitsInOrder has them: all of them, the highest first.
LEMMA OrderFacts ==
    ASSUME NEW c \in CuboidId
    PROVE  /\ \A i, j \in 1 .. Cardinality(c) : BitsInOrder(c)[i] > BitsInOrder(c)[j] <=> i < j
           /\ \A b \in c : \E i \in 1 .. Cardinality(c) : BitsInOrder(c)[i] = b
           /\ \A i \in 1 .. Cardinality(c) :
                {BitsInOrder(c)[j] : j \in 1 .. i - 1} = Above(c, BitsInOrder(c)[i])
<1> DEFINE n == Cardinality(c)
           bits == BitsInOrder(c)
<1>1. /\ n \in Nat /\ IsFiniteSet(c) /\ \A b \in c : b \in Nat
      /\ \A i \in 1 .. n : bits[i] \in c /\ Cardinality(Above(c, bits[i])) = i - 1
  BY BitsFacts, BitAssumption, FS_Subset DEF CuboidId, Above
<1> HIDE DEF n, bits
<1>2. ASSUME NEW a \in c, NEW b \in c, a > b PROVE Cardinality(Above(c, a)) < Cardinality(Above(c, b))
  <2>1. Above(c, a) \cup {a} \subseteq Above(c, b) /\ a \notin Above(c, a)
    BY <1>1, <1>2 DEF Above
  <2>2. IsFiniteSet(Above(c, a)) /\ IsFiniteSet(Above(c, b))
    BY <1>1, FS_Subset DEF Above
  <2>3. Cardinality(Above(c, a) \cup {a}) = Cardinality(Above(c, a)) + 1
    BY <2>1, <2>2, FS_AddElement
  <2>4. Cardinality(Above(c, a) \cup {a}) <= Cardinality(Above(c, b))
    BY <2>1, <2>2, FS_Subset
  <2>5. Cardinality(Above(c, a)) \in Nat /\ Cardinality(Above(c, b)) \in Nat
    BY <2>2, FS_CardinalityType
  <2>6. QED
    BY <2>3, <2>4, <2>5
<1>3. \A i, j \in 1 .. n : bits[i] > bits[j] <=> i < j
  <2>1. ASSUME NEW i \in 1 .. n, NEW j \in 1 .. n PROVE bits[i] > bits[j] <=> i < j
    <3>1. bits[i] \in c /\ bits[j] \in c /\ bits[i] \in Nat /\ bits[j] \in Nat
      BY <1>1
    <3>2. bits[i] > bits[j] => i < j
      BY <1>1, <1>2, <3>1
    <3>3. bits[j] > bits[i] => j < i
      BY <1>1, <1>2, <3>1
    <3>4. bits[i] = bits[j] => i = j
      BY <1>1
    <3>5. QED
      BY <1>1, <3>1, <3>2, <3>3, <3>4
  <2>2. QED
    BY <2>1
<1>4. ASSUME NEW b \in c PROVE \E i \in 1 .. n : bits[i] = b
  <2> DEFINE i == Cardinality(Above(c, b)) + 1
  <2>1. Above(c, b) \cup {b} \subseteq c /\ b \notin Above(c, b) /\ IsFiniteSet(Above(c, b))
    BY <1>1, FS_Subset DEF Above
  <2>2. Cardinality(Above(c, b) \cup {b}) = Cardinality(Above(c, b)) + 1
    BY <2>1, FS_AddElement
  <2>3. Cardinality(Above(c, b) \cup {b}) <= n /\ Cardinality(Above(c, b)) \in Nat
    BY <1>1, <2>1, FS_Subset, FS_CardinalityType DEF n
  <2>4. i \in 1 .. n /\ i - 1 = Cardinality(Above(c, b))
    BY <1>1, <2>2, <2>3
  <2> HIDE DEF i
  <2>5. bits[i] \in c /\ Cardinality(Above(c, bits[i])) = Cardinality(Above(c, b))
    BY <1>1, <2>4
  <2>6. ~(bits[i] > b) /\ ~(b > bits[i])
    BY <1>2, <2>3, <2>5
  <2>7. bits[i] = b
    BY <1>1, <2>5, <2>6
  <2>8. QED
    BY <2>4, <2>7
<1>5. ASSUME NEW i \in 1 .. n PROVE {bits[j] : j \in 1 .. i - 1} = Above(c, bits[i])
  <2>1. ASSUME NEW b \in Above(c, bits[i]) PROVE \E j \in 1 .. i - 1 : b = bits[j]
    <3>1. b \in c /\ b > bits[i]
      BY DEF Above
    <3>2. PICK j \in 1 .. n : bits[j] = b
      BY <1>4, <3>1
    <3>3. j < i
      BY <1>3, <3>1, <3>2
    <3>4. j \in 1 .. i - 1
      BY <1>1, <3>3
    <3>5. QED
      BY <3>2, <3>4
  <2>2. ASSUME NEW j \in 1 .. i - 1 PROVE bits[j] \in Above(c, bits[i])
    <3>1. j \in 1 .. n /\ j < i
      BY <1>1
    <3>2. bits[j] > bits[i] /\ bits[j] \in c
      BY <1>1, <1>3, <3>1
    <3>3. QED
      BY <3>2 DEF Above
  <2>3. QED
    BY <2>1, <2>2
<1>6. QED
  BY <1>3, <1>4, <1>5 DEF n, bits

\* What a ByteArray holds.
LEMMA PieceFacts ==
    ASSUME NEW X, NEW s \in Seq(X), NEW from \in Nat, NEW n \in Nat, from + n <= Len(s)
    PROVE  /\ ByteArray(s, from, n) \in Seq(X) /\ Len(ByteArray(s, from, n)) = n
           /\ \A i \in 1 .. n : ByteArray(s, from, n)[i] = s[from + i]
<1> DEFINE m == from + n
           l == from + 1
           p == SubSeq(s, l, m)
<1>1. m \in Nat /\ l \in Nat /\ Len(s) \in Nat /\ DOMAIN s = 1 .. Len(s)
  OBVIOUS
<1>2. p = [i \in 1 .. (m - l) + 1 |-> s[(i + l) - 1]]
  BY <1>1
<1>3. (m - l) + 1 = n /\ \A i \in 1 .. n : (i + l) - 1 = from + i /\ from + i \in 1 .. Len(s)
  OBVIOUS
<1>4. p = [i \in 1 .. n |-> s[from + i]]
  BY <1>2, <1>3
<1>5. \A i \in 1 .. n : s[from + i] \in X
  BY <1>1, <1>3
<1>6. ByteArray(s, from, n) = p
  BY DEF ByteArray
<1> HIDE DEF p
<1>7. QED
  BY <1>4, <1>5, <1>6

\* Two sequences with the same members are the same.
LEMMA SameSeq ==
    ASSUME NEW X, NEW Y, NEW u \in Seq(X), NEW v \in Seq(Y), Len(u) = Len(v),
           \A i \in 1 .. Len(u) : u[i] = v[i]
    PROVE  u = v
<1>1. DOMAIN u = 1 .. Len(u) /\ DOMAIN v = 1 .. Len(v)
  OBVIOUS
<1>2. u = [i \in 1 .. Len(u) |-> u[i]] /\ v = [i \in 1 .. Len(v) |-> v[i]]
  BY <1>1
<1>3. QED
  BY <1>2

\* The parts of two sequences behind each other are parts of the one or the other.
LEMMA PieceOfConcat ==
    ASSUME NEW X, NEW u \in Seq(X), NEW v \in Seq(X), NEW from \in Nat, NEW n \in Nat
    PROVE  /\ from + n <= Len(u) => ByteArray(u \o v, from, n) = ByteArray(u, from, n)
           /\ from + n <= Len(v) => ByteArray(u \o v, Len(u) + from, n) = ByteArray(v, from, n)
           /\ ByteArray(u \o v, Len(u), Len(v)) = v
<1> DEFINE w == u \o v
           l == Len(u)
           m == Len(v)
<1>1. w \in Seq(X) /\ Len(w) = l + m /\ l \in Nat /\ m \in Nat
  BY ConcatProperties, LenProperties
<1>2. \A i \in 1 .. l + m : w[i] = IF i <= l THEN u[i] ELSE v[i - l]
  BY ConcatProperties
<1>3. Len(u) = l /\ Len(v) = m
  OBVIOUS
<1> HIDE DEF w, l, m
<1>4. (\A i \in 1 .. l : w[i] = u[i]) /\ \A i \in 1 .. m : w[l + i] = v[i]
  <2>1. \A i \in 1 .. l : w[i] = u[i]
    <3>1. \A i \in 1 .. l : i \in 1 .. l + m /\ i <= l
      BY <1>1
    <3>2. QED
      BY <1>2, <3>1
  <2>2. \A i \in 1 .. m : w[l + i] = v[i]
    <3>1. \A i \in 1 .. m : l + i \in 1 .. l + m /\ ~(l + i <= l) /\ (l + i) - l = i
      BY <1>1
    <3>2. QED
      BY <1>2, <3>1
  <2>3. QED
    BY <2>1, <2>2
<1>5. ASSUME from + n <= l PROVE ByteArray(w, from, n) = ByteArray(u, from, n)
  <2> DEFINE p == ByteArray(w, from, n)
             q == ByteArray(u, from, n)
  <2>1. p \in Seq(X) /\ Len(p) = n /\ \A i \in 1 .. n : p[i] = w[from + i]
    <3>1. from + n <= Len(w)
      BY <1>1, <1>5
    <3>2. QED
      BY <1>1, <3>1, PieceFacts
  <2>2. q \in Seq(X) /\ Len(q) = n /\ \A i \in 1 .. n : q[i] = u[from + i]
    BY <1>3, <1>5, PieceFacts
  <2> HIDE DEF p, q
  <2>3. \A i \in 1 .. n : from + i \in 1 .. l
    BY <1>1, <1>5
  <2>4. \A i \in 1 .. n : p[i] = q[i]
    BY <1>4, <2>1, <2>2, <2>3
  <2>5. p = q
    BY <2>1, <2>2, <2>4, SameSeq
  <2>6. QED
    BY <2>5 DEF p, q
<1>6. ASSUME NEW at \in Nat, NEW k \in Nat, at + k <= m PROVE ByteArray(w, l + at, k) = ByteArray(v, at, k)
  <2> DEFINE p == ByteArray(w, l + at, k)
             q == ByteArray(v, at, k)
  <2>1. p \in Seq(X) /\ Len(p) = k /\ \A i \in 1 .. k : p[i] = w[(l + at) + i]
    <3> DEFINE o == l + at
    <3>1. o \in Nat /\ o + k <= Len(w)
      BY <1>1, <1>6
    <3> HIDE DEF o
    <3>2. ByteArray(w, o, k) \in Seq(X) /\ Len(ByteArray(w, o, k)) = k /\ \A i \in 1 .. k : ByteArray(w, o, k)[i] = w[o + i]
      BY <1>1, <3>1, PieceFacts
    <3>3. QED
      BY <3>2 DEF o
  <2>2. q \in Seq(X) /\ Len(q) = k /\ \A i \in 1 .. k : q[i] = v[at + i]
    BY <1>3, <1>6, PieceFacts
  <2> HIDE DEF p, q
  <2>3. \A i \in 1 .. k : at + i \in 1 .. m /\ (l + at) + i = l + (at + i)
    BY <1>1, <1>6
  <2>4. \A i \in 1 .. k : p[i] = q[i]
    BY <1>4, <2>1, <2>2, <2>3
  <2>5. p = q
    BY <2>1, <2>2, <2>4, SameSeq
  <2>6. QED
    BY <2>5 DEF p, q
<1>7. ByteArray(w, l, m) = v
  <2>1. ByteArray(w, l + 0, m) = ByteArray(v, 0, m)
    BY <1>1, <1>6
  <2>2. l + 0 = l
    BY <1>1
  <2>3. ByteArray(v, 0, m) = v
    <3> DEFINE z == 0
               q == ByteArray(v, z, m)
    <3>1. z \in Nat /\ z + m <= Len(v) /\ \A i \in 1 .. m : z + i = i
      BY <1>1, <1>3
    <3> HIDE DEF z
    <3>2. q \in Seq(X) /\ Len(q) = m /\ \A i \in 1 .. m : q[i] = v[z + i]
      BY <1>1, <3>1, PieceFacts
    <3> HIDE DEF q
    <3>3. q = v
      BY <1>3, <3>1, <3>2, SameSeq
    <3>4. QED
      BY <3>3 DEF q, z
  <2>4. QED
    BY <2>1, <2>2, <2>3
<1>8. QED
  BY <1>5, <1>6, <1>7 DEF w, l, m

\* Where the first i of a cuboid's columns end, behind the header.
Offset(c, i) == BodyLength({BitsInOrder(c)[j] : j \in 1 .. i})

\* A column begins where those before it end.
LEMMA OffsetFacts ==
    ASSUME NEW c \in CuboidId
    PROVE  /\ Cardinality(c) \in Nat /\ Offset(c, 0) = 0 /\ Offset(c, Cardinality(c)) = BodyLength(c)
           /\ \A i \in 0 .. Cardinality(c) : Offset(c, i) \in Nat /\ Offset(c, i) <= BodyLength(c)
           /\ \A i \in 1 .. Cardinality(c) :
                /\ BitsInOrder(c)[i] \in c /\ ColumnLength(BitsInOrder(c)[i]) \in Nat \ {0}
                /\ Offset(c, i) = Offset(c, i - 1) + ColumnLength(BitsInOrder(c)[i])
                /\ Offset(c, i - 1) = BodyLength(Above(c, BitsInOrder(c)[i]))
<1> DEFINE n == Cardinality(c)
           bits == BitsInOrder(c)
           First(i) == {bits[j] : j \in 1 .. i}
<1>1. n \in Nat /\ \A i \in 1 .. n : bits[i] \in c
  BY BitsFacts
<1>2. \A i, j \in 1 .. n : bits[i] = bits[j] => i = j
  <2>1. \A i \in 1 .. n : bits[i] \in Nat
    BY <1>1, BitAssumption DEF CuboidId
  <2>2. \A i, j \in 1 .. n : bits[i] > bits[j] <=> i < j
    BY OrderFacts
  <2> HIDE DEF n, bits
  <2>3. QED
    BY <1>1, <2>1, <2>2
<1>3. \A i : Offset(c, i) = BodyLength(First(i))
  BY DEF Offset
<1>4. First(n) = c /\ \A i \in 1 .. n : First(i - 1) = Above(c, bits[i])
  <2>1. \A b \in c : \E i \in 1 .. n : bits[i] = b
    BY OrderFacts
  <2>2. \A i \in 1 .. n : First(i - 1) = Above(c, bits[i])
    BY OrderFacts
  <2> HIDE DEF n, bits
  <2>3. First(n) = c
    BY <1>1, <2>1
  <2>4. QED
    BY <2>2, <2>3
<1> HIDE DEF n, bits
<1>5. First(0) = {}
  OBVIOUS
<1>6. ASSUME NEW i \in 0 .. n PROVE First(i) \in SUBSET c /\ First(i) \in CuboidId
  <2>1. \A j \in 1 .. i : bits[j] \in c
    BY <1>1
  <2>2. First(i) \in SUBSET c
    BY <2>1
  <2>3. QED
    BY <2>2 DEF CuboidId
<1>7. \A i \in 0 .. n : BodyLength(First(i)) \in Nat /\ BodyLength(First(i)) <= BodyLength(c)
  <2> HIDE DEF First
  <2>1. QED
    BY <1>6, LengthSums
<1>8. ASSUME NEW i \in 1 .. n
      PROVE  /\ ColumnLength(bits[i]) \in Nat \ {0}
             /\ BodyLength(First(i)) = BodyLength(First(i - 1)) + ColumnLength(bits[i])
  <2>1. i \in 0 .. n /\ i \in 1 .. i /\ \A j \in 1 .. i : j \in 1 .. n
    BY <1>1
  <2>2. bits[i] \in First(i)
    BY <2>1
  <2>3. First(i) \ {bits[i]} = First(i - 1)
    <3>1. \A j \in 1 .. i : j \in 1 .. i - 1 <=> j # i
      BY <2>1
    <3>2. \A j \in 1 .. i - 1 : j \in 1 .. i
      BY <2>1
    <3>3. QED
      BY <1>2, <2>1, <3>1, <3>2
  <2>4. First(i) \in CuboidId /\ bits[i] \in Bit
    BY <1>1, <1>6, <2>1 DEF CuboidId
  <2>5. ColumnLength(bits[i]) \in Nat \ {0}
    <3>1. ColumnLength(bits[i]) \in 1 .. LongLength
      BY <2>4, EncodeFacts
    <3>2. LongLength \in Nat
      BY RadixPowers
    <3>3. QED
      BY <3>1, <3>2
  <2> HIDE DEF First
  <2>6. BodyLength(First(i)) = BodyLength(First(i) \ {bits[i]}) + ColumnLength(bits[i])
    BY <2>2, <2>4, LengthSums
  <2>7. QED
    BY <2>3, <2>5, <2>6
<1>9. BodyLength({}) = 0
  BY LengthSums
<1> HIDE DEF First
<1>10. QED
  BY <1>1, <1>3, <1>4, <1>5, <1>7, <1>8, <1>9 DEF n, bits

\* The first i of a cuboid's columns are laid out in body, each one of what P has
\* for it.
Laid(body, c, i, P) ==
    /\ Len(body) = Offset(c, i)
    /\ \A j \in 1 .. i : ByteArray(body, Offset(c, j - 1), ColumnLength(BitsInOrder(c)[j])) \in P[j]

\* One column more.
LEMMA LaidNext ==
    ASSUME NEW c \in CuboidId, NEW i \in Nat, i + 1 <= Cardinality(c), NEW P, NEW X,
           NEW body \in Seq(X), Laid(body, c, i, P),
           NEW bytes \in Seq(X), bytes \in P[i + 1], Len(bytes) = ColumnLength(BitsInOrder(c)[i + 1])
    PROVE  Laid(body \o bytes, c, i + 1, P)
<1> DEFINE n == Cardinality(c)
           O(j) == Offset(c, j)
           L(j) == ColumnLength(BitsInOrder(c)[j])
<1>1. /\ n \in Nat /\ \A j \in 0 .. n : O(j) \in Nat
      /\ \A j \in 1 .. n : O(j) = O(j - 1) + L(j) /\ L(j) \in Nat
  BY OffsetFacts
<1>2. /\ Len(body) = O(i) /\ Len(bytes) = L(i + 1) /\ i + 1 <= n
      /\ \A j \in 1 .. i : ByteArray(body, O(j - 1), L(j)) \in P[j]
  BY DEF Laid
<1> HIDE DEF n, O, L
<1>3. i \in 0 .. n /\ i + 1 \in 1 .. n /\ (i + 1) - 1 = i
  BY <1>1, <1>2
<1>4. Len(body \o bytes) = O(i + 1)
  <2>1. Len(body \o bytes) = Len(body) + Len(bytes)
    OBVIOUS
  <2>2. QED
    BY <1>1, <1>2, <1>3, <2>1
<1>5. ASSUME NEW j \in 1 .. i + 1 PROVE ByteArray(body \o bytes, O(j - 1), L(j)) \in P[j]
  <2>1. CASE j = i + 1
    <3>1. ByteArray(body \o bytes, Len(body), Len(bytes)) = bytes
      <4>1. 0 \in Nat
        OBVIOUS
      <4>2. QED
        BY <4>1, PieceOfConcat
    <3>2. j - 1 = i
      BY <2>1
    <3>3. QED
      BY <1>2, <2>1, <3>1, <3>2
  <2>2. CASE j # i + 1
    <3>1. j \in 1 .. i /\ j - 1 \in 0 .. n /\ j \in 1 .. n
      BY <1>1, <1>2, <1>3, <2>2
    <3>2. O(j - 1) \in Nat /\ L(j) \in Nat
      BY <1>1, <3>1
    <3>3. O(j - 1) + L(j) <= Len(body)
      <4>1. O(j - 1) + L(j) = O(j)
        BY <1>1, <3>1
      <4>2. O(j) <= O(i)
        <5> DEFINE Below == {k \in Nat : j + k <= n => O(j) <= O(j + k)}
        <5>1. 0 \in Below
          <6>1. j + 0 = j /\ j \in 0 .. n
            BY <3>1
          <6>2. QED
            BY <1>1, <6>1
        <5>2. ASSUME NEW k \in Nat, k \in Below PROVE k + 1 \in Below
          <6>1. SUFFICES ASSUME j + (k + 1) <= n PROVE O(j) <= O(j + (k + 1))
            OBVIOUS
          <6>2. j + (k + 1) \in 1 .. n /\ (j + (k + 1)) - 1 = j + k /\ j + k \in 0 .. n /\ j + k <= n /\ j \in 0 .. n
            BY <1>1, <3>1, <6>1
          <6>3. O(j + (k + 1)) = O(j + k) + L(j + (k + 1)) /\ L(j + (k + 1)) \in Nat
            BY <1>1, <6>2
          <6>4. O(j + k) \in Nat /\ O(j) \in Nat /\ O(j) <= O(j + k)
            BY <1>1, <5>2, <6>2
          <6>5. QED
            BY <6>3, <6>4
        <5>3. Nat \subseteq Below
          <6> HIDE DEF Below
          <6>1. QED
            BY <5>1, <5>2, InductionOnSets
        <5>4. i - j \in Nat /\ j + (i - j) = i /\ i <= n
          BY <1>3, <3>1
        <5>5. QED
          BY <5>3, <5>4
      <4>3. QED
        BY <1>2, <4>1, <4>2
    <3>4. ByteArray(body \o bytes, O(j - 1), L(j)) = ByteArray(body, O(j - 1), L(j))
      <4> DEFINE from == O(j - 1)
                 len == L(j)
      <4>1. from \in Nat /\ len \in Nat /\ from + len <= Len(body)
        BY <3>2, <3>3
      <4> HIDE DEF from, len
      <4>2. ByteArray(body \o bytes, from, len) = ByteArray(body, from, len)
        BY <4>1, PieceOfConcat
      <4>3. QED
        BY <4>2 DEF from, len
    <3>5. QED
      BY <1>2, <3>1, <3>4
  <2>3. QED
    BY <2>1, <2>2
<1>6. QED
  BY <1>4, <1>5 DEF Laid, O, L

\* The bytes of a cuboid's column b in a key.
Slice(key, c, b) == ByteArray(key, LongLength + BodyLength(Above(c, b)), ColumnLength(b))

\* A key of a cuboid: a header and as many bytes as its columns need.
IsKeyOf(key, c) ==
    /\ key \in Seq(Range(key)) /\ Len(key) = LongLength + BodyLength(c)
    /\ SubSeq(key, 1, LongLength) = Header(c)

\* A column's bytes lie behind the header and end before the key does.
LEMMA SliceFacts ==
    ASSUME NEW c \in CuboidId, NEW key, IsKeyOf(key, c), NEW i \in 1 .. Cardinality(c)
    PROVE  LET b == BitsInOrder(c)[i]
           IN  /\ Slice(key, c, b) \in Seq(Range(key)) /\ Len(Slice(key, c, b)) = ColumnLength(b)
               /\ Slice(key, c, b) = ByteArray(key, LongLength + Offset(c, i - 1), ColumnLength(b))
               /\ \A r \in 1 .. ColumnLength(b) :
                     Slice(key, c, b)[r] = key[(LongLength + Offset(c, i - 1)) + r]
<1> DEFINE b == BitsInOrder(c)[i]
           len == ColumnLength(b)
           from == LongLength + Offset(c, i - 1)
<1>1. /\ Offset(c, i - 1) \in Nat /\ Offset(c, i) <= BodyLength(c) /\ BodyLength(c) \in Nat
      /\ Offset(c, i) = Offset(c, i - 1) + len /\ len \in Nat /\ Offset(c, i - 1) = BodyLength(Above(c, b))
  <2>1. i \in 0 .. Cardinality(c) /\ i - 1 \in 0 .. Cardinality(c)
    BY OffsetFacts
  <2>2. BodyLength(c) \in Nat
    BY LengthSums
  <2>3. QED
    BY <2>1, <2>2, OffsetFacts
<1>2. LongLength \in Nat
  BY RadixPowers
<1> HIDE DEF len
<1>3. from \in Nat /\ from + len <= Len(key) /\ key \in Seq(Range(key))
  BY <1>1, <1>2 DEF IsKeyOf
<1>4. Slice(key, c, b) = ByteArray(key, from, len)
  BY <1>1 DEF Slice, len
<1> HIDE DEF from
<1>5. /\ ByteArray(key, from, len) \in Seq(Range(key)) /\ Len(ByteArray(key, from, len)) = len
      /\ \A r \in 1 .. len : ByteArray(key, from, len)[r] = key[from + r]
  BY <1>1, <1>3, PieceFacts
<1>6. QED
  BY <1>4, <1>5 DEF from, len

\* A header and the columns behind it are a key.
LEMMA KeyLaid ==
    ASSUME NEW c \in CuboidId, NEW X, NEW body \in Seq(X), NEW P, Laid(body, c, Cardinality(c), P)
    PROVE  LET key == Header(c) \o body
           IN  /\ IsKeyOf(key, c) /\ ParseCuboid(key) = c
               /\ \A i \in 1 .. Cardinality(c) : Slice(key, c, BitsInOrder(c)[i]) \in P[i]
<1> DEFINE head == Header(c)
           key == head \o body
           n == Cardinality(c)
<1>1. head \in Seq(Int \cup X) /\ body \in Seq(Int \cup X) /\ Len(head) = LongLength /\ LongLength \in Nat
  <2>1. head \in Seq(Int) /\ Len(head) = LongLength /\ LongLength \in Nat
    BY HeaderFacts, RadixPowers
  <2> HIDE DEF head
  <2>2. QED
    BY <2>1
<1>2. Len(body) = BodyLength(c) /\ \A i \in 1 .. n : ByteArray(body, Offset(c, i - 1), ColumnLength(BitsInOrder(c)[i])) \in P[i]
  BY OffsetFacts DEF Laid
<1>3. Len(key) = LongLength + Len(body) /\ SubSeq(key, 1, LongLength) = head /\ ParseCuboid(key) = c
  BY ParseKey
<1> HIDE DEF head
<1>4. key \in Seq(Range(key))
  <2>1. key \in Seq(Int \cup X)
    BY <1>1
  <2> HIDE DEF key
  <2>2. DOMAIN key = 1 .. Len(key) /\ Len(key) \in Nat /\ key = [i \in 1 .. Len(key) |-> key[i]]
    BY <2>1
  <2>3. \A i \in 1 .. Len(key) : key[i] \in Range(key)
    BY <2>2 DEF Range
  <2>4. key \in [1 .. Len(key) -> Range(key)]
    BY <2>2, <2>3
  <2>5. QED
    BY <2>2, <2>4
<1>5. IsKeyOf(key, c)
  BY <1>2, <1>3, <1>4 DEF IsKeyOf, head
<1>6. ASSUME NEW i \in 1 .. n PROVE Slice(key, c, BitsInOrder(c)[i]) \in P[i]
  <2> DEFINE from == Offset(c, i - 1)
             len == ColumnLength(BitsInOrder(c)[i])
  <2>1. from \in Nat /\ len \in Nat /\ from + len <= Len(body)
    <3>1. i \in 0 .. n /\ i - 1 \in 0 .. n
      BY OffsetFacts
    <3>2. Offset(c, i) <= BodyLength(c) /\ Offset(c, i) = from + len /\ from \in Nat /\ len \in Nat
      BY <3>1, OffsetFacts
    <3>3. QED
      BY <1>2, <3>2
  <2>2. Slice(key, c, BitsInOrder(c)[i]) = ByteArray(key, LongLength + from, len)
    <3> HIDE DEF key
    <3>1. QED
      BY <1>5, SliceFacts
  <2> HIDE DEF from, len
  <2>3. ByteArray(key, Len(head) + from, len) = ByteArray(body, from, len)
    <3> DEFINE Y == Int \cup X
    <3>1. head \in Seq(Y) /\ body \in Seq(Y)
      BY <1>1
    <3> HIDE DEF Y
    <3>2. QED
      BY <2>1, <3>1, PieceOfConcat
  <2>4. QED
    BY <1>1, <1>2, <2>2, <2>3 DEF from, len
<1>7. QED
  BY <1>3, <1>5, <1>6 DEF head

\* Keys of a cuboid with the same bytes in every column are the same.
LEMMA SameKeys ==
    ASSUME NEW c \in CuboidId, NEW k, NEW l, IsKeyOf(k, c), IsKeyOf(l, c),
           \A b \in c : Slice(k, c, b) = Slice(l, c, b)
    PROVE  k = l
<1> DEFINE n == Cardinality(c)
           L(i) == ColumnLength(BitsInOrder(c)[i])
           End(i) == LongLength + Offset(c, i)
           Same == {i \in Nat : i <= n => \A m \in 1 .. End(i) : k[m] = l[m]}
<1>1. LongLength \in Nat /\ n \in Nat /\ BodyLength(c) \in Nat
  BY RadixPowers, OffsetFacts, LengthSums
<1>2. /\ k \in Seq(Range(k)) /\ l \in Seq(Range(l)) /\ Len(k) = LongLength + BodyLength(c) /\ Len(l) = Len(k)
      /\ SubSeq(k, 1, LongLength) = SubSeq(l, 1, LongLength)
  BY DEF IsKeyOf
<1>3. /\ End(0) = LongLength /\ End(n) = Len(k)
      /\ \A i \in 0 .. n : End(i) \in Nat
      /\ \A i \in 1 .. n : End(i) = End(i - 1) + L(i) /\ L(i) \in Nat
  <2>1. Offset(c, 0) = 0 /\ Offset(c, n) = BodyLength(c)
    BY OffsetFacts
  <2>2. \A i \in 0 .. n : Offset(c, i) \in Nat
    BY OffsetFacts
  <2>3. \A i \in 1 .. n : Offset(c, i) = Offset(c, i - 1) + L(i) /\ L(i) \in Nat
    BY OffsetFacts
  <2>4. \A i \in 1 .. n : i - 1 \in 0 .. n
    BY <1>1
  <2> HIDE DEF L, n
  <2>5. QED
    BY <1>1, <1>2, <2>1, <2>2, <2>3, <2>4
<1>4. 0 \in Same
  <2>1. ASSUME NEW m \in 1 .. LongLength PROVE k[m] = l[m]
    <3>1. ASSUME NEW s, s \in Seq(Range(s)), Len(s) = LongLength + BodyLength(c)
          PROVE  SubSeq(s, 1, LongLength)[m] = s[m]
      BY <1>1, <3>1
    <3>2. QED
      BY <1>2, <3>1
  <2>2. QED
    BY <1>3, <2>1
<1>5. ASSUME NEW i \in 1 .. n, NEW r \in 1 .. L(i) PROVE k[End(i - 1) + r] = l[End(i - 1) + r]
  <2>1. BitsInOrder(c)[i] \in c
    BY OffsetFacts
  <2>2. Slice(k, c, BitsInOrder(c)[i])[r] = k[End(i - 1) + r]
    BY SliceFacts
  <2>3. Slice(l, c, BitsInOrder(c)[i])[r] = l[End(i - 1) + r]
    BY SliceFacts
  <2>4. QED
    BY <2>1, <2>2, <2>3
<1> HIDE DEF End, L
<1>6. ASSUME NEW i \in Nat, i \in Same PROVE i + 1 \in Same
  <2>1. SUFFICES ASSUME i + 1 <= n, NEW m \in 1 .. End(i + 1) PROVE k[m] = l[m]
    OBVIOUS
  <2>2. i + 1 \in 1 .. n /\ (i + 1) - 1 = i /\ i <= n /\ i \in 0 .. n /\ i + 1 \in 0 .. n
    BY <1>1, <2>1
  <2>3. End(i + 1) = End(i) + L(i + 1) /\ End(i) \in Nat /\ L(i + 1) \in Nat
    BY <1>3, <2>2
  <2>4. CASE m <= End(i)
    <3>1. m \in 1 .. End(i)
      BY <2>3, <2>4
    <3>2. QED
      BY <1>6, <2>2, <3>1
  <2>5. CASE ~(m <= End(i))
    <3> DEFINE r == m - End(i)
    <3>1. r \in 1 .. L(i + 1) /\ End(i) + r = m
      BY <2>3, <2>5
    <3> HIDE DEF r
    <3>2. QED
      BY <1>5, <2>2, <3>1
  <2>6. QED
    BY <2>4, <2>5
<1> HIDE DEF Same
<1>7. Nat \subseteq Same
  BY <1>4, <1>6, InductionOnSets
<1>8. \A m \in 1 .. Len(k) : k[m] = l[m]
  BY <1>1, <1>3, <1>7 DEF Same
<1>9. QED
  BY <1>2, <1>8, SameSeq

\* The key of a row is one of the base cuboid, and has the row's values in its
\* columns' places.
LEMMA RowKeyFacts ==
    ASSUME NEW row, NEW key \in KeysOf(row)
    PROVE  /\ IsKeyOf(key, Bit) /\ ParseCuboid(key) = Bit
           /\ \A b \in Bit : Slice(key, Bit, b) \in Encode(ColumnEncoding(b), row[FlatColumn(b)])
<1> DEFINE values == KeyValues(row)
           n == Len(RowKeyColumns)
           Encoded(i) == Encode(ColumnEncoding(BitsInOrder(Bit)[i]), values[i])
           Written == UNION {Encoded(i) : i \in 1 .. n}
           U == UNION {Range(bytes) : bytes \in Written}
           P == [i \in 1 .. n |-> Encoded(i)]
           V == SUBSET Seq(U)
           Extended(B, i) == {body \o bytes : body \in B, bytes \in Encoded(i)}
           step == [i \in Nat |-> [B \in V |-> IF i \in 1 .. n THEN Extended(B, i) ELSE B]]
           AreBodies(h) == h = [i \in 0 .. n |-> IF i = 0 THEN {<<>>} ELSE Extended(h[i - 1], i)]
           Bodies == CHOOSE h : AreBodies(h)
<1>1. n \in Nat /\ Bit = 0 .. n - 1 /\ DOMAIN RowKeyColumns = 1 .. n /\ Bit \in CuboidId
  BY RowKeyAssumption DEF CuboidId
<1>2. Cardinality(Bit) = n
  <2> HIDE DEF n
  <2>1. Cardinality(0 .. n - 1) = n
    BY <1>1, FS_Interval
  <2>2. QED
    BY <1>1, <2>1
<1>3. /\ DOMAIN values = 1 .. n /\ Len(values) = n
      /\ \A i \in 1 .. n : values[i] = row[FlatColumn(BitsInOrder(Bit)[i])]
  BY <1>1 DEF KeyValues, base_cuboid_id
<1>4. KeysOf(row) = {Header(Bit) \o body : body \in Bodies[n]}
  BY <1>3 DEF KeysOf, EncodeKey, base_cuboid_id
<1> HIDE DEF values, n
<1>5. ASSUME NEW i \in 1 .. n, NEW bytes \in Encoded(i)
      PROVE  bytes \in Seq(U) /\ Len(bytes) = ColumnLength(BitsInOrder(Bit)[i]) /\ bytes \in P[i]
  <2>1. BitsInOrder(Bit)[i] \in Bit
    BY <1>1, <1>2, BitsFacts
  <2>2. bytes \in Seq(Range(bytes)) /\ Len(bytes) = ColumnLength(BitsInOrder(Bit)[i])
    BY <2>1, EncodeFacts
  <2>3. Range(bytes) \subseteq U /\ bytes \in P[i]
    OBVIOUS
  <2> HIDE DEF U, P
  <2>4. QED
    BY <2>2, <2>3
<1>6. \A i \in 1 .. n : P[i] = Encode(ColumnEncoding(BitsInOrder(Bit)[i]), values[i])
  OBVIOUS
<1> HIDE DEF U, P, Encoded
<1>7. ASSUME NEW B \in V, NEW i \in 1 .. n PROVE Extended(B, i) \in V
  <2>1. \A body \in B : body \in Seq(U)
    OBVIOUS
  <2>2. \A body \in B : \A bytes \in Encoded(i) : body \o bytes \in Seq(U)
    BY <1>5, <2>1
  <2>3. ASSUME NEW y \in Extended(B, i) PROVE y \in Seq(U)
    <3>1. \E body \in B : \E bytes \in Encoded(i) : y = body \o bytes
      BY <2>3
    <3>2. QED
      BY <2>2, <3>1
  <2> HIDE DEF Extended
  <2>4. QED
    BY <2>3
<1>8. {<<>>} \in V
  OBVIOUS
<1> HIDE DEF V, Extended
<1>9. step \in [Nat -> [V -> V]]
  BY <1>7
<1>10. PICK g : Computes(g, n, V, {<<>>}, step)
  <2> HIDE DEF step
  <2>1. QED
    BY <1>1, <1>8, <1>9, RecursionExists
<1>11. AreBodies(g)
  <2>1. g \in [0 .. n -> V] /\ g[0] = {<<>>} /\ \A i \in 1 .. n : g[i] = step[i][g[i - 1]]
    BY <1>10 DEF Computes
  <2>2. ASSUME NEW i \in 1 .. n PROVE g[i] = Extended(g[i - 1], i)
    <3>1. i \in Nat /\ i - 1 \in 0 .. n
      BY <1>1
    <3>2. g[i - 1] \in V
      BY <2>1, <3>1
    <3>3. step[i][g[i - 1]] = Extended(g[i - 1], i)
      BY <3>1, <3>2
    <3>4. QED
      BY <2>1, <3>3
  <2>3. \A i \in 0 .. n : i # 0 => i \in 1 .. n
    BY <1>1
  <2>4. \A i \in 0 .. n : g[i] = IF i = 0 THEN {<<>>} ELSE Extended(g[i - 1], i)
    BY <2>1, <2>2, <2>3
  <2>5. g = [i \in 0 .. n |-> g[i]]
    BY <2>1
  <2>6. QED
    BY <2>4, <2>5
<1>12. AreBodies(Bodies)
  <2> HIDE DEF AreBodies
  <2>1. QED
    BY <1>11
<1> HIDE DEF Bodies
<1>13. Bodies[n] \in V /\ \A body \in Bodies[n] : Laid(body, Bit, n, P)
  <2> DEFINE Typed == {i \in Nat : i <= n => Bodies[i] \in V /\ \A body \in Bodies[i] : Laid(body, Bit, i, P)}
  <2>1. /\ Bodies[0] = {<<>>}
        /\ \A i \in 1 .. n : Bodies[i] = Extended(Bodies[i - 1], i)
    <3> DEFINE Body(h, i) == IF i = 0 THEN {<<>>} ELSE Extended(h[i - 1], i)
    <3>1. Bodies = [i \in 0 .. n |-> Body(Bodies, i)]
      BY <1>12
    <3> HIDE DEF Body
    <3>2. \A i \in 0 .. n : Bodies[i] = Body(Bodies, i)
      BY <3>1
    <3>3. 0 \in 0 .. n /\ \A i \in 1 .. n : i \in 0 .. n /\ i # 0
      BY <1>1
    <3>4. QED
      BY <3>2, <3>3 DEF Body
  <2>2. 0 \in Typed
    <3>1. Offset(Bit, 0) = 0
      BY <1>1, OffsetFacts
    <3>2. Laid(<<>>, Bit, 0, P)
      BY <3>1 DEF Laid
    <3>3. QED
      BY <1>8, <2>1, <3>2
  <2>3. ASSUME NEW i \in Nat, i \in Typed PROVE i + 1 \in Typed
    <3>1. ASSUME i + 1 <= n
          PROVE  Bodies[i + 1] \in V /\ \A body \in Bodies[i + 1] : Laid(body, Bit, i + 1, P)
      <4>1. i + 1 \in 1 .. n /\ (i + 1) - 1 = i /\ i <= n
        BY <1>1, <3>1
      <4>2. Bodies[i] \in V /\ \A body \in Bodies[i] : Laid(body, Bit, i, P)
        BY <2>3, <4>1
      <4>3. Bodies[i + 1] = Extended(Bodies[i], i + 1)
        BY <2>1, <4>1
      <4>4. ASSUME NEW body \in Bodies[i + 1] PROVE Laid(body, Bit, i + 1, P)
        <5>1. PICK u \in Bodies[i], bytes \in Encoded(i + 1) : body = u \o bytes
          BY <4>3 DEF Extended
        <5>2. u \in Seq(U) /\ Laid(u, Bit, i, P)
          BY <4>2 DEF V
        <5>3. bytes \in Seq(U) /\ bytes \in P[i + 1] /\ Len(bytes) = ColumnLength(BitsInOrder(Bit)[i + 1])
          BY <1>5, <4>1
        <5>4. i + 1 <= Cardinality(Bit)
          BY <1>2, <4>1
        <5>5. Laid(u \o bytes, Bit, i + 1, P)
          BY <1>1, <5>2, <5>3, <5>4, LaidNext
        <5>6. QED
          BY <5>1, <5>5
      <4>5. QED
        BY <1>7, <4>1, <4>2, <4>3, <4>4
    <3>2. QED
      BY <3>1
  <2>4. Nat \subseteq Typed
    <3> HIDE DEF Typed
    <3>1. QED
      BY <2>2, <2>3, InductionOnSets
  <2>5. QED
    BY <1>1, <2>4
<1>14. PICK body \in Bodies[n] : key = Header(Bit) \o body
  BY <1>4
<1>15. body \in Seq(U) /\ Laid(body, Bit, Cardinality(Bit), P)
  BY <1>2, <1>13, <1>14 DEF V
<1>16. /\ IsKeyOf(key, Bit) /\ ParseCuboid(key) = Bit
       /\ \A i \in 1 .. n : Slice(key, Bit, BitsInOrder(Bit)[i]) \in P[i]
  BY <1>1, <1>2, <1>14, <1>15, KeyLaid
<1>17. ASSUME NEW b \in Bit PROVE Slice(key, Bit, b) \in Encode(ColumnEncoding(b), row[FlatColumn(b)])
  <2>1. PICK i \in 1 .. n : BitsInOrder(Bit)[i] = b
    BY <1>1, <1>2, OrderFacts
  <2>2. P[i] = Encode(ColumnEncoding(b), row[FlatColumn(b)])
    BY <1>3, <1>6, <2>1
  <2>3. QED
    BY <1>16, <2>1, <2>2
<1>18. QED
  BY <1>16, <1>17

\* The key made for a child is one of the child.
LEMMA ChildKeyFacts ==
    ASSUME NEW child \in CuboidId, NEW buffers, NEW parent
    PROVE  ParseCuboid(BuildKey(buffers, parent, child)) = child
<1> DEFINE copied == FlattenSeq([i \in 1 .. Cardinality(BitsLookedAt(parent) \cap child) |->
                         buffers[BufferIndex(parent, child, BitsInOrder(BitsLookedAt(parent) \cap child)[i])]])
           n == BodyLength(child)
           body == [i \in 1 .. n |-> IF i <= Len(copied) THEN copied[i] ELSE 0]
<1>1. BuildKey(buffers, parent, child) = Header(child) \o body
  BY DEF BuildKey
<1> HIDE DEF copied
<1>2. n \in Int
  BY LengthSums
<1> HIDE DEF n
<1>3. DOMAIN body = 1 .. n /\ body = [i \in 1 .. n |-> body[i]]
  OBVIOUS
<1> HIDE DEF body
<1>4. body \in Seq(Range(body))
  <2> DEFINE m == IF n >= 0 THEN n ELSE 0
  <2>1. m \in Nat /\ 1 .. n = 1 .. m
    BY <1>2
  <2> HIDE DEF m
  <2>2. \A i \in 1 .. m : body[i] \in Range(body)
    BY <1>3, <2>1 DEF Range
  <2>3. body \in [1 .. m -> Range(body)]
    BY <1>3, <2>1, <2>2
  <2>4. QED
    BY <2>1, <2>3
<1>5. QED
  BY <1>1, <1>4, ParseKey

\* What the splitter has for a key: each column's bytes, in order, behind the
\* header's.
LEMMA SplitFacts ==
    ASSUME NEW c \in CuboidId, NEW key, IsKeyOf(key, c), ParseCuboid(key) = c,
           DOMAIN split_buffers = 1 .. Len(RowKeyColumns) + 2
    PROVE  /\ DOMAIN Split(key) = DOMAIN split_buffers
           /\ \A i \in 1 .. Cardinality(c) : Split(key)[1 + i] = Slice(key, c, BitsInOrder(c)[i])
<1> DEFINE n == Cardinality(c)
           columns == BitsInOrder(c)
           L(i) == ColumnLength(columns[i])
           AreStarts(h) == h = [i \in 0 .. Len(columns) |-> IF i = 0 THEN LongLength ELSE h[i - 1] + L(i)]
           starts == CHOOSE h : AreStarts(h)
           Buffer(i) == CASE i = 1 -> ByteArray(key, 0, LongLength)
                          [] i - 1 \in DOMAIN columns -> ByteArray(key, starts[i - 2], L(i - 1))
                          [] OTHER -> split_buffers[i]
<1>1. /\ n \in Nat /\ DOMAIN columns = 1 .. n /\ Len(columns) = n /\ LongLength \in Nat
      /\ \A i \in 0 .. n : Offset(c, i) \in Nat
      /\ \A i \in 1 .. n : Offset(c, i) = Offset(c, i - 1) + L(i) /\ L(i) \in Nat
      /\ Offset(c, 0) = 0
  <2>1. n \in Nat /\ DOMAIN columns = 1 .. n /\ \A i \in 1 .. n : columns[i] \in c
    BY BitsFacts
  <2>2. columns = [i \in 1 .. n |-> columns[i]]
    <3> DEFINE Place(i) == CHOOSE b \in c : Cardinality({d \in c : d > b}) = i - 1
    <3>1. columns = [i \in 1 .. n |-> Place(i)]
      BY DEF BitsInOrder
    <3> HIDE DEF Place, columns, n
    <3>2. QED
      BY <3>1
  <2>3. LongLength \in Nat
    BY RadixPowers
  <2>4. \A i \in 0 .. n : Offset(c, i) \in Nat
    BY OffsetFacts
  <2>5. \A i \in 1 .. n : Offset(c, i) = Offset(c, i - 1) + L(i) /\ L(i) \in Nat
    BY OffsetFacts
  <2>6. Offset(c, 0) = 0
    BY OffsetFacts
  <2> HIDE DEF L, columns, n
  <2>7. columns \in Seq(c) /\ Len(columns) = n
    BY <2>1, <2>2
  <2>8. QED
    BY <2>1, <2>3, <2>4, <2>5, <2>6, <2>7
<1>2. Split(key) = [i \in DOMAIN split_buffers |-> Buffer(i)]
  BY DEF Split
<1> HIDE DEF columns, n, L
<1>3. AreStarts([i \in 0 .. n |-> LongLength + Offset(c, i)])
  <2> DEFINE h == [i \in 0 .. n |-> LongLength + Offset(c, i)]
             Start(i) == IF i = 0 THEN LongLength ELSE h[i - 1] + L(i)
  <2>1. ASSUME NEW i \in 0 .. n PROVE h[i] = Start(i)
    <3>1. CASE i = 0
      BY <1>1, <3>1
    <3>2. CASE i # 0
      <4>1. i \in 1 .. n /\ i - 1 \in 0 .. n
        BY <1>1, <3>2
      <4>2. h[i - 1] = LongLength + Offset(c, i - 1) /\ h[i] = LongLength + Offset(c, i)
        BY <4>1
      <4>3. Offset(c, i) = Offset(c, i - 1) + L(i) /\ L(i) \in Nat /\ Offset(c, i - 1) \in Nat
        BY <1>1, <4>1
      <4> HIDE DEF h
      <4>4. QED
        BY <1>1, <3>2, <4>2, <4>3
    <3>3. QED
      BY <3>1, <3>2
  <2>2. h = [i \in 0 .. n |-> h[i]]
    OBVIOUS
  <2> HIDE DEF h
  <2>3. h = [i \in 0 .. n |-> Start(i)]
    BY <2>1, <2>2
  <2>4. QED
    BY <1>1, <2>3 DEF h
<1>4. AreStarts(starts)
  <2> HIDE DEF AreStarts
  <2>1. QED
    BY <1>3
<1> HIDE DEF starts
<1>5. \A i \in 0 .. n : starts[i] = LongLength + Offset(c, i)
  <2> DEFINE Right == {i \in Nat : i <= n => starts[i] = LongLength + Offset(c, i)}
  <2>1. starts[0] = LongLength /\ \A i \in 1 .. n : starts[i] = starts[i - 1] + L(i)
    <3> DEFINE Start(i) == IF i = 0 THEN LongLength ELSE starts[i - 1] + L(i)
    <3>1. starts = [i \in 0 .. n |-> Start(i)]
      BY <1>1, <1>4
    <3> HIDE DEF Start
    <3>2. \A i \in 0 .. n : starts[i] = Start(i)
      BY <3>1
    <3>3. 0 \in 0 .. n /\ \A i \in 1 .. n : i \in 0 .. n /\ i # 0
      BY <1>1
    <3>4. QED
      BY <3>2, <3>3 DEF Start
  <2>2. 0 \in Right
    BY <1>1, <2>1
  <2>3. ASSUME NEW i \in Nat, i \in Right PROVE i + 1 \in Right
    <3>1. SUFFICES ASSUME i + 1 <= n PROVE starts[i + 1] = LongLength + Offset(c, i + 1)
      OBVIOUS
    <3>2. i + 1 \in 1 .. n /\ (i + 1) - 1 = i /\ i <= n /\ i \in 0 .. n
      BY <1>1, <3>1
    <3>3. starts[i + 1] = starts[i] + L(i + 1)
      BY <2>1, <3>2
    <3>4. starts[i] = LongLength + Offset(c, i)
      BY <2>3, <3>2
    <3>5. Offset(c, i + 1) = Offset(c, i) + L(i + 1) /\ L(i + 1) \in Nat /\ Offset(c, i) \in Nat
      BY <1>1, <3>2
    <3>6. QED
      BY <1>1, <3>3, <3>4, <3>5
  <2> HIDE DEF Right
  <2>4. Nat \subseteq Right
    BY <2>2, <2>3, InductionOnSets
  <2>5. QED
    BY <1>1, <2>4 DEF Right
<1>6. n <= Len(RowKeyColumns) /\ Len(RowKeyColumns) \in Nat
  <2> DEFINE m == Len(RowKeyColumns)
  <2>1. m \in Nat /\ Bit = 0 .. m - 1
    BY RowKeyAssumption
  <2> HIDE DEF m
  <2>2. Cardinality(0 .. m - 1) = m
    BY <2>1, FS_Interval
  <2>3. n <= Cardinality(Bit)
    BY BitAssumption, FS_Subset DEF CuboidId, n
  <2>4. QED
    BY <2>1, <2>2, <2>3 DEF m
<1>7. ASSUME NEW i \in 1 .. n PROVE Split(key)[1 + i] = Slice(key, c, BitsInOrder(c)[i])
  <2>1. 1 + i \in DOMAIN split_buffers /\ 1 + i # 1 /\ (1 + i) - 1 = i /\ (1 + i) - 2 = i - 1 /\ i - 1 \in 0 .. n
    BY <1>1, <1>6
  <2>2. Split(key)[1 + i] = Buffer(1 + i)
    BY <1>2, <2>1
  <2>3. Buffer(1 + i) = ByteArray(key, starts[i - 1], L(i))
    BY <1>1, <2>1
  <2>4. starts[i - 1] = LongLength + Offset(c, i - 1)
    BY <1>5, <2>1
  <2>5. Slice(key, c, BitsInOrder(c)[i]) = ByteArray(key, LongLength + Offset(c, i - 1), L(i))
    BY SliceFacts DEF L, n, columns
  <2>6. QED
    BY <2>2, <2>3, <2>4, <2>5
<1>8. QED
  BY <1>2, <1>7 DEF n

\* The buffer the builder takes a column of the parent from is that column's.
LEMMA TakenBytes ==
    ASSUME NEW c \in CuboidId, NEW key, IsKeyOf(key, c), ParseCuboid(key) = c,
           DOMAIN split_buffers = 1 .. Len(RowKeyColumns) + 2, NEW child, NEW b \in c
    PROVE  /\ Split(key)[BufferIndex(c, child, b)] = Slice(key, c, b)
           /\ Slice(key, c, b) \in Seq(Range(key)) /\ Len(Slice(key, c, b)) = ColumnLength(b)
<1>1. PICK i \in 1 .. Cardinality(c) : BitsInOrder(c)[i] = b
  BY OrderFacts
<1>2. Cardinality(Above(c, b)) = i - 1 /\ Cardinality(c) \in Nat
  BY <1>1, BitsFacts DEF Above
<1>3. {d \in c : d >= b} = Above(c, b) \cup {b} /\ b \notin Above(c, b) /\ IsFiniteSet(Above(c, b))
  <2>1. b \in Nat /\ \A d \in c : d \in Nat
    BY BitAssumption DEF CuboidId
  <2>2. IsFiniteSet(c)
    BY BitAssumption, FS_Subset DEF CuboidId
  <2>3. IsFiniteSet(Above(c, b))
    BY <2>2, FS_Subset DEF Above
  <2>4. ASSUME NEW d \in c PROVE d >= b <=> d \in Above(c, b) \/ d = b
    BY <2>1 DEF Above
  <2>5. Above(c, b) \subseteq c /\ b \notin Above(c, b)
    BY <2>1 DEF Above
  <2>6. QED
    BY <2>3, <2>4, <2>5
<1>4. Cardinality(Above(c, b) \cup {b}) = Cardinality(Above(c, b)) + 1
  <2> DEFINE A == Above(c, b)
  <2>1. IsFiniteSet(A) /\ b \notin A
    BY <1>3
  <2> HIDE DEF A
  <2>2. Cardinality(A \cup {b}) = Cardinality(A) + 1
    BY <2>1, FS_AddElement
  <2>3. QED
    BY <2>2 DEF A
<1>5. BufferIndex(c, child, b) = 1 + i
  <2>1. BufferIndex(c, child, b) = 1 + Cardinality(Above(c, b) \cup {b})
    BY <1>3, Zenon DEF BufferIndex
  <2>2. QED
    BY <1>2, <1>4, <2>1
<1>6. QED
  BY <1>1, <1>5, SplitFacts, SliceFacts

\* The loop of build_key_internal looks at every column of the child.
KeysKeepColumns == \A c \in CuboidId : \A d \in Spanning[c] : d \subseteq BitsLookedAt(c)

\* The key made for a child has the same bytes in the child's columns.
LEMMA ChildKeyKeeps ==
    ASSUME KeysKeepColumns, NEW c \in CuboidId, NEW key, IsKeyOf(key, c), ParseCuboid(key) = c,
           DOMAIN split_buffers = 1 .. Len(RowKeyColumns) + 2, NEW child \in Spanning[c]
    PROVE  LET made == BuildKey(Split(key), c, child)
           IN  /\ IsKeyOf(made, child) /\ child \in CuboidId /\ child \subseteq c
               /\ \A b \in child : Slice(made, child, b) = Slice(key, c, b)
<1> DEFINE m == Cardinality(child)
           bits == BitsInOrder(child)
           X == Range(key)
           S(i) == Slice(key, c, bits[i])
           seqs == [i \in 1 .. m |-> Split(key)[BufferIndex(c, child, bits[i])]]
           copied == FlattenSeq(seqs)
           P == [i \in 1 .. m |-> {S(i)}]
           n == BodyLength(child)
           body == [i \in 1 .. n |-> IF i <= Len(copied) THEN copied[i] ELSE 0]
<1>1. child \in CuboidId /\ child \subseteq c /\ BitsLookedAt(c) \cap child = child
  BY SpanningAssumption DEF KeysKeepColumns, BitsLookedAt
<1>2. BuildKey(Split(key), c, child) = Header(child) \o body
  BY <1>1 DEF BuildKey
<1>3. m \in Nat /\ \A i \in 1 .. m : bits[i] \in child
  BY <1>1, BitsFacts
<1>4. \A i \in 1 .. m : seqs[i] = S(i) /\ S(i) \in Seq(X) /\ Len(S(i)) = ColumnLength(bits[i]) /\ S(i) \in P[i]
  <2>1. ASSUME NEW i \in 1 .. m
        PROVE  /\ Split(key)[BufferIndex(c, child, bits[i])] = S(i)
               /\ S(i) \in Seq(X) /\ Len(S(i)) = ColumnLength(bits[i])
    <3>1. bits[i] \in c
      BY <1>1, <1>3
    <3> HIDE DEF bits
    <3>2. QED
      BY <3>1, TakenBytes
  <2> HIDE DEF S, X
  <2>2. QED
    BY <2>1
<1>5. Len(seqs) = m /\ seqs \in Seq(Seq(X))
  <2>1. seqs = [i \in 1 .. m |-> seqs[i]]
    OBVIOUS
  <2> DEFINE V == Seq(X)
  <2>2. \A i \in 1 .. m : seqs[i] \in V
    BY <1>4
  <2> HIDE DEF seqs, V, m
  <2>3. seqs \in [1 .. m -> V]
    BY <2>1, <2>2
  <2>4. seqs \in Seq(V) /\ Len(seqs) = m
    BY <1>3, <2>1, <2>3
  <2>5. QED
    BY <2>4 DEF V
<1>6. Laid(<<>>, child, 0, P) /\ n \in Nat /\ Offset(child, m) = n
  <2>1. Offset(child, 0) = 0 /\ Offset(child, m) = n
    BY <1>1, OffsetFacts
  <2>2. n \in Nat
    BY <1>1, LengthSums
  <2> HIDE DEF n, m, P
  <2>3. QED
    BY <2>1, <2>2 DEF Laid
<1> HIDE DEF seqs, P, S, X, bits
<1>7. copied \in Seq(X) /\ Laid(copied, child, m, P)
  <2>1. CASE m = 0
    <3>1. seqs = <<>>
      BY <1>5, <2>1
    <3>2. copied = <<>>
      BY <1>5, <2>1, <3>1 DEF FlattenSeq
    <3> HIDE DEF copied
    <3>3. QED
      BY <1>6, <2>1, <3>2
  <2>2. CASE m # 0
    <3>1. PICK f : /\ f \in [1 .. m -> Seq(X)] /\ f[1] = seqs[1]
                   /\ \A i \in 2 .. m : f[i] = f[i - 1] \o seqs[i]
                   /\ copied = f[m]
      <4>1. Len(seqs) # 0 /\ seqs \in Seq(Seq(X))
        BY <1>5, <2>2
      <4>2. \E f :
               /\ f \in [1 .. Len(seqs) -> Seq(X)] /\ f[1] = seqs[1]
               /\ \A i \in 2 .. Len(seqs) : f[i] = f[i - 1] \o seqs[i]
               /\ FlattenSeq(seqs) = f[Len(seqs)]
        BY <4>1, FlattenComputes
      <4>3. Len(seqs) = m
        BY <1>5
      <4> HIDE DEF m
      <4>4. QED
        BY <4>2, <4>3
    <3> HIDE DEF copied, m, n
    <3> DEFINE Done == {i \in Nat : i + 1 <= m => Laid(f[i + 1], child, i + 1, P)}
    <3>2. ASSUME NEW i \in Nat, i + 1 <= m, NEW u \in Seq(X), Laid(u, child, i, P)
          PROVE  Laid(u \o seqs[i + 1], child, i + 1, P)
      <4> DEFINE v == seqs[i + 1]
      <4>1. i + 1 \in 1 .. m
        BY <1>3, <3>2
      <4>2. v \in Seq(X) /\ v \in P[i + 1] /\ Len(v) = ColumnLength(BitsInOrder(child)[i + 1])
        BY <1>4, <4>1 DEF bits
      <4> HIDE DEF v
      <4>3. Laid(u \o v, child, i + 1, P)
        BY <1>1, <3>2, <4>2, LaidNext DEF m
      <4>4. QED
        BY <4>3 DEF v
    <3>3. 0 \in Done
      <4>1. 1 \in 1 .. m
        BY <1>3, <2>2
      <4>2. f[1] \in Seq(X)
        BY <3>1, <4>1
      <4>3. <<>> \o seqs[1] = f[1] /\ <<>> \in Seq(X)
        BY <3>1, <4>2
      <4> DEFINE z == 0
      <4>4. z \in Nat /\ z + 1 = 1 /\ z + 1 <= m /\ Laid(<<>>, child, z, P)
        BY <1>3, <1>6, <2>2
      <4> HIDE DEF z
      <4>5. Laid(<<>> \o seqs[z + 1], child, z + 1, P)
        BY <3>2, <4>3, <4>4
      <4>6. QED
        BY <4>3, <4>4, <4>5 DEF z
    <3>4. ASSUME NEW i \in Nat, i \in Done PROVE i + 1 \in Done
      <4>1. SUFFICES ASSUME (i + 1) + 1 <= m PROVE Laid(f[(i + 1) + 1], child, (i + 1) + 1, P)
        OBVIOUS
      <4> DEFINE k == i + 1
      <4>2. k \in Nat /\ k \in 1 .. m /\ k + 1 \in 2 .. m /\ (k + 1) - 1 = k /\ k <= m /\ k + 1 <= m
        BY <1>3, <4>1
      <4>3. f[k] \in Seq(X) /\ f[k + 1] = f[k] \o seqs[k + 1]
        BY <3>1, <4>2
      <4>4. Laid(f[k], child, k, P)
        BY <3>4, <4>2
      <4> HIDE DEF k
      <4>5. Laid(f[k] \o seqs[k + 1], child, k + 1, P)
        BY <3>2, <4>2, <4>3, <4>4
      <4>6. QED
        BY <4>3, <4>5 DEF k
    <3> HIDE DEF Done
    <3>5. Nat \subseteq Done
      BY <3>3, <3>4, InductionOnSets
    <3>6. m - 1 \in Nat /\ (m - 1) + 1 = m
      BY <1>3, <2>2
    <3>7. Laid(f[m], child, m, P)
      BY <3>5, <3>6 DEF Done
    <3>8. m \in 1 .. m
      BY <1>3, <2>2
    <3>9. QED
      BY <3>1, <3>7, <3>8
  <2>3. QED
    BY <2>1, <2>2
<1> HIDE DEF copied
<1>8. body = copied
  <2>1. Len(copied) = n
    BY <1>6, <1>7 DEF Laid
  <2> HIDE DEF n
  <2>2. body = [i \in 1 .. n |-> copied[i]]
    BY <2>1
  <2>3. copied = [i \in 1 .. n |-> copied[i]]
    BY <1>6, <1>7, <2>1
  <2>4. QED
    BY <2>2, <2>3
<1> DEFINE made == Header(child) \o copied
<1>9. /\ IsKeyOf(made, child)
      /\ \A i \in 1 .. m : Slice(made, child, BitsInOrder(child)[i]) \in P[i]
  BY <1>1, <1>7, KeyLaid
<1>10. \A i \in 1 .. m : P[i] = {S(i)}
  BY DEF P
<1> HIDE DEF made
<1>11. ASSUME NEW b \in child PROVE Slice(made, child, b) = Slice(key, c, b)
  <2>1. PICK i \in 1 .. m : BitsInOrder(child)[i] = b
    BY <1>1, OrderFacts
  <2>2. QED
    BY <1>9, <1>10, <2>1 DEF S, bits
<1>12. BuildKey(Split(key), c, child) = made
  BY <1>2, <1>8 DEF made
<1> HIDE DEF body
<1>13. QED
  BY <1>1, <1>9, <1>11, <1>12

-----------------------------------------------------------------------------
(***************************************************************************)
(* The inductive invariant.  Records are combined two at a time, so their  *)
(* rows are counted once only as long as no row is in two records of the   *)
(* same cuboid, in the channel or still to be looked at, and no record     *)
(* pushed for a row's next level has it a second time.                     *)
(***************************************************************************)

\* A record of rows of t before n, which has their values.
IsRecordOf(t, n, p) ==
    /\ p = [key |-> p.key, measures |-> p.measures, rows |-> p.rows]
    /\ ParseCuboid(p.key) \in CuboidId
    /\ p.rows \subseteq ReadyRows(t) \cap 1 .. n - 1
    /\ PlainTypes /\ p.rows \subseteq PlainRows(t) =>
          \A i \in DOMAIN Measures : Sound(t, Measures[i], p.measures[i], p.rows)

\* No row is in two records of a cuboid.
Apart(records) ==
    \A p, q \in records :
        ParseCuboid(p.key) = ParseCuboid(q.key) /\ p.rows \cap q.rows # {} => p = q

\* No row has been pushed for a child of the record it is still looked at for.
NotTwice(pushed, left) ==
    \A p \in pushed, r \in left :
        ParseCuboid(p.key) \in Spanning[ParseCuboid(r.key)] => p.rows \cap r.rows = {}

RecordsInv ==
    /\ table \in Tables /\ next_row \in Nat \ {0}
    /\ pc = "base" => todo = {}
    /\ \A p \in parts \cup todo : IsRecordOf(table, next_row, p)
    /\ Apart(parts) /\ Apart(todo)
    /\ NotTwice(parts, todo)

\* A record stays one as more rows are read.
LEMMA RecordStays ==
    ASSUME NEW t, NEW n \in Nat, NEW p, IsRecordOf(t, n, p)
    PROVE  IsRecordOf(t, n + 1, p)
<1>1. 1 .. n - 1 \subseteq 1 .. (n + 1) - 1
  OBVIOUS
<1>2. QED
  BY <1>1 DEF IsRecordOf

\* At first nothing has been pushed.
LEMMA RecordsInit == Init => RecordsInv
BY DEF Init, RecordsInv, Apart, NotTwice

\* The row that is taken next.
LEMMA RowRead ==
    ASSUME next_row \in DOMAIN table
    PROVE  FlatRows[next_row] = ReadRow(table, next_row)
<1> DEFINE lines == [x \in DOMAIN table |-> PrintRow(table[x])]
<1>1. FlatRows = [i \in DOMAIN lines |-> Cut(lines[i])]
  BY DEF FlatRows, RawData
<1>2. next_row \in DOMAIN lines /\ lines[next_row] = PrintRow(table[next_row])
  OBVIOUS
<1> HIDE DEF lines
<1>3. QED
  BY <1>1, <1>2 DEF ReadRow

\* What is pushed for a child of a record's cuboid.
Child(record, child) == [record EXCEPT !.key = BuildKey(Split(record.key), ParseCuboid(record.key), child)]

LEMMA ChildFacts ==
    ASSUME RecordsInv, NEW record \in todo, NEW child \in Spanning[ParseCuboid(record.key)]
    PROVE  LET new == Child(record, child)
           IN  /\ child \in CuboidId /\ ParseCuboid(new.key) = child
               /\ new.key = BuildKey(Split(record.key), ParseCuboid(record.key), child)
               /\ new.measures = record.measures /\ new.rows = record.rows
               /\ new = [key |-> new.key, measures |-> record.measures, rows |-> record.rows]
<1> DEFINE key == BuildKey(Split(record.key), ParseCuboid(record.key), child)
<1>1. /\ record = [key |-> record.key, measures |-> record.measures, rows |-> record.rows]
      /\ ParseCuboid(record.key) \in CuboidId
  BY DEF RecordsInv, IsRecordOf
<1>2. child \in CuboidId
  BY <1>1, SpanningAssumption
<1>3. ParseCuboid(key) = child
  BY <1>2, ChildKeyFacts
<1>4. Child(record, child) = [record EXCEPT !.key = key]
  BY DEF Child
<1> HIDE DEF key
<1>5. Child(record, child) = [key |-> key, measures |-> record.measures, rows |-> record.rows]
  BY <1>1, <1>4
<1>6. QED
  BY <1>2, <1>3, <1>5 DEF key

\* The first level: a row is pushed.
LEMMA PushRowKeeps ==
    ASSUME RecordsInv, PushRow
    PROVE  RecordsInv'
<1> DEFINE row == FlatRows[next_row]
<1>1. /\ table' = table /\ table \in Tables /\ next_row \in Nat \ {0} /\ next_row' = next_row + 1
      /\ todo' = todo /\ todo = {} /\ pc = "base" /\ next_row <= Len(table)
  BY DEF RecordsInv, PushRow
<1>2. next_row \in DOMAIN table /\ next_row \in Nat
  BY <1>1, RowsAreFinite
<1>3. row = ReadRow(table, next_row)
  BY <1>2, RowRead
<1> HIDE DEF row
<1>4. \A p \in parts : IsRecordOf(table, next_row, p) /\ IsRecordOf(table, next_row + 1, p)
  BY <1>2, RecordStays DEF RecordsInv
<1>5. CASE Readable(row)
  <2>1. PICK key \in KeysOf(row) :
            parts' = parts \cup {[key |-> key, measures |-> StringValues(row), rows |-> {next_row}]}
    BY <1>5 DEF PushRow, row
  <2>2. pc' = pc
    BY <1>5 DEF PushRow, row
  <2> DEFINE new == [key |-> key, measures |-> StringValues(row), rows |-> {next_row}]
  <2>3. new.key = key /\ new.measures = StringValues(row) /\ new.rows = {next_row} /\ parts' = parts \cup {new}
        /\ new = [key |-> new.key, measures |-> new.measures, rows |-> new.rows]
    BY <2>1
  <2> HIDE DEF new
  <2>4. IsRecordOf(table, next_row + 1, new)
    <3>1. ParseCuboid(new.key) \in CuboidId
      BY <2>3, RowKeyFacts DEF CuboidId
    <3>2. next_row \in ReadyRows(table) /\ next_row \in 1 .. (next_row + 1) - 1
      BY <1>1, <1>2, <1>3, <1>5 DEF ReadyRows
    <3>3. ASSUME next_row \in PlainRows(table), NEW i \in DOMAIN Measures
          PROVE  Sound(table, Measures[i], new.measures[i], new.rows)
      <4>1. row = table[next_row]
        BY <1>1, <1>2, <1>3, <3>3, ReadRowFacts
      <4>2. Measures[i] \in Range(Measures)
        BY DEF Range
      <4>3. new.measures[i] = StringValue(Measures[i], table[next_row])
        BY <2>3, <4>1 DEF StringValues
      <4>4. next_row \in GoodRows(table)
        BY <3>2, <3>3 DEF GoodRows
      <4>5. Sound(table, Measures[i], StringValue(Measures[i], table[next_row]), {next_row})
        BY <1>1, <4>2, <4>4, PushedIsSound
      <4>6. QED
        BY <2>3, <4>3, <4>5
    <3>4. QED
      BY <2>3, <3>1, <3>2, <3>3 DEF IsRecordOf
  <2>5. \A p \in parts : p.rows \cap new.rows = {}
    <3>1. \A p \in parts : p.rows \subseteq 1 .. next_row - 1
      BY <1>4 DEF IsRecordOf
    <3>2. next_row \notin 1 .. next_row - 1
      BY <1>1
    <3>3. QED
      BY <2>3, <3>1, <3>2
  <2>6. Apart(parts')
    BY <2>3, <2>5 DEF RecordsInv, Apart
  <2>7. \A p \in parts' \cup todo' : IsRecordOf(table', next_row', p)
    BY <1>1, <1>4, <2>3, <2>4
  <2>8. Apart(todo') /\ NotTwice(parts', todo')
    BY <1>1 DEF Apart, NotTwice
  <2>9. QED
    BY <1>1, <2>6, <2>7, <2>8 DEF RecordsInv
<1>6. CASE ~Readable(row)
  <2>1. parts' = parts /\ pc' = "aborted"
    BY <1>6 DEF PushRow, row
  <2>2. \A p \in parts' \cup todo' : IsRecordOf(table', next_row', p)
    BY <1>1, <1>4, <2>1
  <2>3. QED
    BY <1>1, <2>1, <2>2 DEF RecordsInv
<1>7. QED
  BY <1>5, <1>6

\* The channel combines two records.
LEMMA CombineKeeps ==
    ASSUME RecordsInv, NEW val \in parts, NEW inc \in parts, Combine(val, inc)
    PROVE  RecordsInv'
<1>1. /\ table' = table /\ next_row' = next_row /\ todo' = todo /\ table \in Tables /\ next_row \in Nat \ {0}
      /\ val.key = inc.key /\ val # inc
  BY DEF RecordsInv, Combine
<1>2. \A p \in parts \cup todo : IsRecordOf(table, next_row, p)
  BY DEF RecordsInv
<1>3. CASE Aggregates(val.measures, inc.measures)
  <2>0. PICK measures \in Aggregate(val.measures, inc.measures) :
            parts' = (parts \ {val, inc}) \cup
                        {[key |-> val.key, measures |-> measures, rows |-> val.rows \cup inc.rows]}
    BY <1>3 DEF Combine
  <2> DEFINE new == [key |-> val.key, measures |-> measures, rows |-> val.rows \cup inc.rows]
  <2>1. /\ new.key = val.key /\ new.measures \in Aggregate(val.measures, inc.measures)
        /\ new.rows = val.rows \cup inc.rows /\ parts' = (parts \ {val, inc}) \cup {new}
        /\ new = [key |-> new.key, measures |-> new.measures, rows |-> new.rows]
    BY <2>0
  <2>2. pc' = pc
    BY <1>3 DEF Combine
  <2> HIDE DEF new
  <2>3. val.rows \cap inc.rows = {}
    BY <1>1 DEF RecordsInv, Apart
  <2>4. IsRecordOf(table, next_row, val) /\ IsRecordOf(table, next_row, inc)
    BY <1>2
  <2>5. IsRecordOf(table, next_row, new)
    <3>1. ParseCuboid(new.key) \in CuboidId /\ new.rows \subseteq ReadyRows(table) \cap 1 .. next_row - 1
      BY <2>1, <2>4 DEF IsRecordOf
    <3>2. ASSUME PlainTypes, new.rows \subseteq PlainRows(table), NEW i \in DOMAIN Measures
          PROVE  Sound(table, Measures[i], new.measures[i], new.rows)
      <4>1. val.rows \subseteq GoodRows(table) /\ inc.rows \subseteq GoodRows(table)
        BY <2>1, <3>1, <3>2 DEF GoodRows
      <4>2. /\ Sound(table, Measures[i], val.measures[i], val.rows)
            /\ Sound(table, Measures[i], inc.measures[i], inc.rows)
        BY <2>1, <2>4, <3>2 DEF IsRecordOf
      <4>3. new.measures[i] \in AggregateOne(NewAggregator(Measures[i]), val.measures[i], inc.measures[i])
        BY <2>1 DEF Aggregate, Aggregators
      <4>4. Measures[i] \in Range(Measures)
        BY DEF Range
      <4> DEFINE m == Measures[i]
                 a == val.measures[i]
                 b == inc.measures[i]
                 A == val.rows
                 B == inc.rows
                 v == new.measures[i]
      <4> HIDE DEF m, a, b, A, B, v
      <4>5. /\ m \in Range(Measures) /\ A \in SUBSET GoodRows(table) /\ B \in SUBSET GoodRows(table) /\ A \cap B = {}
            /\ Sound(table, m, a, A) /\ Sound(table, m, b, B) /\ v \in AggregateOne(NewAggregator(m), a, b)
        BY <2>3, <4>1, <4>2, <4>3, <4>4 DEF m, a, b, A, B, v
      <4>6. Sound(table, m, v, A \cup B)
        BY <1>1, <3>2, <4>5, CombinedIsSound
      <4>7. QED
        BY <2>1, <4>6 DEF m, A, B, v
    <3>3. QED
      BY <2>1, <3>1, <3>2 DEF IsRecordOf
  <2>6. Apart(parts')
    <3>1. ASSUME NEW p \in parts, p # val, p # inc, ParseCuboid(p.key) = ParseCuboid(new.key)
          PROVE  p.rows \cap new.rows = {}
      BY <1>1, <2>1, <3>1 DEF RecordsInv, Apart
    <3>2. ASSUME NEW p \in parts', NEW q \in parts',
                 ParseCuboid(p.key) = ParseCuboid(q.key), p.rows \cap q.rows # {}
          PROVE  p = q
      <4>1. CASE p = new /\ q # new
        BY <2>1, <3>1, <3>2, <4>1
      <4>2. CASE p # new /\ q = new
        BY <2>1, <3>1, <3>2, <4>2
      <4>3. CASE p # new /\ q # new
        BY <2>1, <3>2, <4>3 DEF RecordsInv, Apart
      <4>4. QED
        BY <4>1, <4>2, <4>3
    <3>3. QED
      BY <3>2 DEF Apart
  <2>7. NotTwice(parts', todo')
    <3>1. \A r \in todo : ParseCuboid(new.key) \in Spanning[ParseCuboid(r.key)] => new.rows \cap r.rows = {}
      BY <1>1, <2>1 DEF RecordsInv, NotTwice
    <3>2. QED
      BY <1>1, <2>1, <3>1 DEF RecordsInv, NotTwice
  <2>8. \A p \in parts' \cup todo' : IsRecordOf(table', next_row', p)
    BY <1>1, <1>2, <2>1, <2>5
  <2>9. QED
    BY <1>1, <2>2, <2>6, <2>7, <2>8 DEF RecordsInv
<1>4. CASE ~Aggregates(val.measures, inc.measures)
  <2>1. parts' = parts /\ pc' = "aborted"
    BY <1>4 DEF Combine
  <2>2. QED
    BY <1>1, <2>1 DEF RecordsInv
<1>5. QED
  BY <1>3, <1>4

\* The next level: a record is looked at.
LEMMA FlatmapKeeps ==
    ASSUME RecordsInv, NEW record \in todo, Flatmap(record)
    PROVE  RecordsInv'
<1> DEFINE parent == ParseCuboid(record.key)
           New(child) == Child(record, child)
<1>1. /\ table' = table /\ next_row' = next_row /\ todo' = todo \ {record} /\ pc = "nd" /\ pc' = pc
      /\ table \in Tables /\ next_row \in Nat \ {0}
  BY DEF RecordsInv, Flatmap
<1>2. \A p \in parts \cup todo : IsRecordOf(table, next_row, p)
  BY DEF RecordsInv
<1>3. Apart(todo')
  BY <1>1 DEF RecordsInv, Apart
<1>4. CASE Spanning[parent] = {}
  <2>1. parts' = parts
    BY <1>4 DEF Flatmap
  <2>2. NotTwice(parts', todo')
    BY <1>1, <2>1 DEF RecordsInv, NotTwice
  <2>3. \A p \in parts' \cup todo' : IsRecordOf(table', next_row', p)
    BY <1>1, <1>2, <2>1
  <2>4. QED
    BY <1>1, <1>3, <2>1, <2>2, <2>3 DEF RecordsInv
<1>5. CASE Spanning[parent] # {}
  <2>1. parts' = parts \cup {New(child) : child \in Spanning[parent]}
    BY <1>5 DEF Flatmap, Child
  <2>2. parent \in CuboidId /\ IsRecordOf(table, next_row, record)
    BY <1>2 DEF IsRecordOf
  <2>3. \A child \in Spanning[parent] : child \in CuboidId
    BY <2>2, SpanningAssumption
  <2>4. ASSUME NEW child \in Spanning[parent]
        PROVE  /\ ParseCuboid(New(child).key) = child
               /\ New(child).measures = record.measures /\ New(child).rows = record.rows
               /\ New(child) = [key |-> New(child).key, measures |-> record.measures, rows |-> record.rows]
    BY ChildFacts
  <2> HIDE DEF New, parent
  <2>5. \A child \in Spanning[parent] : IsRecordOf(table, next_row, New(child))
    BY <2>2, <2>3, <2>4 DEF IsRecordOf
  <2>6. \A child \in Spanning[parent], p \in parts :
            ParseCuboid(p.key) = child => p.rows \cap record.rows = {}
    BY DEF RecordsInv, NotTwice, parent
  <2>7. Apart(parts')
    <3>1. ASSUME NEW p \in parts', NEW q \in parts',
                 ParseCuboid(p.key) = ParseCuboid(q.key), p.rows \cap q.rows # {}
          PROVE  p = q
      <4>1. CASE p \in parts /\ q \in parts
        BY <3>1, <4>1 DEF RecordsInv, Apart
      <4>2. CASE p \in parts /\ q \notin parts
        <5>1. PICK child \in Spanning[parent] : q = New(child)
          BY <2>1, <4>2
        <5>2. QED
          BY <2>4, <2>6, <3>1, <4>2, <5>1
      <4>3. CASE p \notin parts /\ q \in parts
        <5>1. PICK child \in Spanning[parent] : p = New(child)
          BY <2>1, <4>3
        <5>2. QED
          BY <2>4, <2>6, <3>1, <4>3, <5>1
      <4>4. CASE p \notin parts /\ q \notin parts
        <5>1. PICK c \in Spanning[parent] : p = New(c)
          BY <2>1, <4>4
        <5>2. PICK d \in Spanning[parent] : q = New(d)
          BY <2>1, <4>4
        <5>3. c = d
          BY <2>4, <3>1, <5>1, <5>2
        <5>4. QED
          BY <5>1, <5>2, <5>3
      <4>5. QED
        BY <4>1, <4>2, <4>3, <4>4
    <3>2. QED
      BY <3>1 DEF Apart
  <2>8. NotTwice(parts', todo')
    <3>1. ASSUME NEW p \in parts', NEW r \in todo', ParseCuboid(p.key) \in Spanning[ParseCuboid(r.key)]
          PROVE  p.rows \cap r.rows = {}
      <4>1. r \in todo /\ r # record /\ ParseCuboid(r.key) \in CuboidId
        BY <1>1, <1>2 DEF IsRecordOf
      <4>2. CASE p \in parts
        BY <3>1, <4>1, <4>2 DEF RecordsInv, NotTwice
      <4>3. CASE p \notin parts
        <5>1. PICK child \in Spanning[parent] : p = New(child)
          BY <2>1, <4>3
        <5>2. child \in Spanning[ParseCuboid(r.key)] /\ p.rows = record.rows
          BY <2>4, <3>1, <5>1
        <5>3. ParseCuboid(r.key) = parent
          BY <2>2, <4>1, <5>1, <5>2, SpanningAssumption
        <5>4. r.rows \cap record.rows = {}
          BY <4>1, <5>3 DEF RecordsInv, Apart, parent
        <5>5. QED
          BY <5>2, <5>4
      <4>4. QED
        BY <4>2, <4>3
    <3>2. QED
      BY <3>1 DEF NotTwice
  <2>9. \A p \in parts' \cup todo' : IsRecordOf(table', next_row', p)
    <3>1. \A p \in parts' : p \in parts \/ \E child \in Spanning[parent] : p = New(child)
      BY <2>1
    <3>2. QED
      BY <1>1, <1>2, <2>5, <3>1
  <2>10. QED
    BY <1>1, <1>3, <2>7, <2>8, <2>9 DEF RecordsInv
<1>6. QED
  BY <1>4, <1>5

\* The invariant is kept by every step.
LEMMA RecordsStep ==
    ASSUME RecordsInv, [Next]_vars
    PROVE  RecordsInv'
<1>1. CASE PushRow
  BY <1>1, PushRowKeeps
<1>2. ASSUME NEW val \in parts, NEW inc \in parts, Combine(val, inc) PROVE RecordsInv'
  BY <1>2, CombineKeeps
<1>3. ASSUME NEW record \in todo, Flatmap(record) PROVE RecordsInv'
  BY <1>3, FlatmapKeeps
<1>4. CASE EndLevel
  <2>1. CASE level = TotalLevels
    BY <1>4, <2>1 DEF EndLevel, RecordsInv
  <2>2. CASE level # TotalLevels
    <3>1. /\ table' = table /\ next_row' = next_row /\ pc' = "nd" /\ todo' = parts /\ parts' = {}
      BY <1>4, <2>2 DEF EndLevel
    <3>2. Apart(parts') /\ Apart(todo') /\ NotTwice(parts', todo')
      BY <3>1 DEF RecordsInv, Apart, NotTwice
    <3>3. QED
      BY <3>1, <3>2 DEF RecordsInv
  <2>3. QED
    BY <2>1, <2>2
<1>5. CASE UNCHANGED vars
  BY <1>5 DEF RecordsInv, vars
<1>6. QED
  BY <1>1, <1>2, <1>3, <1>4, <1>5 DEF Next, Terminated

-----------------------------------------------------------------------------
(***************************************************************************)
(* What the keys mean.  Nothing says which columns a record's bytes are of *)
(* but their place, and nothing is known of a row that was combined but    *)
(* that its key was the same: so each record's key has the bytes of each   *)
(* of its rows, as the reader made it, and the splitter and the builder    *)
(* move the bytes of a column from the parent's place to the child's.      *)
(***************************************************************************)

\* A record's key has the bytes of its rows' values in its columns' places.
HasKey(t, p) ==
    LET c == ParseCuboid(p.key)
    IN  /\ IsKeyOf(p.key, c)
        /\ \A x \in p.rows, b \in c : Slice(p.key, c, b) \in Encode(ColumnEncoding(b), ReadRow(t, x)[FlatColumn(b)])

KeysInv ==
    /\ DOMAIN split_buffers = 1 .. Len(RowKeyColumns) + 2
    /\ \A p \in parts \cup todo : HasKey(table, p)

LEMMA KeysInit == Init => KeysInv
BY DEF Init, KeysInv

\* A row is pushed with its own bytes.
LEMMA PushRowKeepsKeys ==
    ASSUME RecordsInv, KeysInv, PushRow
    PROVE  KeysInv'
<1> DEFINE row == FlatRows[next_row]
<1>1. table' = table /\ todo' = todo /\ split_buffers' = split_buffers /\ table \in Tables /\ next_row \in DOMAIN table
  BY RowsAreFinite DEF RecordsInv, PushRow
<1>2. row = ReadRow(table, next_row)
  BY <1>1, RowRead
<1> HIDE DEF row
<1>3. CASE Readable(row)
  <2>1. PICK key \in KeysOf(row) :
            parts' = parts \cup {[key |-> key, measures |-> StringValues(row), rows |-> {next_row}]}
    BY <1>3 DEF PushRow, row
  <2> DEFINE new == [key |-> key, measures |-> StringValues(row), rows |-> {next_row}]
  <2>2. new.key = key /\ new.rows = {next_row} /\ parts' = parts \cup {new}
    BY <2>1
  <2> HIDE DEF new
  <2>3. HasKey(table, new)
    <3>1. /\ IsKeyOf(key, Bit) /\ ParseCuboid(key) = Bit
          /\ \A b \in Bit : Slice(key, Bit, b) \in Encode(ColumnEncoding(b), row[FlatColumn(b)])
      BY RowKeyFacts
    <3>2. QED
      BY <1>2, <2>2, <3>1 DEF HasKey
  <2>4. QED
    BY <1>1, <2>2, <2>3 DEF KeysInv
<1>4. CASE ~Readable(row)
  <2>1. parts' = parts
    BY <1>4 DEF PushRow, row
  <2>2. QED
    BY <1>1, <2>1 DEF KeysInv
<1>5. QED
  BY <1>3, <1>4

\* Two records are combined only when their keys are the same.
LEMMA CombineKeepsKeys ==
    ASSUME KeysInv, NEW val \in parts, NEW inc \in parts, Combine(val, inc)
    PROVE  KeysInv'
<1>1. table' = table /\ todo' = todo /\ split_buffers' = split_buffers /\ val.key = inc.key
  BY DEF Combine
<1>2. CASE Aggregates(val.measures, inc.measures)
  <2>0. PICK measures \in Aggregate(val.measures, inc.measures) :
            parts' = (parts \ {val, inc}) \cup
                        {[key |-> val.key, measures |-> measures, rows |-> val.rows \cup inc.rows]}
    BY <1>2 DEF Combine
  <2> DEFINE new == [key |-> val.key, measures |-> measures, rows |-> val.rows \cup inc.rows]
  <2>1. new.key = val.key /\ new.rows = val.rows \cup inc.rows /\ parts' = (parts \ {val, inc}) \cup {new}
    BY <2>0
  <2> HIDE DEF new
  <2>2. HasKey(table, val) /\ HasKey(table, inc)
    BY DEF KeysInv
  <2>3. HasKey(table, new)
    BY <1>1, <2>1, <2>2 DEF HasKey
  <2>4. QED
    BY <1>1, <2>1, <2>3 DEF KeysInv
<1>3. CASE ~Aggregates(val.measures, inc.measures)
  <2>1. parts' = parts
    BY <1>3 DEF Combine
  <2>2. QED
    BY <1>1, <2>1 DEF KeysInv
<1>4. QED
  BY <1>2, <1>3

\* A child's record is pushed with the bytes of its columns.
LEMMA FlatmapKeepsKeys ==
    ASSUME KeysKeepColumns, RecordsInv, KeysInv, NEW record \in todo, Flatmap(record)
    PROVE  KeysInv'
<1> DEFINE parent == ParseCuboid(record.key)
<1>1. table' = table /\ todo' = todo \ {record}
  BY DEF Flatmap
<1>2. CASE Spanning[parent] = {}
  <2>1. parts' = parts /\ split_buffers' = split_buffers
    BY <1>2 DEF Flatmap
  <2>2. QED
    BY <1>1, <2>1 DEF KeysInv
<1>3. CASE Spanning[parent] # {}
  <2>1. /\ parts' = parts \cup {Child(record, child) : child \in Spanning[parent]}
        /\ split_buffers' = Split(record.key)
    BY <1>3 DEF Flatmap, Child
  <2>2. parent \in CuboidId /\ IsKeyOf(record.key, parent) /\ DOMAIN split_buffers = 1 .. Len(RowKeyColumns) + 2
    BY DEF RecordsInv, IsRecordOf, KeysInv, HasKey
  <2>3. DOMAIN split_buffers' = DOMAIN split_buffers
    BY <2>1, <2>2, SplitFacts
  <2>4. ASSUME NEW child \in Spanning[parent] PROVE HasKey(table, Child(record, child))
    <3> DEFINE new == Child(record, child)
               made == BuildKey(Split(record.key), parent, child)
    <3>1. new.key = made /\ ParseCuboid(made) = child /\ new.rows = record.rows
      BY ChildFacts
    <3>2. /\ IsKeyOf(made, child) /\ child \subseteq parent
          /\ \A b \in child : Slice(made, child, b) = Slice(record.key, parent, b)
      BY <2>2, ChildKeyKeeps
    <3>3. \A x \in record.rows, b \in parent :
              Slice(record.key, parent, b) \in Encode(ColumnEncoding(b), ReadRow(table, x)[FlatColumn(b)])
      BY DEF KeysInv, HasKey
    <3> HIDE DEF new, made, parent
    <3>4. HasKey(table, new)
      BY <3>1, <3>2, <3>3 DEF HasKey
    <3>5. QED
      BY <3>4 DEF new
  <2> HIDE DEF parent
  <2>5. ASSUME NEW p \in parts' \cup todo' PROVE HasKey(table, p)
    BY <1>1, <2>1, <2>4 DEF KeysInv
  <2>6. QED
    BY <1>1, <2>2, <2>3, <2>5 DEF KeysInv
<1>4. QED
  BY <1>2, <1>3

\* The keys' invariant is kept by every step.
LEMMA KeysStep ==
    ASSUME KeysKeepColumns, RecordsInv, KeysInv, [Next]_vars
    PROVE  KeysInv'
<1>1. CASE PushRow
  BY <1>1, PushRowKeepsKeys
<1>2. ASSUME NEW val \in parts, NEW inc \in parts, Combine(val, inc) PROVE KeysInv'
  BY <1>2, CombineKeepsKeys
<1>3. ASSUME NEW record \in todo, Flatmap(record) PROVE KeysInv'
  BY <1>3, FlatmapKeepsKeys
<1>4. CASE EndLevel
  <2>1. CASE level = TotalLevels
    BY <1>4, <2>1 DEF EndLevel, KeysInv
  <2>2. CASE level # TotalLevels
    BY <1>4, <2>2 DEF EndLevel, KeysInv
  <2>3. QED
    BY <2>1, <2>2
<1>5. CASE UNCHANGED vars
  BY <1>5 DEF KeysInv, vars
<1>6. QED
  BY <1>1, <1>2, <1>3, <1>4, <1>5 DEF Next, Terminated

-----------------------------------------------------------------------------
(***************************************************************************)
(* Where the rows are.  Of a level's cuboids, each row has been pushed for *)
(* some and still is in the records of others' parents; so when nothing    *)
(* is left to do it has been pushed for all of them.                       *)
(***************************************************************************)

\* The cuboids of the levels, as they are computed.
LEMMA CuboidsOfFacts ==
    /\ CuboidsOf[0] = {Bit}
    /\ \A n \in Nat : CuboidsOf[n + 1] = UNION {Spanning[c] : c \in CuboidsOf[n]}
<1> DEFINE Level(h, i) == IF i = 0 THEN {Bit} ELSE UNION {Spanning[c] : c \in h[i - 1]}
           AreLevels(h) == h = [i \in Nat |-> Level(h, i)]
           V == SUBSET CuboidId
           step == [i \in Nat |-> [s \in V |-> UNION {Spanning[c] : c \in s}]]
<1>1. CuboidsOf = CHOOSE h : AreLevels(h)
  BY DEF CuboidsOf, base_cuboid_id
<1>2. step \in [Nat -> [V -> V]] /\ {Bit} \in V
  <2>1. \A s \in V : UNION {Spanning[c] : c \in s} \in V
    BY SpanningAssumption
  <2>2. {Bit} \in V
    BY DEF CuboidId
  <2> HIDE DEF V
  <2>3. QED
    BY <2>1, <2>2
<1>3. PICK g : ComputesAll(g, V, {Bit}, step)
  <2> DEFINE z == {Bit}
  <2> HIDE DEF step, V, z
  <2>1. z \in V
    BY <1>2 DEF z
  <2>2. \E g : ComputesAll(g, V, z, step)
    BY <1>2, <2>1, RecursionOnNat
  <2>3. QED
    BY <2>2 DEF z
<1> HIDE DEF V
<1>4. g \in [Nat -> V] /\ g[0] = {Bit} /\ \A n \in Nat : g[n + 1] = UNION {Spanning[c] : c \in g[n]}
  <2>1. g \in [Nat -> V] /\ g[0] = {Bit} /\ \A n \in Nat : g[n + 1] = step[n + 1][g[n]]
    BY <1>3 DEF ComputesAll
  <2>2. \A n \in Nat : g[n] \in V /\ n + 1 \in Nat
    BY <2>1
  <2>3. QED
    BY <2>1, <2>2
<1>5. AreLevels(g)
  <2>1. ASSUME NEW n \in Nat PROVE g[n] = Level(g, n)
    <3>1. CASE n = 0
      BY <1>4, <3>1
    <3>2. CASE n # 0
      <4> DEFINE m == n - 1
      <4>1. m \in Nat /\ m + 1 = n
        BY <3>2
      <4>2. g[m + 1] = UNION {Spanning[c] : c \in g[m]}
        <5> HIDE DEF m
        <5>1. QED
          BY <1>4, <4>1
      <4>3. QED
        BY <3>2, <4>1, <4>2
    <3>3. QED
      BY <3>1, <3>2
  <2> HIDE DEF Level
  <2>2. QED
    BY <1>4, <2>1
<1>6. AreLevels(CuboidsOf)
  <2> HIDE DEF AreLevels
  <2>1. QED
    BY <1>1, <1>5
<1>7. \A n \in Nat : CuboidsOf[n] = Level(CuboidsOf, n)
  <2> HIDE DEF Level
  <2>1. QED
    BY <1>6
<1>8. ASSUME NEW n \in Nat PROVE CuboidsOf[n + 1] = UNION {Spanning[c] : c \in CuboidsOf[n]}
  <2> DEFINE m == n + 1
  <2>1. m \in Nat /\ m # 0 /\ m - 1 = n
    OBVIOUS
  <2> HIDE DEF m
  <2>2. CuboidsOf[m] = UNION {Spanning[c] : c \in CuboidsOf[n]}
    BY <1>7, <2>1
  <2>3. QED
    BY <2>2 DEF m
<1>9. QED
  BY <1>7, <1>8

\* Row x is in a record of c.
HasRow(records, c, x) == \E p \in records : ParseCuboid(p.key) = c /\ x \in p.rows

PlacesInv ==
    /\ level \in Nat
    /\ pc = "base" => level = 0 /\ \A x \in 1 .. next_row - 1 : HasRow(parts, Bit, x)
    /\ pc = "nd" =>
          /\ next_row > Len(table)
          /\ \A c \in CuboidsOf[level], x \in 1 .. Len(table) :
                HasRow(parts, c, x) \/ \E r \in todo : c \in Spanning[ParseCuboid(r.key)] /\ x \in r.rows

LEMMA PlacesInit == Init => PlacesInv
BY DEF Init, PlacesInv

\* A row that is pushed is in a record of the base cuboid, unless that ends the
\* process.
LEMMA PushRowKeepsPlaces ==
    ASSUME RecordsInv, PlacesInv, PushRow
    PROVE  PlacesInv'
<1> DEFINE row == FlatRows[next_row]
<1>1. /\ pc = "base" /\ table' = table /\ level' = level /\ next_row' = next_row + 1 /\ next_row \in Nat \ {0}
      /\ level \in Nat /\ level = 0 /\ \A x \in 1 .. next_row - 1 : HasRow(parts, Bit, x)
  BY DEF PushRow, PlacesInv, RecordsInv
<1>2. CASE Readable(row)
  <2>1. pc' = pc
    BY <1>2 DEF PushRow
  <2>2. PICK key \in KeysOf(row) :
            parts' = parts \cup {[key |-> key, measures |-> StringValues(row), rows |-> {next_row}]}
    BY <1>2 DEF PushRow
  <2> DEFINE new == [key |-> key, measures |-> StringValues(row), rows |-> {next_row}]
  <2>3. new.key = key /\ new.rows = {next_row} /\ parts' = parts \cup {new}
    BY <2>2
  <2> HIDE DEF new, row
  <2>4. ParseCuboid(new.key) = Bit
    BY <2>3, RowKeyFacts
  <2>5. ASSUME NEW x \in 1 .. next_row' - 1 PROVE HasRow(parts', Bit, x)
    <3>1. x \in 1 .. next_row - 1 \/ x = next_row
      BY <1>1
    <3>2. QED
      BY <1>1, <2>3, <2>4, <3>1 DEF HasRow
  <2>6. QED
    BY <1>1, <2>1, <2>5 DEF PlacesInv
<1>3. CASE ~Readable(row)
  <2>1. pc' = "aborted"
    BY <1>3 DEF PushRow
  <2>2. QED
    BY <1>1, <2>1 DEF PlacesInv
<1>4. QED
  BY <1>2, <1>3

\* What is combined has all the rows.
LEMMA CombineKeepsPlaces ==
    ASSUME PlacesInv, NEW val \in parts, NEW inc \in parts, Combine(val, inc)
    PROVE  PlacesInv'
<1>1. /\ table' = table /\ todo' = todo /\ next_row' = next_row /\ level' = level /\ val.key = inc.key
      /\ level \in Nat
  BY DEF Combine, PlacesInv
<1>2. CASE Aggregates(val.measures, inc.measures)
  <2>0. PICK measures \in Aggregate(val.measures, inc.measures) :
            parts' = (parts \ {val, inc}) \cup
                        {[key |-> val.key, measures |-> measures, rows |-> val.rows \cup inc.rows]}
    BY <1>2 DEF Combine
  <2> DEFINE new == [key |-> val.key, measures |-> measures, rows |-> val.rows \cup inc.rows]
  <2>1. new.key = val.key /\ new.rows = val.rows \cup inc.rows /\ parts' = (parts \ {val, inc}) \cup {new}
    BY <2>0
  <2>2. pc' = pc
    BY <1>2 DEF Combine
  <2> HIDE DEF new
  <2>3. ASSUME NEW c, NEW x, HasRow(parts, c, x) PROVE HasRow(parts', c, x)
    <3>1. PICK p \in parts : ParseCuboid(p.key) = c /\ x \in p.rows
      BY <2>3 DEF HasRow
    <3>2. CASE p = val \/ p = inc
      BY <1>1, <2>1, <3>1, <3>2 DEF HasRow
    <3>3. CASE p # val /\ p # inc
      BY <2>1, <3>1, <3>3 DEF HasRow
    <3>4. QED
      BY <3>2, <3>3
  <2>4. QED
    BY <1>1, <2>2, <2>3 DEF PlacesInv
<1>3. CASE ~Aggregates(val.measures, inc.measures)
  <2>1. parts' = parts /\ pc' = "aborted"
    BY <1>3 DEF Combine
  <2>2. QED
    BY <1>1, <2>1 DEF PlacesInv
<1>4. QED
  BY <1>2, <1>3

\* A record that is looked at leaves its rows in a record of every child.
LEMMA FlatmapKeepsPlaces ==
    ASSUME RecordsInv, PlacesInv, NEW record \in todo, Flatmap(record)
    PROVE  PlacesInv'
<1> DEFINE parent == ParseCuboid(record.key)
<1>1. /\ table' = table /\ todo' = todo \ {record} /\ pc = "nd" /\ pc' = pc /\ next_row' = next_row /\ level' = level
      /\ level \in Nat /\ next_row > Len(table)
  BY DEF Flatmap, PlacesInv
<1>2. /\ \A p \in parts : p \in parts'
      /\ \A child \in Spanning[parent] : Child(record, child) \in parts'
  <2>1. CASE Spanning[parent] = {}
    BY <2>1 DEF Flatmap
  <2>2. CASE Spanning[parent] # {}
    BY <2>2 DEF Flatmap, Child
  <2>3. QED
    BY <2>1, <2>2
<1>3. ASSUME NEW c, NEW x, HasRow(parts, c, x) PROVE HasRow(parts', c, x)
  BY <1>2, <1>3 DEF HasRow
<1>4. ASSUME NEW c \in CuboidsOf[level], NEW x \in 1 .. Len(table)
      PROVE  HasRow(parts', c, x) \/ \E r \in todo' : c \in Spanning[ParseCuboid(r.key)] /\ x \in r.rows
  <2>1. CASE HasRow(parts, c, x)
    BY <1>3, <2>1
  <2>2. CASE c \in Spanning[parent] /\ x \in record.rows
    <3>1. Child(record, c) \in parts' /\ ParseCuboid(Child(record, c).key) = c /\ x \in Child(record, c).rows
      BY <1>2, <2>2, ChildFacts
    <3>2. QED
      BY <3>1 DEF HasRow
  <2>3. CASE \E r \in todo : r # record /\ c \in Spanning[ParseCuboid(r.key)] /\ x \in r.rows
    BY <1>1, <2>3
  <2>4. QED
    BY <1>1, <2>1, <2>2, <2>3 DEF PlacesInv
<1>5. QED
  BY <1>1, <1>4 DEF PlacesInv

\* When a level is built, every row is in a record of each of its cuboids.
LEMMA BuiltHasRows ==
    ASSUME PlacesInv, RecordsInv, LevelBuilt
    PROVE  \A c \in CuboidsOf[level], x \in 1 .. Len(table) : HasRow(parts, c, x)
<1>1. CASE pc = "base" /\ next_row > Len(table)
  <2>1. Len(table) \in Nat /\ next_row \in Nat
    BY RowsAreFinite, TableAssumption DEF RecordsInv
  <2>2. 1 .. Len(table) \subseteq 1 .. next_row - 1
    BY <1>1, <2>1
  <2>3. CuboidsOf[level] = {Bit}
    BY <1>1, CuboidsOfFacts DEF PlacesInv
  <2>4. QED
    BY <1>1, <2>2, <2>3 DEF PlacesInv
<1>2. CASE pc = "nd" /\ todo = {}
  BY <1>2 DEF PlacesInv
<1>3. QED
  BY <1>1, <1>2 DEF LevelBuilt

\* The rows' invariant is kept by every step.
LEMMA PlacesStep ==
    ASSUME RecordsInv, PlacesInv, [Next]_vars
    PROVE  PlacesInv'
<1>1. CASE PushRow
  BY <1>1, PushRowKeepsPlaces
<1>2. ASSUME NEW val \in parts, NEW inc \in parts, Combine(val, inc) PROVE PlacesInv'
  BY <1>2, CombineKeepsPlaces
<1>3. ASSUME NEW record \in todo, Flatmap(record) PROVE PlacesInv'
  BY <1>3, FlatmapKeepsPlaces
<1>4. CASE EndLevel
  <2>1. CASE level = TotalLevels
    BY <1>4, <2>1 DEF EndLevel, PlacesInv
  <2>2. CASE level # TotalLevels
    <3>1. /\ table' = table /\ next_row' = next_row /\ pc' = "nd" /\ level' = level + 1 /\ todo' = parts
          /\ LevelBuilt /\ level \in Nat
      BY <1>4, <2>2 DEF EndLevel, PlacesInv
    <3>2. next_row > Len(table)
      BY <3>1 DEF LevelBuilt, PlacesInv
    <3>3. ASSUME NEW c \in CuboidsOf[level'], NEW x \in 1 .. Len(table)
          PROVE  \E r \in todo' : c \in Spanning[ParseCuboid(r.key)] /\ x \in r.rows
      <4>1. CuboidsOf[level'] = UNION {Spanning[d] : d \in CuboidsOf[level]}
        BY <3>1, CuboidsOfFacts
      <4>2. PICK d \in CuboidsOf[level] : c \in Spanning[d]
        BY <4>1
      <4>3. HasRow(parts, d, x)
        BY <3>1, <4>2, BuiltHasRows
      <4>4. QED
        BY <3>1, <4>2, <4>3 DEF HasRow
    <3>4. QED
      BY <3>1, <3>2, <3>3 DEF PlacesInv
  <2>3. QED
    BY <2>1, <2>2
<1>5. CASE UNCHANGED vars
  BY <1>5 DEF PlacesInv, vars
<1>6. QED
  BY <1>1, <1>2, <1>3, <1>4, <1>5 DEF Next, Terminated

-----------------------------------------------------------------------------
(***************************************************************************)
(* The properties.                                                         *)
(***************************************************************************)

\* The total over a record's rows, as a sum.
LEMMA TotalIsSum ==
    ASSUME table \in Tables, NEW m \in Range(Measures), m.expression = "SUM",
           NEW rows \in SUBSET GoodRows(table)
    PROVE  Total(m, rows) = Sum(Inputs(table, m), rows)
<1> DEFINE w == Inputs(table, m)
           IsTotal(h) == h = [s \in SUBSET rows |-> IF s = {} THEN 0
                                                   ELSE Input(m, Chosen(s)) + h[s \ {Chosen(s)}]]
           total == CHOOSE h : IsTotal(h)
<1>1. Total(m, rows) = total[rows]
  BY DEF Total, MapThenSumSet, MapThenFoldSet, Chosen
<1>2. \A s \in SUBSET rows : s # {} => w[Chosen(s)] = Input(m, Chosen(s))
  BY DEF Chosen, Inputs, InputIn, Input
<1>3. w \in [GoodRows(table) -> Int] /\ IsFiniteSet(GoodRows(table))
  BY RowsAreFinite
<1> HIDE DEF w
<1>4. ASSUME NEW h PROVE IsTotal(h) <=> IsSum(h, rows, w)
  <2>1. [s \in SUBSET rows |-> IF s = {} THEN 0 ELSE Input(m, Chosen(s)) + h[s \ {Chosen(s)}]]
          = [s \in SUBSET rows |-> IF s = {} THEN 0 ELSE w[Chosen(s)] + h[s \ {Chosen(s)}]]
    BY <1>2
  <2>2. QED
    BY <2>1 DEF IsSum
<1> HIDE DEF IsTotal
<1>5. \E h : IsTotal(h)
  BY <1>3, <1>4, SumFacts
<1>6. IsSum(total, rows, w)
  <2>1. IsTotal(total)
    BY <1>5
  <2>2. QED
    BY <1>4, <2>1
<1> HIDE DEF total
<1>7. total[rows] = Sum(w, rows)
  BY <1>3, <1>6, SumFacts
<1>8. QED
  BY <1>1, <1>7 DEF w

\* What the invariant says of a record whose rows are all numbers.
LEMMA RecordIsSound ==
    ASSUME PlainTypes, RecordsInv, NEW p \in parts \cup todo, p.rows \subseteq Proper, NEW i \in DOMAIN Measures
    PROVE  /\ Sound(table, Measures[i], p.measures[i], p.rows)
           /\ Measures[i].expression = "SUM" =>
                 Total(Measures[i], p.rows) = Sum(Inputs(table, Measures[i]), p.rows)
           /\ \A x \in p.rows : StringValues(table[x])[i] = StringValue(Measures[i], table[x])
<1>1. Proper = PlainRows(table) /\ table \in Tables /\ IsRecordOf(table, next_row, p)
  BY DEF RecordsInv, Proper, PlainRows
<1>2. p.rows \in SUBSET GoodRows(table)
  BY <1>1 DEF IsRecordOf, GoodRows
<1>3. Measures[i] \in Range(Measures)
  BY DEF Range
<1>4. Sound(table, Measures[i], p.measures[i], p.rows)
  BY <1>1 DEF IsRecordOf
<1>5. Measures[i].expression = "SUM" =>
          Total(Measures[i], p.rows) = Sum(Inputs(table, Measures[i]), p.rows)
  BY <1>1, <1>2, <1>3, TotalIsSum
<1>6. \A x \in p.rows : StringValues(table[x])[i] = StringValue(Measures[i], table[x])
  BY DEF StringValues
<1>7. QED
  BY <1>4, <1>5, <1>6

\* However the records are combined, a row is counted and added up once: the
\* count of every record is the number of its rows and a sum of integers their
\* sum, as far as a long long holds it (build_base_cuboid, build_nd_cuboid,
\* CuboidStringCombiner and LongSumAggregator).
THEOREM RowsCountOnce == PlainTypes /\ Spec => []CountsAndSums
<1> SUFFICES ASSUME PlainTypes PROVE Spec => []CountsAndSums
  OBVIOUS
<1>1. RecordsInv => CountsAndSums
  <2> SUFFICES ASSUME RecordsInv, NEW p \in parts \cup todo, p.rows \subseteq Proper,
                      NEW i \in DOMAIN Measures, Measures[i].return_type[1] \in IntegerFamily
               PROVE  /\ Measures[i].expression = "COUNT" =>
                            p.measures[i][1] = Signed(Cardinality(p.rows), LongLength)
                      /\ Measures[i].expression = "SUM" =>
                            p.measures[i][1] = Signed(Total(Measures[i], p.rows), LongLength)
    BY DEF CountsAndSums
  <2>1. QED
    BY RecordIsSound DEF Sound
<1>2. QED
  BY <1>1, RecordsInit, RecordsStep, PTL DEF Spec

\* While doubles are exact for the numbers, a sum of decimals is off by no more
\* than half of the sixth digit for each time two of its strings were added
\* (DoubleSumAggregator and BigDecimalSumAggregator).
THEOREM DecimalsStayClose == PlainTypes /\ Spec => []SumsWithinRounding
<1> SUFFICES ASSUME PlainTypes PROVE Spec => []SumsWithinRounding
  OBVIOUS
<1>1. RecordsInv => SumsWithinRounding
  <2> SUFFICES ASSUME RecordsInv, NEW p \in parts \cup todo, p.rows \subseteq Proper,
                      NEW i \in DOMAIN Measures, Measures[i].expression = "SUM",
                      Measures[i].return_type[1] \in NumberFamily \ IntegerFamily
               PROVE  SmallForDoubles(Measures[i], p.rows) =>
                          p.measures[i][1] - Total(Measures[i], p.rows) \in
                          -((Cardinality(p.rows) - 1) * (Precision \div 2)) ..
                              (Cardinality(p.rows) - 1) * (Precision \div 2)
    BY DEF SumsWithinRounding
  <2>1. ASSUME SmallForDoubles(Measures[i], p.rows)
        PROVE  p.measures[i][1] - Total(Measures[i], p.rows) \in
                   -((Cardinality(p.rows) - 1) * (Precision \div 2)) ..
                       (Cardinality(p.rows) - 1) * (Precision \div 2)
    <3> DEFINE w == Inputs(table, Measures[i])
    <3>1. PICK x \in p.rows :
              /\ \A y \in p.rows : Magnitude(Input(Measures[i], y)) <= Magnitude(Input(Measures[i], x))
              /\ Cardinality(p.rows) * (Magnitude(Input(Measures[i], x)) + Precision \div 2) < ExactBelow
      BY <2>1 DEF SmallForDoubles
    <3>2. p.rows \subseteq GoodRows(table) /\ table \in Tables
      BY DEF RecordsInv, IsRecordOf, GoodRows, Proper, PlainRows
    <3>3. \A y \in p.rows : w[y] = Input(Measures[i], y) /\ w[y] \in Int
      <4>1. w \in [GoodRows(table) -> Int]
        BY <3>2, RowsAreFinite DEF Range
      <4>2. \A y \in GoodRows(table) : w[y] = Input(Measures[i], y)
        BY DEF Inputs, InputIn, Input
      <4> HIDE DEF w
      <4>3. QED
        BY <3>2, <4>1, <4>2
    <3> DEFINE large == Magnitude(Input(Measures[i], x))
    <3>4. large \in Nat
      BY <3>3 DEF Magnitude
    <3>5. \A y \in p.rows : Magnitude(w[y]) <= large
      BY <3>1, <3>3
    <3>6. Close(p.measures[i][1], Sum(w, p.rows), w, p.rows, large)
      <4>1. Sound(table, Measures[i], p.measures[i], p.rows)
        BY RecordIsSound
      <4>2. QED
        BY <3>4, <4>1 DEF Sound
    <3>7. Total(Measures[i], p.rows) = Sum(w, p.rows)
      BY RecordIsSound
    <3> HIDE DEF w
    <3>8. QED
      BY <3>1, <3>5, <3>6, <3>7 DEF Close
  <2>2. QED
    BY <2>1
<1>2. QED
  BY <1>1, RecordsInit, RecordsStep, PTL DEF Spec

\* What a record has for a maximum is the string of one of its own rows, as the
\* base class aggregates nothing (BasicMeasureType::new_aggregator).
THEOREM MaximumIsARows == PlainTypes /\ Spec => []MaxIsOfARow
<1> SUFFICES ASSUME PlainTypes PROVE Spec => []MaxIsOfARow
  OBVIOUS
<1>1. RecordsInv => MaxIsOfARow
  <2> SUFFICES ASSUME RecordsInv, NEW p \in parts \cup todo, p.rows \subseteq Proper,
                      NEW i \in DOMAIN Measures, Measures[i].expression = "MAX"
               PROVE  \E x \in p.rows : p.measures[i] = StringValues(table[x])[i]
    BY DEF MaxIsOfARow
  <2>1. QED
    BY RecordIsSound DEF Sound
<1>2. QED
  BY <1>1, RecordsInit, RecordsStep, PTL DEF Spec

\* A record's key has the bytes of each of its rows that are numbers.
LEMMA RowsBytes ==
    ASSUME RecordsInv, KeysInv, NEW p \in parts \cup todo, NEW x \in p.rows, x \in Proper,
           NEW b \in ParseCuboid(p.key)
    PROVE  /\ ParseCuboid(p.key) \in CuboidId /\ IsKeyOf(p.key, ParseCuboid(p.key))
           /\ Slice(p.key, ParseCuboid(p.key), b) \in Encode(ColumnEncoding(b), ValueOf(x, b))
<1>1. /\ ParseCuboid(p.key) \in CuboidId /\ HasKey(table, p) /\ table \in Tables
      /\ x \in PlainRows(table) /\ x \in DOMAIN table
  BY DEF RecordsInv, IsRecordOf, KeysInv, Proper, PlainRows
<1>2. ReadRow(table, x) = table[x]
  BY <1>1, ReadRowFacts
<1>3. QED
  BY <1>1, <1>2 DEF HasKey, ValueOf

\* A record's key has the values of each of its rows in its columns' places, and
\* no value's bytes are those of NULL, for the values that have bytes of their
\* own: the encodings, the encoder, the splitter and the builder agree on which
\* byte is whose, over all levels (RowKeyEncoder::encode, RowKeySplitter::split
\* and NDCuboidBuilder::build_key_internal).
THEOREM KeysMeanRows == KeysKeepColumns /\ Spec => []KeyMeansRows
<1> SUFFICES ASSUME KeysKeepColumns PROVE Spec => []KeyMeansRows
  OBVIOUS
<1>1. RecordsInv /\ KeysInv => KeyMeansRows
  <2> SUFFICES ASSUME RecordsInv, KeysInv, NEW p \in parts \cup todo
               PROVE  LET c == ParseCuboid(p.key)
                          columns == BitsInOrder(c)
                          Place(i) == MapThenSumSet(ColumnLength, {columns[j] : j \in 1 .. i - 1})
                      IN  /\ Len(p.key) = LongLength + BodyLength(c)
                          /\ \A x \in p.rows : \A i \in DOMAIN columns :
                               Fits(x, {columns[i]}) =>
                                   LET from == LongLength + Place(i)
                                       bytes == SubSeq(p.key, from + 1, from + ColumnLength(columns[i]))
                                   IN  /\ StandsFor(ColumnEncoding(columns[i]), bytes, ValueOf(x, columns[i]))
                                       /\ ~IsNull(bytes)
    BY DEF KeyMeansRows
  <2> DEFINE c == ParseCuboid(p.key)
             columns == BitsInOrder(c)
             Place(i) == MapThenSumSet(ColumnLength, {columns[j] : j \in 1 .. i - 1})
             Bytes(i) == SubSeq(p.key, (LongLength + Place(i)) + 1, (LongLength + Place(i)) + ColumnLength(columns[i]))
  <2>1. c \in CuboidId /\ IsKeyOf(p.key, c)
    BY DEF RecordsInv, IsRecordOf, KeysInv, HasKey
  <2>2. DOMAIN columns = 1 .. Cardinality(c) /\ \A i \in 1 .. Cardinality(c) : columns[i] \in c /\ columns[i] \in Bit
    BY <2>1, BitsFacts DEF CuboidId
  <2>3. ASSUME NEW x \in p.rows, NEW i \in DOMAIN columns, Fits(x, {columns[i]})
        PROVE  StandsFor(ColumnEncoding(columns[i]), Bytes(i), ValueOf(x, columns[i])) /\ ~IsNull(Bytes(i))
    <3> DEFINE b == columns[i]
    <3>1. /\ b \in c /\ b \in Bit /\ i \in 1 .. Cardinality(c)
          /\ x \in Proper /\ HasBytes(ColumnEncoding(b), ValueOf(x, b))
      BY <2>2, <2>3 DEF Fits
    <3>2. Place(i) = Offset(c, i - 1)
      BY DEF Offset, BodyLength
    <3>3. Bytes(i) = ByteArray(p.key, LongLength + Offset(c, i - 1), ColumnLength(b))
      BY <3>2 DEF ByteArray
    <3>4. Bytes(i) = Slice(p.key, c, b)
      BY <2>1, <3>1, <3>3, SliceFacts
    <3>5. Slice(p.key, c, b) \in Encode(ColumnEncoding(b), ValueOf(x, b))
      BY <3>1, RowsBytes
    <3> HIDE DEF Bytes, b, c
    <3>6. StandsFor(ColumnEncoding(b), Slice(p.key, c, b), ValueOf(x, b)) /\ ~IsNull(Slice(p.key, c, b))
      BY <3>1, <3>5, OwnBytes
    <3>7. QED
      BY <3>4, <3>6 DEF b
  <2>4. QED
    BY <2>1, <2>3 DEF IsKeyOf
<1>2. Init => RecordsInv /\ KeysInv
  BY RecordsInit, KeysInit
<1>3. RecordsInv /\ KeysInv /\ [Next]_vars => RecordsInv' /\ KeysInv'
  BY RecordsStep, KeysStep
<1>4. QED
  BY <1>1, <1>2, <1>3, PTL DEF Spec

\* When a level is built, each row is in one record of each of its cuboids, and
\* with it all the rows that have the same values and none that has others, for
\* the values that have bytes of their own: however the channel combined the
\* records and in whatever order they were looked at (build_base_cuboid,
\* build_nd_cuboid and CuboidStringCombiner).
THEOREM GroupsStayWhole == KeysKeepColumns /\ Spec => []GroupsAreWhole
<1> SUFFICES ASSUME KeysKeepColumns PROVE Spec => []GroupsAreWhole
  OBVIOUS
<1>1. RecordsInv /\ KeysInv /\ PlacesInv => GroupsAreWhole
  <2> SUFFICES ASSUME RecordsInv, KeysInv, PlacesInv, LevelBuilt, NEW c \in CuboidsOf[level], NEW x \in DOMAIN table
               PROVE  LET holding == {p \in parts : ParseCuboid(p.key) = c /\ x \in p.rows}
                      IN  /\ Cardinality(holding) = 1
                          /\ Fits(x, c) => \A p \in holding : {y \in p.rows : Fits(y, c)} = Group(x, c)
    BY DEF GroupsAreWhole
  <2> DEFINE holding == {p \in parts : ParseCuboid(p.key) = c /\ x \in p.rows}
  <2>1. ASSUME NEW y \in DOMAIN table PROVE \E p \in parts : ParseCuboid(p.key) = c /\ y \in p.rows
    <3>1. y \in 1 .. Len(table)
      BY RowsAreFinite, TableAssumption DEF RecordsInv
    <3>2. QED
      BY <3>1, BuiltHasRows DEF HasRow
  <2>2. PICK p \in parts : ParseCuboid(p.key) = c /\ x \in p.rows
    BY <2>1
  <2>3. holding = {p}
    BY <2>2 DEF RecordsInv, Apart
  <2>4. Cardinality(holding) = 1
    BY <2>3, FS_Singleton
  <2>5. c \in CuboidId /\ c \subseteq Bit /\ IsKeyOf(p.key, c) /\ p.rows \subseteq DOMAIN table
    BY <2>2 DEF RecordsInv, IsRecordOf, KeysInv, HasKey, CuboidId, ReadyRows
  <2>6. ASSUME Fits(x, c) PROVE {y \in p.rows : Fits(y, c)} = Group(x, c)
    <3>1. ASSUME NEW q \in parts, ParseCuboid(q.key) = c, NEW y \in q.rows, Fits(y, c), NEW b \in c
          PROVE  /\ HasBytes(ColumnEncoding(b), ValueOf(y, b))
                 /\ Slice(q.key, c, b) \in Encode(ColumnEncoding(b), ValueOf(y, b))
      BY <3>1, RowsBytes DEF Fits
    <3>2. ASSUME NEW b \in c
          PROVE  /\ Encode(ColumnEncoding(b), ValueOf(x, b)) = {Slice(p.key, c, b)}
                 /\ \A w : HasBytes(ColumnEncoding(b), w) /\ Slice(p.key, c, b) \in Encode(ColumnEncoding(b), w)
                           => w = ValueOf(x, b)
      <4>1. b \in Bit
        BY <2>5
      <4>2. /\ HasBytes(ColumnEncoding(b), ValueOf(x, b))
            /\ Slice(p.key, c, b) \in Encode(ColumnEncoding(b), ValueOf(x, b))
        BY <2>2, <2>6, <3>1
      <4>3. QED
        BY <4>1, <4>2, OwnBytes
    <3>3. ASSUME NEW y \in p.rows, Fits(y, c) PROVE y \in Group(x, c)
      <4>1. \A b \in c : ValueOf(y, b) = ValueOf(x, b)
        BY <2>2, <3>1, <3>2, <3>3
      <4>2. QED
        BY <2>5, <3>3, <4>1 DEF Group
    <3>4. ASSUME NEW y \in Group(x, c) PROVE y \in p.rows /\ Fits(y, c)
      <4>1. y \in DOMAIN table /\ Fits(y, c) /\ \A b \in c : ValueOf(y, b) = ValueOf(x, b)
        BY <3>4 DEF Group
      <4>2. PICK q \in parts : ParseCuboid(q.key) = c /\ y \in q.rows
        BY <2>1, <4>1
      <4>3. ASSUME NEW b \in c PROVE Slice(q.key, c, b) = Slice(p.key, c, b)
        <5>1. Slice(q.key, c, b) \in Encode(ColumnEncoding(b), ValueOf(x, b))
          BY <3>1, <4>1, <4>2
        <5>2. QED
          BY <3>2, <5>1
      <4>4. IsKeyOf(q.key, c)
        BY <4>2 DEF KeysInv, HasKey
      <4>5. q.key = p.key
        BY <2>5, <4>3, <4>4, SameKeys
      <4>6. q = p
        BY <4>5 DEF LevelBuilt
      <4>7. QED
        BY <4>1, <4>2, <4>6
    <3>5. QED
      BY <3>3, <3>4
  <2>7. QED
    BY <2>3, <2>4, <2>6
<1>2. Init => RecordsInv /\ KeysInv /\ PlacesInv
  BY RecordsInit, KeysInit, PlacesInit
<1>3. RecordsInv /\ KeysInv /\ PlacesInv /\ [Next]_vars => RecordsInv' /\ KeysInv' /\ PlacesInv'
  BY RecordsStep, KeysStep, PlacesStep
<1>4. QED
  BY <1>1, <1>2, <1>3, PTL DEF Spec

-----------------------------------------------------------------------------
(***************************************************************************)
(* When KeysKeepColumns holds: what the loop of build_key_internal looks at.   *)
(***************************************************************************)

\* The highest bit of a number.
LEMMA HighestFacts ==
    ASSUME NEW n \in SUBSET Nat, NEW p \in n, \A b \in n : b <= p
    PROVE  HighestBit(n) = p
<1>1. \A b \in n : (\A d \in n : d <= b) => b = p
  OBVIOUS
<1>2. HighestBit(n) \in n /\ \A d \in n : d <= HighestBit(n)
  BY DEF HighestBit
<1>3. QED
  BY <1>1, <1>2

\* number_of_leading_zeros counts two too many when the highest bit is odd.
LEMMA LeadingZeros ==
    ASSUME NEW n \in SUBSET (0 .. 63), n # {}
    PROVE  /\ HighestBit(n) \in n /\ \A b \in n : b <= HighestBit(n)
           /\ NumberOfLeadingZeros(n) =
                 IF HighestBit(n) % 2 = 0 THEN 63 - HighestBit(n) ELSE 65 - HighestBit(n)
<1> DEFINE Highest(h, p) == h \in SUBSET (0 .. 31) /\ p \in h /\ \A b \in h : b <= p
           Shift(h, s) == IF \A b \in h : b + s < 32 THEN {b + s : b \in h} ELSE h
           Shifted(p, s) == IF p + s < 32 THEN p + s ELSE p
           high == {b - 32 : b \in {x \in n : x >= 32}}
           half == IF high = {} THEN n ELSE high
           top == Shift(Shift(Shift(Shift(half, 16), 8), 4), 2)
<1>1. n \in SUBSET Nat
  OBVIOUS
<1>2. PICK m \in n : \A b \in n : b <= m
  <2>1. \A b \in n : b <= 63
    OBVIOUS
  <2>2. QED
    BY <1>1, <2>1, GreatestNumber
<1>3. HighestBit(n) = m /\ m \in 0 .. 63
  BY <1>1, <1>2, HighestFacts
<1>4. NumberOfLeadingZeros(n) =
          1 + (IF high = {} THEN 32 ELSE 0) + (HighestBit(top) - HighestBit(half)) + (IF 31 \in top THEN 1 ELSE 0)
  BY DEF NumberOfLeadingZeros
<1> DEFINE p == IF m < 32 THEN m ELSE m - 32
<1>5. (high = {} <=> m < 32) /\ Highest(half, p)
  <2>1. CASE m < 32
    <3>1. \A x \in n : ~(x >= 32)
      BY <1>2, <1>3, <2>1
    <3>2. high = {} /\ half = n
      BY <3>1
    <3>3. \A x \in n : x \in 0 .. 31
      BY <3>1
    <3> HIDE DEF half, high
    <3>4. QED
      BY <1>2, <2>1, <3>2, <3>3
  <2>2. CASE ~(m < 32)
    <3>1. m - 32 \in high
      BY <1>2, <1>3, <2>2
    <3>2. half = high
      BY <3>1
    <3>3. \A y \in high : y \in 0 .. 31 /\ y <= m - 32
      <4>1. \A x \in n : x >= 32 => x - 32 \in 0 .. 31 /\ x - 32 <= m - 32
        BY <1>2, <1>3
      <4>2. QED
        BY <4>1
    <3> HIDE DEF half, high
    <3>4. QED
      BY <2>2, <3>1, <3>2, <3>3
  <2>3. QED
    BY <2>1, <2>2
<1>6. ASSUME NEW h, NEW q, Highest(h, q), NEW s \in {16, 8, 4, 2} PROVE Highest(Shift(h, s), Shifted(q, s))
  <2>1. q \in 0 .. 31 /\ \A b \in h : b \in 0 .. 31 /\ b <= q
    BY <1>6
  <2>2. CASE q + s < 32
    <3>1. \A b \in h : b + s < 32 /\ b + s \in 0 .. 31 /\ b + s <= q + s
      BY <2>1, <2>2
    <3>2. Shift(h, s) = {b + s : b \in h} /\ Shifted(q, s) = q + s
      BY <2>2, <3>1
    <3>3. QED
      BY <1>6, <3>1, <3>2
  <2>3. CASE ~(q + s < 32)
    <3>1. Shift(h, s) = h /\ Shifted(q, s) = q
      BY <1>6, <2>3
    <3>2. QED
      BY <1>6, <3>1
  <2>4. QED
    BY <2>2, <2>3
<1> DEFINE r == Shifted(Shifted(Shifted(Shifted(p, 16), 8), 4), 2)
<1>7. Highest(top, r)
  <2> HIDE DEF Highest, Shift, Shifted, half, p
  <2>1. Highest(Shift(half, 16), Shifted(p, 16))
    BY <1>5, <1>6
  <2>2. Highest(Shift(Shift(half, 16), 8), Shifted(Shifted(p, 16), 8))
    BY <1>6, <2>1
  <2>3. Highest(Shift(Shift(Shift(half, 16), 8), 4), Shifted(Shifted(Shifted(p, 16), 8), 4))
    BY <1>6, <2>2
  <2>4. QED
    BY <1>6, <2>3
<1>8. p \in 0 .. 31 /\ r \in {30, 31} /\ (r = 30 <=> m % 2 = 0)
  <2>1. p \in 0 .. 31 /\ p % 2 = m % 2
    BY <1>3
  <2> HIDE DEF p
  <2>2. r \in {30, 31} /\ (r = 30 <=> p % 2 = 0)
    BY <2>1
  <2>3. QED
    BY <2>1, <2>2
<1> HIDE DEF top, half, high, r
<1>9. HighestBit(half) = p /\ HighestBit(top) = r /\ (31 \in top <=> r = 31)
  <2>1. half \in SUBSET Nat /\ top \in SUBSET Nat
    BY <1>5, <1>7
  <2>2. HighestBit(half) = p
    BY <1>5, <2>1, HighestFacts
  <2>3. HighestBit(top) = r
    BY <1>7, <2>1, HighestFacts
  <2>4. 31 \in top <=> r = 31
    BY <1>7, <1>8
  <2>5. QED
    BY <2>2, <2>3, <2>4
<1>10. QED
  BY <1>2, <1>3, <1>4, <1>5, <1>8, <1>9

\* The loop of build_key_internal looks at all of a cuboid's columns when the
\* highest is even, and when it is odd at all but the last two
\* (utils::number_of_leading_zeros).
THEOREM ColumnsLookedAt ==
    ASSUME NEW c \in CuboidId, c # {}, c \subseteq 0 .. 63
    PROVE  BitsLookedAt(c) = IF HighestBit(c) % 2 = 0 THEN c ELSE c \ {0, 1}
<1>1. /\ HighestBit(c) \in c /\ \A b \in c : b \in 0 .. 63
      /\ NumberOfLeadingZeros(c) = IF HighestBit(c) % 2 = 0 THEN 63 - HighestBit(c) ELSE 65 - HighestBit(c)
  BY LeadingZeros
<1>2. ASSUME NEW b \in c
      PROVE  HighestBit(c) < b + (64 - NumberOfLeadingZeros(c)) <=> HighestBit(c) % 2 = 0 \/ b \notin {0, 1}
  <2> DEFINE m == HighestBit(c)
             z == NumberOfLeadingZeros(c)
  <2>1. m \in 0 .. 63 /\ b \in 0 .. 63 /\ z = IF m % 2 = 0 THEN 63 - m ELSE 65 - m
    BY <1>1
  <2> HIDE DEF m, z
  <2>2. m < b + (64 - z) <=> m % 2 = 0 \/ b \notin {0, 1}
    BY <2>1
  <2>3. QED
    BY <2>2 DEF m, z
<1>3. QED
  BY <1>2 DEF BitsLookedAt

\* Hence a child's columns are all copied if it is below its parent and, when the
\* parent's highest bit is odd, has neither of the last two columns.
THEOREM WhenKeysKeepColumns ==
    ASSUME Bit \subseteq 0 .. 63
    PROVE  KeysKeepColumns <=>
              \A c \in CuboidId : \A d \in Spanning[c] :
                 d \subseteq c /\ (c # {} /\ HighestBit(c) % 2 # 0 => d \cap {0, 1} = {})
<1>1. ASSUME NEW c \in CuboidId, NEW d
      PROVE  d \subseteq BitsLookedAt(c) <=>
                d \subseteq c /\ (c # {} /\ HighestBit(c) % 2 # 0 => d \cap {0, 1} = {})
  <2>1. CASE c = {}
    BY <2>1 DEF BitsLookedAt
  <2>2. CASE c # {}
    <3>1. c \subseteq 0 .. 63
      BY DEF CuboidId
    <3>2. BitsLookedAt(c) = IF HighestBit(c) % 2 = 0 THEN c ELSE c \ {0, 1}
      BY <2>2, <3>1, ColumnsLookedAt
    <3>3. CASE HighestBit(c) % 2 = 0
      BY <2>2, <3>2, <3>3
    <3>4. CASE HighestBit(c) % 2 # 0
      <4>1. BitsLookedAt(c) = c \ {0, 1}
        BY <3>2, <3>4
      <4>2. QED
        BY <2>2, <3>4, <4>1
    <3>5. QED
      BY <3>3, <3>4
  <2>3. QED
    BY <2>1, <2>2
<1>2. QED
  BY <1>1 DEF KeysKeepColumns

=============================================================================
