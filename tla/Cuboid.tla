------------------------------- MODULE Cuboid -------------------------------
(***************************************************************************)
(* Cuboids.  The code keeps a cuboid as the bit mask of the row key        *)
(* columns it groups by; here it is the set of those bits, so that `&',    *)
(* `|' and `& ~' are intersection, union and difference.  A mask is the    *)
(* larger number when it has the highest bit the two masks differ in.      *)
(***************************************************************************)
EXTENDS Naturals, FiniteSets

CONSTANT Bit        \* the bit indexes of the row key columns

ASSUME BitAssumption == Bit \subseteq Nat /\ IsFiniteSet(Bit) /\ Bit # {}

CuboidId == SUBSET Bit

\* Cuboid::get_base_cuboid_id: all columns.
base_cuboid_id == Bit

\* c < d, as numbers.
IdLess(c, d) == \E i \in d \ c : \A j \in c \ d : j < i

\* utils::bit_count, of a number given as the set of its bits.
BitCount(n) == Cardinality(n)

\* Cuboid::cuboid_select_comparator: fewer bits first, then the smaller number.
CuboidSelectLess(c, d) ==
    \/ BitCount(c) < BitCount(d)
    \/ BitCount(c) = BitCount(d) /\ IdLess(c, d)

HighestBit(n) == CHOOSE b \in n : \A d \in n : d <= b

\* utils::number_of_leading_zeros, of a number given as the set of its bits.
\* `half' is a signed 32-bit integer: the last `half >> 31' is 0 or -1.
NumberOfLeadingZeros(n) ==
    LET high == {b - 32 : b \in {x \in n : x >= 32}}
        half == IF high = {} THEN n ELSE high
        ShiftIfZeros(h, s) == IF \A b \in h : b + s < 32 THEN {b + s : b \in h} ELSE h
        top == ShiftIfZeros(ShiftIfZeros(ShiftIfZeros(ShiftIfZeros(half, 16), 8), 4), 2)
    IN  IF n = {} THEN 64
        ELSE 1 + (IF high = {} THEN 32 ELSE 0) + (HighestBit(top) - HighestBit(half))
               + (IF 31 \in top THEN 1 ELSE 0)

\* The bits the loop of build_key_internal looks at, from the highest down.
BitsLookedAt(parent) ==
    {b \in parent : HighestBit(parent) < b + (64 - NumberOfLeadingZeros(parent))}
=============================================================================
