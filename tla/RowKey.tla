------------------------------- MODULE RowKey -------------------------------
(***************************************************************************)
(* Row keys: the cuboid id and, for each column of the cuboid, the fixed   *)
(* number of bytes its value is encoded in, highest bit first.  A key is a *)
(* record with a function from the cuboid's bits to the encoded values;    *)
(* Blank stands for column bytes that were never written (zeros).          *)
(***************************************************************************)
EXTENDS Cuboid

CONSTANTS
    Value,      \* the encoded column values of the table
    Blank

ASSUME WidthAssumption == Bit \subseteq 0 .. 63

ASSUME BlankAssumption == Blank \notin Value

Key == UNION {[cuboid : {c}, cols : [c -> Value \cup {Blank}]] : c \in CuboidId}

\* RowKeyEncoder::encode, for the base cuboid.
BaseKey(row) == [cuboid |-> base_cuboid_id, cols |-> row]

\* NDCuboidBuilder::build_key.  The columns copied are the child's highest, so
\* each gets its place; the bytes of the others stay zero.
BuildKey(parent, child) ==
    [cuboid |-> child,
     cols   |-> [b \in child |->
                    IF b \in BitsLookedAt(parent.cuboid) THEN parent.cols[b] ELSE Blank]]
=============================================================================
