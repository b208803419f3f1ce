-------------------------- MODULE MCCubingByLayer --------------------------
(***************************************************************************)
(* Instances of CubingByLayer: row keys of two or three columns, and rows  *)
(* that meet in some groups and not in others.                             *)
(***************************************************************************)
EXTENDS CubingByLayer, SequencesExt, TLC

CONSTANTS w1, w2, w3, x1, x2, x3, x4, a, b

Columns(two, one, zero) == (2 :> two) @@ (1 :> one) @@ (0 :> zero)

\* x1 and x2 differ in column 0 only, x1 and x3 in columns 1 and 2; x4 has the
\* columns of x1.
ThreeColumns ==
    (x1 :> Columns(a, a, a)) @@ (x2 :> Columns(a, a, b))
        @@ (x3 :> Columns(b, b, a)) @@ (x4 :> Columns(a, a, a))

\* The same rows without column 2.
TwoColumns == [x \in RowId |-> [i \in {0, 1} |-> ThreeColumns[x][i]]]

\* Keys with b in column 0 have one owner, the cuboid {0, 2} another (the
\* same with two workers), all others the first.
SomeOwner ==
    LET w == SetToSeq(Worker)
    IN  [k \in Key |->
            IF 0 \in k.cuboid /\ k.cols[0] = b THEN w[2]
            ELSE IF k.cuboid = {0, 2} THEN w[Len(w)]
            ELSE w[1]]

Tree(children) == [c \in CuboidId |-> IF c \in DOMAIN children THEN children[c] ELSE {}]

\* Column 2 is mandatory.
MandatoryTree ==
    Tree(({0, 1, 2} :> {{1, 2}, {0, 2}}) @@ ({0, 2} :> {{2}}))
MandatoryLayers == <<{{0, 1, 2}}, {{1, 2}, {0, 2}}, {{2}}>>

\* Two columns, no mandatory one.
FullTree == Tree({0, 1} :> {{0}, {1}})
FullLayers == <<{{0, 1}}, {{0}, {1}}>>
=============================================================================
