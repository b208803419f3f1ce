----------------------------- MODULE MCOrcInput -----------------------------
(***************************************************************************)
(* Instances of OrcInput: two urls, u1 with the files f1 and f2, u2 with   *)
(* f3; batches of two rows, stripes of four (a whole number of batches) or *)
(* of three (which cut batches).                                           *)
(***************************************************************************)
EXTENDS OrcInput, TLC

CONSTANTS f1, f2, f3, u1, u2, w1, w2, w3

MCPlainFiles == (u1 :> <<f1, f2>>) @@ (u2 :> <<f3>>)

\* No file ends where a batch ends.
OddRows == (f1 :> 3) @@ (f2 :> 1) @@ (f3 :> 5)

\* Two files of one directory end where a batch ends; f1 is listed first and
\* handed out last.
OneDirectory == (u1 :> <<f1, f2, f3>>) @@ (u2 :> <<>>)
BoundaryRows == (f1 :> 1) @@ (f2 :> 2) @@ (f3 :> 2)

\* f1 ends where a batch ends, f2 is empty, f3 crosses a stripe.
MixedRows == (f1 :> 2) @@ (f2 :> 0) @@ (f3 :> 5)

Stripes(n) == [f \in File |-> [r \in 0 .. NumRows[f] |-> (r \div n + 1) * n]]
WholeStripes == Stripes(4)
CutStripes == Stripes(3)

BothTables == <<u1, u2>>
OneTable == <<u1>>
=============================================================================
