----------------------------- MODULE CubeResult -----------------------------
(***************************************************************************)
(* What a cube build promises: the workers write the records of the cube,  *)
(* each of them once, and nothing else.                                    *)
(***************************************************************************)
CONSTANTS
    Worker,
    Cube        \* the records of the cube

VARIABLE written    \* pairs of a worker and a record it wrote

Init == written = {}

WrittenRecords == {p[2] : p \in written}

\* One worker writes some records nobody wrote.
Write(w) ==
    /\ written \subseteq written'
    /\ (written' \ written) \subseteq {w} \X (Cube \ WrittenRecords)

Next == \E w \in Worker : Write(w)

Spec == Init /\ [][Next]_written

Complete == WrittenRecords = Cube
=============================================================================
