-------------------------- MODULE RowDistribution --------------------------
(***************************************************************************)
(* What the workers of a job rely on when they read tables together: every *)
(* row is taken by one worker, once, and when the last worker stops no row *)
(* is left.                                                                *)
(***************************************************************************)
EXTENDS Naturals

CONSTANTS Worker, Row

VARIABLES
    got,        \* how often a worker was given a row
    done        \* the workers that stopped

vars == <<got, done>>

Init ==
    /\ got = [w \in Worker |-> [x \in Row |-> 0]]
    /\ done = {}

Take(w, x) ==
    /\ w \notin done
    /\ \A v \in Worker : got[v][x] = 0
    /\ got' = [got EXCEPT ![w][x] = 1]
    /\ UNCHANGED done

Stop(w) ==
    /\ w \notin done
    /\ done' = done \cup {w}
    /\ done' = Worker => \A x \in Row : \E v \in Worker : got[v][x] = 1
    /\ UNCHANGED got

Next == \E w \in Worker : Stop(w) \/ \E x \in Row : Take(w, x)

Spec == Init /\ [][Next]_vars

FairSpec == Spec /\ WF_vars(Next)
=============================================================================
