--------------------------- MODULE MCCubeInstance ---------------------------
(***************************************************************************)
(* Instances of CubeInstance: every vector of up to MaxGroups aggregation  *)
(* groups over a small row key, and every list of up to MaxCuboids cuboids *)
(* with the base cuboid among them, or of any of those without column 3.   *)
(***************************************************************************)
EXTENDS CubeInstance

CONSTANTS MaxGroups, MaxCuboids

GroupVectors(S) == UNION {[1 .. n -> S] : n \in 0 .. MaxGroups}
ProperVectors == GroupVectors(ProperGroups)

ListsWithBase ==
    UNION {{S \cup {base_cuboid_id} : S \in kSubset(n, CuboidId \ {{}, base_cuboid_id})} :
            n \in 0 .. MaxCuboids - 1}
    \cup {S \cup {base_cuboid_id} : S \in SUBSET (SUBSET (Bit \ {3}) \ {{}})}
=============================================================================
