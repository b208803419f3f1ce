--------------------------- MODULE MCParquetInput ---------------------------
(***************************************************************************)
(* Instances of ParquetInput: on HDFS the directories d1, with the files   *)
(* f1 and f2 (two row groups each), and d2, with f3; local files l1 (one   *)
(* row group of two rows) and l2 (two of one row), read by name or as the  *)
(* directory dir.                                                          *)
(***************************************************************************)
EXTENDS ParquetInput

CONSTANTS f1, f2, f3, l1, l2, d1, d2, dir, w1, w2, w3

MCProtocol == [n \in Path \cup Url |-> IF n \in {l1, l2, dir} THEN "file" ELSE "hdfs"]
MCKind == [u \in Url |-> IF u \in {l1, l2} THEN "file" ELSE "directory"]
MCFiles == [u \in Url |-> CASE u = d1 -> <<f1, f2>> [] u = d2 -> <<f3>>
                            [] u = dir -> <<l1, l2>> [] OTHER -> <<>>]
MCRowGroups == [p \in Path |-> CASE p \in {f1, f2, l2} -> <<1, 1>> [] p = l1 -> <<2>>
                                 [] OTHER -> <<1>>]
MCPathOrder == [p \in Path |-> CASE p = f1 -> 1 [] p = f2 -> 2 [] p = f3 -> 3
                                 [] p = l1 -> 4 [] OTHER -> 5]

BothDirectories == <<d1, d2>>
OneDirectory == <<d1>>
MixedLoads == <<l1, dir, d2>>
=============================================================================
