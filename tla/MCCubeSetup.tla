---------------------------- MODULE MCCubeSetup -----------------------------
(***************************************************************************)
(* Instances of CubeSetup: a fact table and a lookup with a column of the  *)
(* same name, a cube that names its columns in different ways, and one     *)
(* whose row key has a column twice; files of one to three bytes, and an   *)
(* empty one.                                                              *)
(***************************************************************************)
EXTENDS CubeSetup, TLC

CONSTANTS w1, w2

MCUpper ==
    [n \in {"SALES", "SITE", "Site", "S", "ID", "PRICE", "NAME", "id", "sales"} |->
        CASE n = "id" -> "ID" [] n = "sales" -> "SALES" [] n = "Site" -> "SITE" [] OTHER -> n]

\* Two ways to say ID of the fact table, and one to say nothing about the table.
FactId == <<"SALES", "ID">>
SameId == <<"sales", "id">>
SomeId == <<"", "ID">>

Cube(dimensions, measures, rowkey, includes, mandatory) ==
    [dimensions |-> dimensions, measures |-> measures, rowkey |-> rowkey,
     aggregation_groups |-> <<[includes |-> includes, select_rule |-> [mandatory_dims |-> mandatory]]>>]

Column(mention) == [type |-> "column", value |-> mention]
Constant(value) == [type |-> "constant", value |-> value]

\* The dimension of the lookup is derived from the fact table's ID.
c1Cube == Cube(<<FactId, <<"SITE", "">>, <<"S", "NAME">>>>, <<<<Column(<<"", "PRICE">>)>>, <<Constant("1")>>>>,
               <<SameId, <<"SITE", "NAME">>>>, <<<<"S", "NAME">>, SameId>>, <<FactId>>)
c2Cube == Cube(<<FactId, <<"SITE", "NAME">>>>, <<<<Column(FactId), Constant("2"), Column(<<"SALES", "PRICE">>)>>>>,
               <<SomeId, FactId>>, <<SomeId>>, <<>>)

MCCubeJson == ("c1" :> c1Cube) @@ ("c2" :> c2Cube)

\* m2 takes the lookup table twice, the second time under the first's alias.
Lookup(alias) == [table |-> "D.SITE", alias |-> alias, foreign_keys |-> <<FactId>>]
MCModelJson ==
    ("m1" :> [fact_table |-> "D.SALES", lookups |-> <<Lookup("S")>>, metrics |-> <<<<"", "PRICE">>>>]) @@
    ("m2" :> [fact_table |-> "D.SALES", lookups |-> <<Lookup("S"), Lookup("S")>>, metrics |-> <<>>])

MCTableJson ==
    ("t1" :> [id |-> "D.SALES", name |-> "SALES", columns |-> <<"ID", "PRICE">>]) @@
    ("t2" :> [id |-> "D.SITE", name |-> "SITE", columns |-> <<"ID", "NAME">>]) @@
    ("t3" :> [id |-> "D.SITE", name |-> "Site", columns |-> <<"NAME">>])

MCSize == ("c0" :> 0) @@ ("c3" :> 0) @@ ("c1" :> 1) @@ ("c2" :> 1) @@ ("m1" :> 1) @@ ("m2" :> 1)
              @@ ("t1" :> 2) @@ ("t2" :> 1) @@ ("t3" :> 1)
MCDirOf == [f \in {"c0", "c1", "c2", "c3"} |-> "cube_desc"] @@ [f \in {"m1", "m2"} |-> "model_desc"]
              @@ [f \in {"t1", "t2", "t3"} |-> "table"]

\* Everything may fail for one of the workers.
MCFaults == (w1 :> {"list", "open", "read"}) @@ (w2 :> {})

\* Cube, model and tables, with one lookup and with two; with an empty file beside
\* the cube; with the lookup under a name in mixed case; with no table; and with
\* two empty files, the second of which ends the load after that of the first.
MCFileSets ==
    {{"c2", "m1", "t1", "t2"}, {"c1", "m2", "t1", "t2"},
     {"c0", "c2", "m1", "t1", "t2"}, {"c1", "m1", "t1", "t3"}, {"c1", "m2"},
     {"c0", "c1", "c3", "m1"}}
=============================================================================
