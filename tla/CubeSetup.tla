----------------------------- MODULE CubeSetup ------------------------------
(***************************************************************************)
(* What every worker does before it reads the table: load the metadata     *)
(* (MetaInput), make the cube and the model from it, and turn the names in *)
(* them into columns and masks (CubeModel).  The workers do this on their  *)
(* own, and then exchange records whose keys mean the same to all of them  *)
(* only if they came to the same result.                                   *)
(***************************************************************************)
EXTENDS MetaInput, CubeModel

CONSTANTS
    CubeJson,       \* the cube in each file of "cube_desc"
    ModelJson,      \* the model in each file of "model_desc"
    TableJson       \* the table in each file of "table": [id, name, columns]

\* The arrays of the JSON are sequences.
IsArray(a) == a \in Seq(Range(a))

ASSUME JsonAssumption ==
    /\ \A cube \in Range(CubeJson) :
         /\ IsArray(cube.dimensions) /\ IsArray(cube.measures) /\ IsArray(cube.rowkey)
         /\ \A measure \in Range(cube.measures) : IsArray(measure)
         /\ IsArray(cube.aggregation_groups)
         /\ \A group \in Range(cube.aggregation_groups) :
              IsArray(group.includes) /\ IsArray(group.select_rule.mandatory_dims)
    /\ \A m \in Range(ModelJson) :
         /\ IsArray(m.lookups)
         /\ \A lookup \in Range(m.lookups) : IsArray(lookup.foreign_keys)

VARIABLES
    desc,       \* what CubeDesc's constructor parsed
    model       \* the DataModelDesc

vars == <<metaVars, desc, model>>

Init ==
    /\ MetaInit
    /\ desc = [w \in Worker |-> <<>>]
    /\ model = [w \in Worker |-> <<>>]

Load(w) == GetJson(w) /\ UNCHANGED <<desc, model>>

\* What a chunk may be read as.  One that was parsed though bytes are missing
\* may be any; one that was left over by another load is none.
Parsed(json, chunk) ==
    IF Whole(chunk) THEN {json[f] : f \in {chunk[1][1]} \cap DOMAIN json} ELSE Range(json)

\* AggregationGroup's constructor.
AggregationGroup(agg_json) ==
    [includes |-> agg_json.includes, mandatory_dims |-> agg_json.select_rule.mandatory_dims]

\* CubeDesc's constructor takes dimensions, measures, row key and groups over as
\* they are named.
CubeDesc(j) ==
    [dimensions |-> j.dimensions, measures |-> j.measures, rowkey |-> j.rowkey,
     groups |-> [i \in DOMAIN j.aggregation_groups |-> AggregationGroup(j.aggregation_groups[i])]]

\* get_json has returned: a cube is made of the first chunk right away, the
\* other two are arguments of CubeDesc::init.  Taking a name of no JSON throws.
UseJson(w) ==
    LET chunks == jsons[w][Head(calls[w])]
    IN  /\ pc[w] = "returned"
        /\ calls' = [calls EXCEPT ![w] = Tail(@)]
        /\ IF Head(calls[w]) # "cube_desc"
           THEN /\ pc' = [pc EXCEPT ![w] = IF Len(calls[w]) = 1 THEN "model" ELSE "set_input"]
                /\ UNCHANGED desc
           ELSE IF chunks = <<>>
           THEN pc' = [pc EXCEPT ![w] = "aborted"] /\ UNCHANGED desc
           ELSE /\ pc' = [pc EXCEPT ![w] = "set_input"]
                /\ \E j \in Parsed(CubeJson, chunks[1]) : desc' = [desc EXCEPT ![w] = CubeDesc(j)]
        /\ UNCHANGED <<files, infmt, jsons, failed, model>>

\* get_tables: the first table with an id stays.
Tables(parsed) ==
    [id \in {parsed[i].id : i \in DOMAIN parsed} |->
        parsed[Min({i \in DOMAIN parsed : parsed[i].id = id})]]

\* Where the allocator puts the table refs.
Orders(refs) == {order \in [refs -> refs] : \A i, j \in refs : order[i] = order[j] => i = j}

Goto(w, found, next) == pc' = [pc EXCEPT ![w] = IF found THEN next ELSE "aborted"]

\* What DataModelDesc::init is called with.
ModelInputs(w) ==
    LET models == jsons[w]["model_desc"]
        chunks == jsons[w]["table"]
        parsed == {p \in [DOMAIN chunks -> Range(TableJson)] :
                      \A i \in DOMAIN chunks : p[i] \in Parsed(TableJson, chunks[i])}
    IN  IF models = <<>> THEN {}
        ELSE {[json |-> json, tables |-> Tables(p)] : json \in Parsed(ModelJson, models[1]), p \in parsed}

\* DataModelDesc::init.
InitModel(w) ==
    /\ pc[w] = "model"
    /\ \/ ModelInputs(w) = {} /\ Goto(w, FALSE, "columns") /\ UNCHANGED model
       \/ \E in \in ModelInputs(w) :
            IF ~HasTables(in.json, in.tables)
            THEN Goto(w, FALSE, "columns") /\ UNCHANGED model
            ELSE \E order \in Orders(Refs(in.json)) :
                    LET dm == DataModel(in.json, in.tables, order)
                    IN  /\ model' = [model EXCEPT ![w] = dm]
                        /\ Goto(w, Resolves(dm, in.json.metrics), "columns")
    /\ jsons' = [jsons EXCEPT ![w] = NoJsons]
    /\ UNCHANGED <<files, calls, infmt, failed, desc>>

\* DimensionDesc::init, init_dimension_columns and init_measure_columns.
InitColumns(w) ==
    /\ pc[w] = "columns"
    /\ Goto(w, DimensionsInit(model[w], desc[w]) /\ MeasuresInit(model[w], desc[w]), "rowkey")
    /\ UNCHANGED <<files, calls, infmt, jsons, failed, desc, model>>

\* RowKeyDesc::set_cube_desc and AggregationGroup::init.
InitRowKey(w) ==
    /\ pc[w] = "rowkey"
    /\ Goto(w, RowKeyInit(model[w], desc[w]) /\ GroupsInit(model[w], desc[w]), "ready")
    /\ UNCHANGED <<files, calls, infmt, jsons, failed, desc, model>>

SetupStep(w) == Load(w) \/ UseJson(w) \/ InitModel(w) \/ InitColumns(w) \/ InitRowKey(w)

Next == \E w \in Worker : SetupStep(w)

Spec == Init /\ [][Next]_vars

\* Every worker is a thread.
FairSpec == Spec /\ \A w \in Worker : WF_vars(SetupStep(w))

-----------------------------------------------------------------------------
\* What CubeDesc::init leaves in its members: columns, row key and masks, which
\* are a function of the model and the cube.
Result(w) ==
    [flat_table |-> FlatTableColumns(model[w], desc[w]),
     dimensions |-> DimensionColumns(model[w], desc[w]),
     rowkey     |-> RowKeyColumns(model[w], desc[w]),
     groups     |-> Groups(model[w], desc[w])]

Ready == {w \in Worker : pc[w] = "ready"}

\* The columns mentioned in the parts that make the result; a derived dimension
\* mentions its table only.
Mentions(cube) ==
    {m \in Range(cube.dimensions) : m[2] # NoName} \cup Range(cube.rowkey)
        \cup (UNION {Range(ColumnValues(m)) : m \in Range(cube.measures)})
        \cup (UNION {Range(cube.groups[i].includes) \cup Range(cube.groups[i].mandatory_dims) :
                      i \in DOMAIN cube.groups})

\* A column without a table is in one table only, as far as this worker knows.
Unambiguous(w) ==
    \A m \in Mentions(desc[w]) \cup UNION {Range(model[w].keys[i]) : i \in DOMAIN model[w].keys} :
        m[1] = NoName => Cardinality(TablesWith(model[w], Upper[m[2]])) = 1

\* One cube and one model, no two tables with the same id, of which the first to
\* be read counts, and no empty file that leaves others to a later load.
OneOfEach ==
    /\ \A d \in {"cube_desc", "model_desc"} : Cardinality(FilesIn(d)) = 1
    /\ \A f, g \in FilesIn("table") : TableJson[f].id = TableJson[g].id => f = g
    /\ \A d \in Directory : ~EmptyIn(d)

\* Two workers that are ready after reading the same files without a failure
\* have the same columns and masks, and so the same keys, unless a name they
\* look up without a table is in two.
WorkersAgree ==
    \A v, w \in Ready :
        Result(v) # Result(w) =>
            ~OneOfEach \/ failed[v] # {} \/ failed[w] # {} \/ ~Unambiguous(v)

\* A group's masks are the row key columns the group names, whatever it calls
\* them, as bits of the base cuboid; read back as columns they are those, and
\* turned into a mask again the same.
MasksMeanColumns ==
    \A w \in Ready : \A i \in DOMAIN desc[w].groups :
        LET rowkey == RowKeyColumns(model[w], desc[w])
            group == Groups(model[w], desc[w])[i]
            IsMaskOf(mask, mentions) ==
                LET named == Range(FindColumns(model[w], mentions))
                IN  /\ mask \subseteq 0 .. Len(rowkey) - 1
                    /\ Range(IdToColumns(rowkey, mask)) = named
                    /\ ToCuboidId(rowkey, named) = mask
        IN  /\ IsMaskOf(group.full, desc[w].groups[i].includes)
            /\ IsMaskOf(group.mandatory, desc[w].groups[i].mandatory_dims)

\* The flat table has each dimension and each measured column once, the
\* dimensions first and in their order.
FlatTableHoldsColumns ==
    \A w \in Ready :
        LET dimensions == DimensionColumns(model[w], desc[w])
            flat == FlatTableColumns(model[w], desc[w])
        IN  /\ IsPrefix(dimensions, flat)
            /\ \A i, j \in DOMAIN flat : flat[i] = flat[j] => i = j
            /\ Range(flat) = Range(dimensions)
                                \cup UNION {Range(ColRefs(model[w], m)) : m \in Range(desc[w].measures)}

\* Every worker gets ready or ends its process.
GetsReady == <>[](\A w \in Worker : pc[w] \in {"ready", "aborted"})
=============================================================================
