----------------------------- MODULE CubeModel ------------------------------
(***************************************************************************)
(* Names and columns: how DataModelDesc, CubeDesc, RowKeyDesc and          *)
(* AggregationGroup turn the names in the metadata into columns and masks. *)
(* A table is identified by its TableRef, 0 for the fact table and i for   *)
(* the i-th lookup; a column by its table and name.  A mention of a column *)
(* is a pair of a table name (NoName when there is none) and a name.       *)
(***************************************************************************)
EXTENDS Integers, SequencesExt

CONSTANT Upper     \* boost::to_upper, on the names there are

ASSUME UpperAssumption == \A n \in DOMAIN Upper : Upper[n] \in DOMAIN Upper

NoName == ""        \* what is not named
NoTable == -1       \* find_table fails its CHECK
NoColumn == <<>>    \* the null pointer
Aborted == <<NoTable>>

\* A model is [fact_table, lookups, metrics], a lookup [table, alias,
\* foreign_keys]; tables gives each "database.name" the table's JSON.
Refs(model) == 0 .. Len(model.lookups)
TableId(model, i) == IF i = 0 THEN model.fact_table ELSE model.lookups[i].table

\* The names add_table_name is called with for a table ref.
NamesOf(model, tables, i) ==
    LET name == tables[TableId(model, i)].name
    IN  IF i = 0 \/ model.lookups[i].alias = NoName THEN {name}
        ELSE {name, model.lookups[i].alias}

\* table_name_map_: the first table ref that is added with a name keeps it.
TableNameMap(model, tables) ==
    [n \in UNION {NamesOf(model, tables, i) : i \in Refs(model)} |->
        Min({i \in Refs(model) : n \in NamesOf(model, tables, i)})]

\* init_root_fact_table_ref and init_lookup_table_refs find all tables.
HasTables(model, tables) == \A i \in Refs(model) : TableId(model, i) \in DOMAIN tables

\* TableDesc's and TableRef's constructors.
TableDesc(table_json) == [name |-> table_json.name, columns |-> Range(table_json.columns)]

\* A DataModelDesc: the table refs, the map, and the order of all_table_refs_,
\* which is that of their addresses.
DataModel(model, tables, order) ==
    [columns  |-> [i \in Refs(model) |-> TableDesc(tables[TableId(model, i)]).columns],
     keys     |-> [i \in Refs(model) |-> IF i = 0 THEN <<>> ELSE model.lookups[i].foreign_keys],
     name_map |-> TableNameMap(model, tables),
     order    |-> order]

GetColumn(dm, i, name) == IF name \in dm.columns[i] THEN <<i, name>> ELSE NoColumn

\* find_table; the names in the map are not made upper case.
FindTable(dm, table) ==
    IF Upper[table] \in DOMAIN dm.name_map THEN dm.name_map[Upper[table]] ELSE NoTable

\* The tables of all_table_refs_ that have a column.
TablesWith(dm, name) == {i \in Range(dm.name_map) : name \in dm.columns[i]}

\* A mutant of FindColumn: a table that is named is not looked at.
FindColumn_AnyTable(dm, mention) ==
    LET name == Upper[mention[2]]
        found == TablesWith(dm, name)
    IN  IF found = {} THEN NoColumn
        ELSE <<CHOOSE i \in found : \A j \in found : dm.order[i] <= dm.order[j], name>>

\* find_column: without a table, the first table ref in the order of their
\* addresses that has the column.
FindColumn(dm, mention) ==
    LET name == Upper[mention[2]]
        found == TablesWith(dm, name)
    IN  IF mention[1] # NoName
        THEN IF FindTable(dm, mention[1]) = NoTable THEN Aborted
             ELSE GetColumn(dm, FindTable(dm, mention[1]), name)
        ELSE IF found = {} THEN NoColumn
        ELSE <<CHOOSE i \in found : \A j \in found : dm.order[i] <= dm.order[j], name>>

FindColumns(dm, mentions) == [i \in DOMAIN mentions |-> FindColumn(dm, mentions[i])]

\* No CHECK fails and no null pointer is followed for these columns.
AllFound(columns) == Range(columns) \cap {Aborted, NoColumn} = {}

Resolves(dm, mentions) == AllFound(FindColumns(dm, mentions))

-----------------------------------------------------------------------------
\* A cube is [dimensions, measures, rowkey, groups]: dimensions are mentions
\* with no column when they are derived, a measure is the sequence of its
\* parameters [type, value], a group is [includes, mandatory_dims].

\* DimensionDesc::init only needs the table; init_dimension_columns takes the
\* foreign keys of the table for a derived column.
DimensionMentions(dm, dimension) ==
    IF dimension[2] = NoName THEN dm.keys[FindTable(dm, dimension[1])] ELSE <<dimension>>

DimensionsInit(dm, cube) ==
    \A i \in DOMAIN cube.dimensions :
        /\ FindTable(dm, cube.dimensions[i][1]) # NoTable
        /\ Resolves(dm, DimensionMentions(dm, cube.dimensions[i]))

\* A mutant of AddNew: a column is added again.
AddNew_Again(columns, col) == Append(columns, col)

\* init_dimension_col_ref, and the measures in get_flat_table_columns: a column
\* is added when it is new.
AddNew(columns, col) == IF col \in Range(columns) THEN columns ELSE Append(columns, col)

\* dimension_columns_.
DimensionColumns(dm, cube) ==
    FoldLeft(AddNew, <<>>,
             FlattenSeq([i \in DOMAIN cube.dimensions |->
                FindColumns(dm, DimensionMentions(dm, cube.dimensions[i]))]))

\* The columns FunctionDesc::init looks up.
ColumnValues(parameters) ==
    FlattenSeq([i \in DOMAIN parameters |->
        IF parameters[i].type = "column" THEN <<parameters[i].value>> ELSE <<>>])

\* ParameterDesc::get_col_refs.
ColRefs(dm, parameters) == FindColumns(dm, ColumnValues(parameters))

\* init_measure_columns.
MeasuresInit(dm, cube) == \A i \in DOMAIN cube.measures : AllFound(ColRefs(dm, cube.measures[i]))

\* get_flat_table_columns: the dimensions, then what measures need besides.
FlatTableColumns(dm, cube) ==
    FoldLeft(AddNew, DimensionColumns(dm, cube),
             FlattenSeq([i \in DOMAIN cube.measures |-> ColRefs(dm, cube.measures[i])]))

\* RowKeyDesc::build_row_key: the first column has the highest bit.
BitIndex(rowkey, i) == Len(rowkey) - i

RowKeyInit(dm, cube) == Resolves(dm, cube.rowkey)
RowKeyColumns(dm, cube) == FindColumns(dm, cube.rowkey)

\* column_map_: the first description of a column stays.
ColumnBitIndex(rowkey, col) == BitIndex(rowkey, Min({i \in DOMAIN rowkey : rowkey[i] = col}))

\* A mutant of MaskOf: a column counts by its place, not by its bit index.
MaskOf_Places(dm, rowkey, mentions) ==
    {i - 1 : i \in {i \in DOMAIN rowkey : rowkey[i] \in Range(FindColumns(dm, mentions))}}

\* build_partial_cube_full_mask and build_mandatory_column_mask, as sets.
MaskOf(dm, rowkey, mentions) ==
    {ColumnBitIndex(rowkey, col) : col \in Range(FindColumns(dm, mentions))}

\* AggregationGroup::init: a column outside the row key has no description.
GroupsInit(dm, cube) ==
    \A i \in DOMAIN cube.groups :
        /\ cube.groups[i].includes # <<>>
        /\ Range(FindColumns(dm, cube.groups[i].includes \o cube.groups[i].mandatory_dims))
              \subseteq Range(RowKeyColumns(dm, cube))

Groups(dm, cube) ==
    LET rowkey == RowKeyColumns(dm, cube)
    IN  [i \in DOMAIN cube.groups |->
            [full      |-> MaskOf(dm, rowkey, cube.groups[i].includes),
             mandatory |-> MaskOf(dm, rowkey, cube.groups[i].mandatory_dims)]]

\* Cuboid::translated_id_to_columns and Cuboid::to_cuboid_id.
IdToColumns(rowkey, id) ==
    FlattenSeq([i \in DOMAIN rowkey |-> IF BitIndex(rowkey, i) \in id THEN <<rowkey[i]>> ELSE <<>>])

ToCuboidId(rowkey, columns) == {ColumnBitIndex(rowkey, col) : col \in columns}
=============================================================================
