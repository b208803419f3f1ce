--------------------------- MODULE CuboidRecords ----------------------------
(***************************************************************************)
(* The records of the cube as their bytes and strings: RowKeyEncoder and   *)
(* BaseCuboidEncoder make them of the rows, CuboidStringCombiner combines  *)
(* those with the same key, two at a time and in any order, and            *)
(* RowKeySplitter and NDCuboidBuilder make the keys of the next level.     *)
(* Where the records are, and which worker waits for which, is in          *)
(* CubingByLayer; here one worker has them all.                            *)
(***************************************************************************)
EXTENDS Cuboid, FlatTable

CONSTANTS
    Tables,         \* the flat tables there may be, as sequences of rows
    RowKeyColumns,  \* the columns of the row key
    Encoding,       \* [Bit -> Seq]: the encoding of each, split at its colons
    Spanning,       \* [CuboidId -> SUBSET CuboidId]: get_spanning_cuboid
    TotalLevels     \* get_build_level()

\* BitIndex of CubeModel, a cuboid id in a long, and the CHECK in IntegerDimEnc's
\* constructor.
ASSUME RowKeyAssumption ==
    /\ RowKeyColumns \in Seq(Range(RowKeyColumns))
    /\ Bit = 0 .. Len(RowKeyColumns) - 1
    /\ Power(2, Len(RowKeyColumns)) <= Power(Radix, LongLength)
    /\ \A b \in Bit : Create(RowKeyColDesc(Encoding[b])).fixed_len \in 1 .. LongLength

\* A cuboid is computed from one other, as OneParent of CuboidLayers says.
ASSUME SpanningAssumption ==
    /\ Spanning \in [CuboidId -> SUBSET CuboidId]
    /\ \A c, d \in CuboidId : c # d => Spanning[c] \cap Spanning[d] = {}

\* The columns of integer sums have numbers an ORC column of integers may hold.
ASSUME TableAssumption ==
    \A t \in Tables :
        /\ t \in Seq(Range(t))
        /\ \A row \in Range(t) \ {Null} :
             /\ row \in Seq(Int \cup {Empty, Null})
             /\ \A m \in Range(Measures), i \in DOMAIN row :
                  /\ m.expression = "SUM" /\ m.return_type[1] \in IntegerFamily
                  /\ m.parameters[1].type = "column" /\ ColumnIdx(m.parameters[1].value) = i
                  /\ IsNumber(row[i])
                  => Signed(row[i], LongLength) = row[i]

VARIABLES
    table,      \* the rows in the table's files
    pc,         \* "base", "nd", "done" or "aborted"
    level,
    next_row,   \* the row build_base_cuboid takes next
    todo,       \* the records of the level before, not yet looked at
    parts,      \* what is in the channel: [key, measures, rows]
    split_buffers   \* the splitter's, kept from record to record

vars == <<table, pc, level, next_row, todo, parts, split_buffers>>

\* A cuboid's columns, as bits, in the order of get_columns().
BitsInOrder(c) ==
    [i \in 1 .. Cardinality(c) |-> CHOOSE b \in c : Cardinality({d \in c : d > b}) = i - 1]

\* get_dim_enc and get_column_length, of the encoder and of the splitter.
ColumnEncoding(b) == Create(RowKeyColDesc(Encoding[b]))
ColumnLength(b) == ColumnEncoding(b).fixed_len
BodyLength(c) == MapThenSumSet(ColumnLength, c)
FlatColumn(b) == ColumnIdx(RowKeyColumns[Len(RowKeyColumns) - b])

\* The cuboid id as a number.
IdNumber(c) == LET Weight(b) == Power(2, b) IN MapThenSumSet(Weight, c)

\* A mutant of Header: it is not filled.
Header_Empty(c) == WriteLong(0, LongLength)

\* fill_header, and parse_cuboid, which reads it back.
Header(c) == WriteLong(IdNumber(c), LongLength)

ParseCuboid(key) ==
    CHOOSE c \in CuboidId : IdNumber(c) \in ReadLong(SubSeq(key, 1, LongLength))

Init ==
    /\ table \in Tables
    /\ pc = "base" /\ level = 0 /\ next_row = 1
    /\ todo = {} /\ parts = {}
    /\ split_buffers = [i \in 1 .. Len(RowKeyColumns) + 2 |-> <<>>]

-----------------------------------------------------------------------------
\* RowKeyEncoder::encode: the keys that may be made of a cuboid's column values.
EncodeKey(c, values) ==
    LET Encoded(i) == Encode(ColumnEncoding(BitsInOrder(c)[i]), values[i])
        Bodies[i \in 0 .. Len(values)] ==
            IF i = 0 THEN {<<>>} ELSE {body \o bytes : body \in Bodies[i - 1], bytes \in Encoded(i)}
    IN  {Header(c) \o body : body \in Bodies[Len(values)]}

\* What the reader makes of the files.
FlatRows == RawData([x \in DOMAIN table |-> PrintRow(table[x])])

\* get_key: the row key columns of a row.
KeyValues(row) ==
    [i \in DOMAIN RowKeyColumns |-> row[FlatColumn(BitsInOrder(base_cuboid_id)[i])]]
KeysOf(row) == EncodeKey(base_cuboid_id, KeyValues(row))

\* The encoder reads no column the row does not have, and stoll no string that
\* is no number; strptime's result is not looked at.
Readable(row) ==
    /\ \A b \in Bit : /\ FlatColumn(b) <= Len(row)
                      /\ IsNumber(row[FlatColumn(b)]) \/ ColumnEncoding(b).name = "date"
    /\ \A i \in DOMAIN Measures : \A idx \in ReadBy(Measures[i]) : idx <= Len(row)

\* build_base_cuboid pushes a row, one whose date is no date with a date nobody
\* has set.  A row whose integers in the key are no numbers ends the process; so
\* does, in this model, one that is shorter and read beyond its end.
PushRow ==
    LET row == FlatRows[next_row]
    IN  /\ pc = "base" /\ next_row <= Len(table)
        /\ next_row' = next_row + 1
        /\ IF Readable(row)
           THEN /\ \E key \in KeysOf(row) :
                     parts' = parts \cup {[key |-> key, measures |-> StringValues(row), rows |-> {next_row}]}
                /\ UNCHANGED pc
           ELSE pc' = "aborted" /\ UNCHANGED parts
        /\ UNCHANGED <<table, level, todo, split_buffers>>

\* CuboidStringCombiner::combine.
Combine(val, inc) ==
    /\ pc \in {"base", "nd"}
    /\ val.key = inc.key /\ val # inc
    /\ IF Aggregates(val.measures, inc.measures)
       THEN /\ \E measures \in Aggregate(val.measures, inc.measures) :
                  parts' = (parts \ {val, inc}) \cup
                              {[key |-> val.key, measures |-> measures, rows |-> val.rows \cup inc.rows]}
            /\ UNCHANGED pc
       ELSE pc' = "aborted" /\ UNCHANGED parts
    /\ UNCHANGED <<table, level, next_row, todo, split_buffers>>

\* ByteArray; what KeyMeansRows says of a key's length is what its CHECKs test.
ByteArray(bytes, offset, length) == SubSeq(bytes, offset + 1, offset + length)

\* split: the buffers of the key's columns are filled, the others keep what they
\* had.
Split(key) ==
    LET columns == BitsInOrder(ParseCuboid(key))
        Offset[i \in 0 .. Len(columns)] ==
            IF i = 0 THEN LongLength ELSE Offset[i - 1] + ColumnLength(columns[i])
    IN  [i \in DOMAIN split_buffers |->
            CASE i = 1 -> ByteArray(key, 0, LongLength)
              [] i - 1 \in DOMAIN columns ->
                    ByteArray(key, Offset[i - 2], ColumnLength(columns[i - 1]))
              [] OTHER -> split_buffers[i]]

\* A mutant of BufferIndex: only the columns of the child are counted.
BufferIndex_OfChild(parent, child, b) == 1 + Cardinality({d \in child : d >= b})

\* Where build_key_internal takes a column from: `index' skips the cuboid id and
\* counts the parent's columns.
BufferIndex(parent, child, b) == 1 + Cardinality({d \in parent : d >= b})

\* build_key: the child's columns behind its header, zeros where none is copied.
BuildKey(buffers, parent, child) ==
    LET copied == FlattenSeq([i \in 1 .. Cardinality(BitsLookedAt(parent) \cap child) |->
                      buffers[BufferIndex(parent, child, BitsInOrder(BitsLookedAt(parent) \cap child)[i])]])
    IN  Header(child) \o
            [i \in 1 .. BodyLength(child) |-> IF i <= Len(copied) THEN copied[i] ELSE 0]

\* build_nd_cuboid's flatmap, for a record: every cuboid computed from its own
\* is pushed the same measures.
Flatmap(record) ==
    LET parent == ParseCuboid(record.key)
    IN  /\ pc = "nd"
        /\ todo' = todo \ {record}
        /\ IF Spanning[parent] = {}
           THEN UNCHANGED <<parts, split_buffers>>
           ELSE /\ split_buffers' = Split(record.key)
                /\ parts' = parts \cup {[record EXCEPT !.key = BuildKey(Split(record.key), parent, child)] :
                                           child \in Spanning[parent]}
        /\ UNCHANGED <<table, pc, level, next_row>>

\* Everything is pushed, and the channel has combined all records with the same
\* key.
LevelBuilt ==
    /\ \/ pc = "base" /\ next_row > Len(table)
       \/ pc = "nd" /\ todo = {}
    /\ \A p, q \in parts : p.key = q.key => p = q

\* The records are the source of the next level, or the last of the cube.
EndLevel ==
    /\ LevelBuilt
    /\ IF level = TotalLevels
       THEN pc' = "done" /\ UNCHANGED <<level, todo, parts>>
       ELSE /\ pc' = "nd" /\ level' = level + 1
            /\ todo' = parts
            /\ parts' = {}
    /\ UNCHANGED <<table, next_row, split_buffers>>

\* Every other step comes closer to this one.
Terminated == pc \in {"done", "aborted"} /\ UNCHANGED vars

Next ==
    \/ PushRow
    \/ \E val, inc \in parts : Combine(val, inc)
    \/ \E record \in todo : Flatmap(record)
    \/ EndLevel
    \/ Terminated

Spec == Init /\ [][Next]_vars

-----------------------------------------------------------------------------
\* The rows that have a number in every field, and the columns by name.
Proper ==
    {x \in DOMAIN table : table[x] # Null /\ \A i \in DOMAIN table[x] : IsNumber(table[x][i])}
ValueOf(x, b) == table[x][FlatColumn(b)]
Fits(x, c) == x \in Proper /\ \A b \in c : HasBytes(ColumnEncoding(b), ValueOf(x, b))

\* A record's key, whichever way it came about, has the values of each of its
\* rows in its columns' places, and NULL for none of them, for the values that
\* have bytes of their own.
KeyMeansRows ==
    \A p \in parts \cup todo :
        LET c == ParseCuboid(p.key)
            columns == BitsInOrder(c)
            Place(i) == MapThenSumSet(ColumnLength, {columns[j] : j \in 1 .. i - 1})
        IN  /\ Len(p.key) = LongLength + BodyLength(c)
            /\ \A x \in p.rows : \A i \in DOMAIN columns :
                 Fits(x, {columns[i]}) =>
                     LET from == LongLength + Place(i)
                         bytes == SubSeq(p.key, from + 1, from + ColumnLength(columns[i]))
                     IN  /\ StandsFor(ColumnEncoding(columns[i]), bytes, ValueOf(x, columns[i]))
                         /\ ~IsNull(bytes)

\* The rows of a cuboid with the same values as x.
Group(x, c) == {y \in DOMAIN table : Fits(y, c) /\ \A b \in c : ValueOf(y, b) = ValueOf(x, b)}

CuboidsOf[i \in Nat] ==
    IF i = 0 THEN {base_cuboid_id} ELSE UNION {Spanning[c] : c \in CuboidsOf[i - 1]}

\* When a level is built, each row is in one record of each of its cuboids, with
\* all rows of its group and no other row whose values fit.
GroupsAreWhole ==
    LevelBuilt =>
        \A c \in CuboidsOf[level] : \A x \in DOMAIN table :
            LET holding == {p \in parts : ParseCuboid(p.key) = c /\ x \in p.rows}
            IN  /\ Cardinality(holding) = 1
                /\ Fits(x, c) =>
                     \A p \in holding : {y \in p.rows : Fits(y, c)} = Group(x, c)

\* What a row gives a measure.
Input(measure, x) ==
    LET parameter == Head(measure.parameters)
    IN  IF parameter.type = "column" THEN table[x][ColumnIdx(parameter.value)] ELSE parameter.value
Total(measure, rows) == LET Of(x) == Input(measure, x) IN MapThenSumSet(Of, rows)

\* However the rows were combined, level by level, the count is their number and
\* a sum of integers their sum, as far as a long long holds it.
CountsAndSums ==
    \A p \in parts \cup todo : p.rows \subseteq Proper =>
        \A i \in DOMAIN Measures :
            LET m == Measures[i]
            IN  m.return_type[1] \in IntegerFamily =>
                    /\ m.expression = "COUNT" => p.measures[i][1] = Signed(Cardinality(p.rows), LongLength)
                    /\ m.expression = "SUM" => p.measures[i][1] = Signed(Total(m, p.rows), LongLength)

\* So many rows with values no larger than the largest of these, and with what
\* printing may add to each, stay among the numbers that doubles are exact for.
SmallForDoubles(measure, rows) ==
    \E x \in rows :
        /\ \A y \in rows : Magnitude(Input(measure, y)) <= Magnitude(Input(measure, x))
        /\ Cardinality(rows) * (Magnitude(Input(measure, x)) + Precision \div 2) < ExactBelow

\* While the numbers are small, a sum of decimals is off by no more than half of
\* the sixth digit for each time two strings were added.  Larger ones are as
\* exact as 53 bits are, and the order of the additions tells.
SumsWithinRounding ==
    \A p \in parts \cup todo : p.rows \subseteq Proper =>
        \A i \in DOMAIN Measures :
            LET m == Measures[i]
                most == (Cardinality(p.rows) - 1) * (Precision \div 2)
            IN  /\ m.expression = "SUM" /\ m.return_type[1] \in NumberFamily \ IntegerFamily
                /\ SmallForDoubles(m, p.rows)
                => p.measures[i][1] - Total(m, p.rows) \in -most .. most

\* A maximum, for which there is no aggregator, is at least the string of one of
\* the record's own rows; which one depends on the order.
MaxIsOfARow ==
    \A p \in parts \cup todo : p.rows \subseteq Proper =>
        \A i \in DOMAIN Measures :
            Measures[i].expression = "MAX" =>
                \E x \in p.rows : p.measures[i] = StringValues(table[x])[i]
=============================================================================
