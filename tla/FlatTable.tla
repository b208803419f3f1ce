----------------------------- MODULE FlatTable ------------------------------
(***************************************************************************)
(* From a row of the flat table to the strings of its measures, and the    *)
(* aggregators that combine them: the ORC printer, the table readers' cut, *)
(* the part of BaseCuboidEncoder that picks columns, and                   *)
(* MeasureAggregators.  A cell is a number, Empty for the empty string or  *)
(* Null for what a NULL is printed as; a row that is NULL as a whole is    *)
(* given as Null, and a type as its name and what is in its parentheses.   *)
(***************************************************************************)
EXTENDS Encodings

CONSTANTS
    Columns,        \* get_flat_table_columns()
    Measures,       \* get_measures(): [expression, return_type, parameters]
    Precision,      \* how many units of a decimal cell are 0.000001
    ExactBelow,     \* numbers that doubles have to within half a unit: 2^51
    Empty, Null

\* to_string never has to round a half.
ASSUME PrecisionAssumption ==
    Precision \in Nat /\ Precision % 2 = 1 /\ ExactBelow \in Nat \ {0}

\* FunctionDesc: a function has at least one parameter, init finds the column of
\* each in the model, and the value of a constant is a number a long holds.
ASSUME MeasureAssumption ==
    /\ Columns \in Seq(Range(Columns)) /\ Measures \in Seq(Range(Measures))
    /\ \A m \in Range(Measures) :
         /\ m.parameters \in Seq(Range(m.parameters)) /\ m.parameters # <<>>
         /\ \A p \in Range(m.parameters) :
              IF p.type = "column" THEN p.value \in Range(Columns) ELSE p.value \in Int /\ Signed(p.value, LongLength) = p.value

IsNumber(cell) == cell \notin {Empty, Null}

\* HDFSColumnPrinter::printRow: the fields, which are joined by a tab.
PrintRow(row) == IF row = Null THEN <<Null>> ELSE row

\* cut, of both readers: strtok_r passes over empty fields.
Cut(line) == FlattenSeq([i \in DOMAIN line |-> IF line[i] = Empty THEN <<>> ELSE <<line[i]>>])

\* read_data, of both readers: what get_data returns of the lines.
RawData(lines) == [i \in DOMAIN lines |-> Cut(lines[i])]

\* Table::get_column_idx.
ColumnIdx(col) == CHOOSE i \in DOMAIN Columns : Columns[i] = col

\* The columns a row must have for the encoder to read it: get_string_value
\* passes over those of a COUNT.
ReadBy(measure) ==
    IF measure.expression = "COUNT" THEN {}
    ELSE {ColumnIdx(p.value) : p \in {p \in Range(measure.parameters) : p.type = "column"}}

\* get_input_to_measure.
InputToMeasure(measure, row) ==
    [i \in DOMAIN measure.parameters |->
        LET parameter == measure.parameters[i]
        IN  CASE measure.expression = "COUNT" -> 1
              [] measure.expression # "COUNT" /\ parameter.type = "column" -> row[ColumnIdx(parameter.value)]
              [] OTHER -> parameter.value]

\* get_string_value: the inputs with a colon between them.
StringValue(measure, row) ==
    LET input_to_measure == InputToMeasure(measure, row)
    IN  [k \in 1 .. 2 * Len(input_to_measure) - 1 |->
            IF k % 2 = 1 THEN input_to_measure[k \div 2 + 1] ELSE ":"]

\* get_string_values.
StringValues(row) == [i \in DOMAIN Measures |-> StringValue(Measures[i], row)]

-----------------------------------------------------------------------------
\* DataType: "int" is in neither family.
IntegerFamily == {"tinyint", "smallint", "integer", "bigint", "int4", "long8"}
NumberFamily == IntegerFamily \cup {"float", "double", "decimal", "real", "numeric"}

\* DataType's constructor: precision and scale are taken off a decimal only.
TypeName(data_type) == IF data_type[1] = "decimal" THEN <<"decimal">> ELSE data_type

\* is_integer_family and is_number_family.
InFamily(family, data_type) == TypeName(data_type) \in {<<name>> : name \in family}

\* A mutant of NewAggregator: COUNT is not added up.
NewAggregator_SumOnly(measure) ==
    IF measure.expression # "SUM" \/ ~InFamily(NumberFamily, measure.return_type) THEN "none"
    ELSE IF InFamily(IntegerFamily, measure.return_type) THEN "long" ELSE "double"

\* A mutant of NewAggregator: what is no count is added up.
NewAggregator_AnySum(measure) ==
    IF ~InFamily(NumberFamily, measure.return_type) THEN "none"
    ELSE IF InFamily(IntegerFamily, measure.return_type) THEN "long" ELSE "double"

\* BasicMeasureType::new_aggregator; "none" is the base class, and what MAX and
\* MIN get.  The one for decimals does what the one for doubles does.
NewAggregator(measure) ==
    IF measure.expression \notin {"COUNT", "SUM"} \/ ~InFamily(NumberFamily, measure.return_type)
    THEN "none"
    ELSE IF InFamily(IntegerFamily, measure.return_type) THEN "long" ELSE "double"

\* MeasureAggregators' constructor.
Aggregators == [i \in DOMAIN Measures |-> NewAggregator(Measures[i])]

\* A mutant of DoubleToString: the digits after the sixth are cut off.
DoubleToString_CutsOff(x) == (x \div Precision) * Precision

\* std::to_string of a double keeps six digits after the point; the double is
\* given as the whole number of units next to it.
DoubleToString(x) == ((x + Precision \div 2) \div Precision) * Precision

Magnitude(x) == IF x >= 0 THEN x ELSE -x

\* The sum of two doubles: stod of either and the addition keep 53 bits, which
\* is exact enough for six digits only while the numbers are small.
DoubleSums(a, b) ==
    LET error == (Magnitude(a) + Magnitude(b)) \div ExactBelow
    IN  {a + b + e : e \in -error .. error}

\* aggregate, of one measure: the strings it may leave.  stoll and stod read up
\* to the first colon.  A long long that overflows, which C++ leaves undefined,
\* wraps: two numbers read from strings leave a compiler nothing but to add.
AggregateOne(aggregator, val, inc) ==
    CASE aggregator = "none"   -> {val}
      [] aggregator = "long"   -> {<<Signed(val[1] + inc[1], LongLength)>>}
      [] aggregator = "double" -> {<<DoubleToString(sum)>> : sum \in DoubleSums(val[1], inc[1])}

\* MeasureAggregators::aggregate, and when stoll or stod throws in it.
Aggregate(val, inc) ==
    LET Results(i) == AggregateOne(Aggregators[i], val[i], inc[i])
    IN  {results \in [DOMAIN Measures -> UNION {Results(i) : i \in DOMAIN Measures}] :
            \A i \in DOMAIN Measures : results[i] \in Results(i)}
Aggregates(val, inc) ==
    \A i \in DOMAIN Measures :
        Aggregators[i] # "none" => IsNumber(val[i][1]) /\ IsNumber(inc[i][1])
=============================================================================
