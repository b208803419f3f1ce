-------------------------- MODULE MCCuboidRecords ---------------------------
(***************************************************************************)
(* Instances of CuboidRecords: a date, an integer of one byte and a column *)
(* with an encoding that is not supported as the row key, a count, two     *)
(* sums and a maximum as measures.                                         *)
(***************************************************************************)
EXTENDS CuboidRecords

\* Nine bits of sums, dates up to day 42, integers -1 .. 1 in a byte.
Bits == 0 .. 2
MCColumns == <<"d", "a", "b", "p", "q">>
MCRowKeyColumns == <<"d", "a", "b">>
MCEncoding == <<<<"integer", 1>>, <<"date">>>> @@ [b \in {0} |-> <<"fixed_length", 2>>]

Column(c) == [type |-> "column", value |-> c]
MCMeasures ==
    <<[expression |-> "COUNT", return_type |-> <<"bigint">>, parameters |-> <<[type |-> "constant", value |-> 1]>>],
      [expression |-> "SUM", return_type |-> <<"bigint">>, parameters |-> <<Column("p")>>],
      [expression |-> "SUM", return_type |-> <<"decimal", 19, 4>>, parameters |-> <<Column("q")>>],
      [expression |-> "MAX", return_type |-> <<"bigint">>, parameters |-> <<Column("p"), Column("q")>>]>>

\* The mandatory column is the date.
MCSpanning ==
    [c \in SUBSET Bits |->
        CASE c = {0, 1, 2} -> {{1, 2}, {0, 2}}
          [] c = {1, 2}    -> {{2}}
          [] OTHER         -> {}]

\* mktime fails, or finds a day that rows have, or another.
MCUnsetTimes == {-1, 5, 30}

\* Sums that do not fit and rounding that depends on the order; values at and
\* over the bounds of a byte, and decimals too large for doubles; an empty and a
\* NULL field; NULL for a date and for an integer of the key; a NULL row.
MCTables ==
    {<< <<1, 1, 100, 300, 1>>, <<1, 1, 100, 300, 1>>, <<1, 1, 100, 7, 1>>, <<1, 0, 100, -9, 2>>,
        <<2, 0, 100, 4, 1>> >>,
     << <<41, -1, 1, 1, 4>>, <<41, 3, 1, 2, 5>>, <<41, 2, 1, 3, 7>>, <<0, -2, 1, 4, 8>>,
        <<41, -1, 130, 4, 8>> >>,
     << <<2, 1, 1, 5, 1>>, <<2, 1, Empty, 5, 1>> >>,
     << <<2, 1, 1, Null, 1>>, <<3, 1, 1, 5, 1>>, <<2, 0, 1, 5, 1>> >>,
     << <<2, 1, 1, 5, 1>>, <<Null, 1, 1, 6, 2>>, <<2, 1, 1, 5, 1>> >>,
     << <<2, Null, 1, 5, 1>>, <<2, 1, 1, 5, 1>> >>,
     << <<2, 1, 1, 5, 1>>, Null, <<2, 1, 1, 5, 1>> >>}
=============================================================================
