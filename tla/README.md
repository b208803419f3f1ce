# A verification project for Husky-Kylin

Husky-Kylin builds Apache Kylin cubes on Husky, a C++ framework in which a
master and several workers (threads of several processes) run the same job.
This directory holds TLA+ models of the parts of the job in which something can
go wrong that a unit test hardly reaches, the TLC configurations that check
them, and proofs checked by TLAPS.

Paths below are relative to the repository's root; `src/` alone is its source
directory.

## 1. The system

The job (`examples/cubing_by_layer.cpp`, `execute`, run by every worker) loads
the cube's metadata, turns the names in it into columns and masks, builds the
tree of cuboids, reads the flat table, and computes the cube layer by layer.

| Component | State | Operations | Interacts with |
|---|---|---|---|
| ORC block assigner (`src/husky-plugins/master/orc_assigner.*`), on the master | `fs_`, `files_dict_`: url to files with offsets, `finish_dict_`: url to a count | `master_setup_handler`, `master_main_handler`, `browse_hdfs`, `answer` | questions and answers over ZMQ |
| ORC reading (`src/table/orc_table_reader.hpp`, `src/husky-plugins/io/input/orc_*`), on each worker | the format's buffer, the splitter's current file, the table's rows | `read_data`, `next`, `fetch_block`, `read_by_batch` | asks the assigner; opens files |
| Parquet assigner and reading (`parquet_*` beside them) | offset, size and finish count per file | the same protocol, for local files and HDFS | the same |
| Metadata loading (`src/core-metadata/meta_loader.hpp`, `file_broadcast_inputformat.*`) | the files still to be read, a buffer | `get_cube_desc`, `get_model_desc`, `get_tables` | HDFS |
| Cube, model and table descriptions (`src/core-cube/model`, `src/core-metadata/metadata`) | parsed JSON | `init`, look-up of columns | used by everything below |
| Aggregation groups (`src/core-cube/model/aggregation_group.*`) | two masks | `is_on_tree`, `translate_to_on_tree_cuboid` | used by the scheduler |
| Cuboid scheduler (`src/core-cube/cuboid/cuboid_scheduler*.cpp`) | cuboids, parent to children, layers | `build_tree_bottom_up`, `get_spanning_cuboid`, `get_cuboids_by_layer`, `find_best_match_cuboid` | used by cubing |
| Tree cuboid scheduler (`tree_cuboid_scheduler.*`) | a tree with an index | `create_from_cuboids`, `find_best_match_cuboid` | the other implementation |
| Cube instance (`src/core-cube/cube_instance.*`) | the scheduler it has made | `init_cuboid_scheduler` | one of the two schedulers |
| Cubing (`src/algorithm/cubing_by_layer.cpp`) | records per level, a push-combined channel per level | `build_base_cuboid`, `build_nd_cuboid`, `save_to_hdfs` | Husky's channels; the scheduler |
| Row keys (`src/core-cube/kv`, `nd_cuboid_builder.hpp`, `src/utils`) | split buffers, encoders per cuboid | `encode`, `split`, `build_key` | used by cubing |
| Encodings (`src/core-metadata/dimension`) | a length | `encode`, `decode` | used by row keys |
| Measures (`src/core-metadata/measure`, `base_cuboid_encoder.hpp`, `src/table`) | the static aggregators, the rows' strings | `cut`, `get_string_values`, `combine`, `aggregate` | used by the channels |
| HDFS streams (`orc_hdfs_inputstream.hpp`, `parquet_hdfs_source.hpp`) | the open file, a buffer | `read`, `ReadAt` | used by the ORC and Parquet libraries |

What is hard, and what makes each part correct:

* ORC input. Workers ask in any order, read at their own pace, and nothing
  separates one table from the next. Every row must be read by one worker, once;
  every worker must be told that nothing is left; and nobody may leave a table
  while rows of it are still to be handed out. HDFS, listing, opening and reading
  may fail at any point.
* Parquet input. The same, with three maps that files and urls, local and remote,
  share: files are counted per question that passes over them, urls per worker.
  A row group must have one reader, no file may be dropped before its last row
  group is out, and every worker must be told.
* Metadata. Three directories are read through one input format that keeps its
  map of files and its buffer from one to the next; a file must be parsed whole,
  once, and by the load that asked for it. Each worker then resolves names on its
  own, and the workers exchange keys that mean the same to all of them only if
  they came to the same columns and masks.
* The scheduler. It is sequential, but its loops collect from the bottom up and
  use from the top down, over several overlapping groups: the cuboids must form a
  tree whose parents cover their children, the layers must hold all of them, and
  a request must find a cuboid that answers it.
* Cubing. Workers push, flush, wait and save level by level without a global
  barrier. Whatever is written must be a whole group, and everything must be
  written in the end. A record is combined in a buffer, on arrival, and again a
  level down, in any order.
* Row keys, encodings, measures. A value becomes a fixed number of bytes, a
  child's key is cut out of its parent's with bit arithmetic, and strings are
  combined by whatever aggregator a measure got. A column lost there merges groups
  silently, and so do two values with the same bytes; a sum must not depend on
  the order of the messages more than its type allows.
* HDFS streams. The libraries believe the buffer they are given.

`PROJECT.json` lists the hazards line by line with the properties that cover
them.

## 2. The modules

| Module | Models | Builds on |
|---|---|---|
| `OrcAssigner` | the master's handlers | |
| `OrcInput` | the workers' reading, composed with the master; properties, the inductive invariant | `OrcAssigner` |
| `RowDistribution` | what reading promises: each row taken once, none left at the end | |
| `OrcInputProofs` | proofs: rows read once, the counts, the refinement | `OrcInput` |
| `ParquetAssigner` | the Parquet master's handlers, for local files and HDFS | |
| `ParquetInput` | the workers' reading of Parquet, composed with the master; properties, the inductive invariants | `ParquetAssigner` |
| `ParquetInputProofs` | proofs about the assigner's answers and the workers | `ParquetInput`, `RecursionTheorems` |
| `HdfsStream` | the read loop of both HDFS adapters | |
| `MetaInput` | three loads of metadata through one input format; properties | |
| `CubeModel` | names to columns, columns to bits and masks (operators) | |
| `CubeSetup` | every worker from the first load to a cube with masks; properties | `MetaInput`, `CubeModel` |
| `CubeSetupProofs` | proofs about the loads, the columns and masks, and the workers' agreement | `CubeSetup`, `RecursionTheorems` |
| `Cuboid` | cuboid ids as sets of bits, the two orders on them, `number_of_leading_zeros` | |
| `CuboidScheduler` | `build_tree_bottom_up` step by step | `Cuboid` |
| `CuboidLayers` | layers and best match over the tree; properties | `CuboidScheduler` |
| `TreeCuboids` | the tree scheduler: `create_from_cuboids` step by step, best match, cached layers | `Cuboid` |
| `CubeInstance` | a cube with one of the two schedulers; properties of both | `CuboidLayers`, `TreeCuboids` |
| `TreeCuboidsProofs` | proofs about the order of cuboids and the tree scheduler | `TreeCuboids`, `RecursionTheorems` |
| `CubeInstanceProofs` | proofs about the scheduler by groups, and of both in a cube | `CubeInstance`, `RecursionTheorems`; `TreeCuboidsProofs` by INSTANCE |
| `RowKey` | which columns a built key holds | `Cuboid` |
| `CubingByLayer` | the cubing job on all workers; properties, the inductive invariant | `RowKey` |
| `CubingProofs` | proofs: levels in step, and that what is written is the cube | `CubingByLayer` |
| `CubeResult` | what cubing promises: the cube's records, each written once | |
| `Encodings` | integers and dates as bytes, and which encoding a column has (operators) | |
| `FlatTable` | rows to strings, aggregators (operators) | `Encodings` |
| `CuboidRecords` | the records' bytes and strings from the row to the last level; properties | `Cuboid`, `FlatTable` |
| `RecordsProofs` | proofs about encodings, keys, groups of rows, counts, sums and maxima | `CuboidRecords`, `RecursionTheorems` |
| `RecursionTheorems` | lemmas the proofs share: induction over the naturals, recursive functions, flattened and folded sequences, sums over sets, least and greatest | |
| `MCOrcInput`, `MCParquetInput`, `MCCubeSetup`, `MCCubeInstance`, `MCCubingByLayer`, `MCCuboidRecords` | instances for TLC | |

The parts meet where one leaves something to the next: `CubeSetup` ends with the
groups' masks, which are `CubeInstance`'s constant; its tree is the constant
`Spanning` of `CubingByLayer` and `CuboidRecords`. These two look at the same job
from two sides: `CubingByLayer` has many workers and opaque keys, `CuboidRecords`
has one worker and bytes. A composition of all of them in one state space would
multiply what does not interact.

### ORC input (`OrcAssigner`, `OrcInput`)

The master is one thread, so a handler is one action. `fs` is `fs_` ("unset"
before the setup handler, "null" when its three attempts failed). `files_dict`
and `finish_dict` are functions whose domain is the keys present; `FilesOf` is
the browse of a url that is not in `finish_dict_`, `AnswerBlock` and
`AnswerFinished` are the two ways `answer` returns when there is a file system.
Blocks are taken from the back of the vector, as `files.back()` does.

A worker is in one of these places: `next` (in `next()`), `waiting` (its question
is sent), `answered`, `done`, `crashed`. `NextRow` is `next()` with a buffered
row; `AskMaster`, `MasterMainHandler`, and one of `FetchNothing`, `FetchBlock` and
`OpenFails` are `fetch_block`. `load` is the index of the `read_data` call in
`Program`; each call has an input format of its own, so `LoadEnds` resets the
buffer. The socket between a worker and the master is a request and a reply,
lossless, so `pc` and `reply` are all of it.

`Faults` says which external calls may fail in an instance: "connect" (HDFS),
"browse" (an exception while listing: the entries so far stay), "open" (outside
the try block of `read_by_batch`: the worker's process ends), "read" (the rows
printed so far stay). `StripeEnd` is the external ORC reader's limit: one `next`
does not cross a stripe.

Left out: how a row is printed and cut into fields; the file name's trailing
zero byte; a worker's own HDFS connection.

### Parquet input (`ParquetAssigner`, `ParquetInput`)

`dicts` is the record of the three maps `file_size_`, `file_offset_` and
`finish_dict_`; `Enter`, `FinishUrl` and `CountFinished` are how a browse,
`finish_url` and `finish_dict_[...] += 1` change them. `BrowseLocal` and
`BrowseHdfs` are the two browses, `AnswerFile`, `AnswerDirectory` and `AnswerHdfs`
the ways `answer` and `answer_hdfs` come to an answer, `HandOut` and `Tell` the two
kinds of answer. `answer_hdfs` walks `file_size_` in the order of the names
(`PathOrder`) and does not look at the url, so a worker in one HDFS load may be
handed rows of another; `LoadsKeepApart` is therefore checked, and proved, for
programs with one HDFS url (`OneHdfsUrl`). `BrowseLocal` opens the directory's own
name instead of its files', which throws, so that no row of a local directory is
ever entered: in `parquet_faults` a directory contributes only files that another
load has entered.

A worker's places are those of ORC input. `Printed` is the splitter's `buffer_`,
which nothing clears: it grows with every row group, and `next` starts again at its
beginning. `EmptyLine` is what `read_by_row` prints when no column has a value
left. A row is printed column by column, so an exception may leave a piece of a line
without a newline: `torn` says that there is one. `NextPiece` is what `next` does at
that place: it finds no newline, returns the piece, and starts again at the beginning
of the buffer, as it asks for a new block only when the last newline it found was in the
buffer's last place. `got` is the rows each load was given; how often is not counted,
since the worker repeats rows to itself anyway. `Elsewhere` says that a file lives on the other kind of file system than the
url being loaded, in which case opening it ends the worker's process.

Left out: the columns of a row, the Parquet library, and a worker's own HDFS
connection.

### HDFS streams (`HdfsStream`)

Both adapters seek to a position and call `hdfsRead` until nothing remains.
`ReadBytes` is a call that gives `n` bytes, fewer than asked for perhaps, or none at
the end of the file; `ReadFails` is a call that returns -1, which the code adds to
`start` and takes from `remain` as it does with any number. `Return` is the test
behind the loop. Seeking and closing keep no state that the loop could disturb. The
ranges the libraries ask for lie in the file (`Init`).

### Metadata (`MetaInput`, `CubeModel`, `CubeSetup`)

`infmt[w]` is the state `FileBroadcastInputFormat` keeps: the map of files not yet
read, the size of the buffer, the open file with the place in it, and the bytes
read so far, each as its file and its place there. `SetInput`, `NoFileLeft`,
`OpenFile`, `Read`, `ReadFails` and `Fetched` follow `set_input`, `next` and
`fetch_file`; which file of the unordered map comes next, and how many bytes a call
gives, is open. What a file says is one value (`CubeJson`, `ModelJson`,
`TableJson`), so a chunk with all bytes of its file is read as that value and a
damaged one may end the process or be read as any. JSON arrays are sequences
(`JsonAssumption`), and `NoName` is the empty string the code compares names with.

`CubeModel` has no state: `TableNameMap`, `FindTable`, `FindColumn` are
`DataModelDesc`; `DimensionColumns`, `FlatTableColumns` are `CubeDesc`; `BitIndex`
and `ColumnBitIndex` are `RowKeyDesc`; `MaskOf` and `Groups` are
`AggregationGroup`. `NoTable` and `NoColumn` are a failed CHECK and a null pointer;
an operator `...Init` says whether the function of that name comes to its end. The
order in which a name without a table is looked for is that of the addresses of
the tables (`Orders` in `CubeSetup`), each worker's own.

`CubeSetup` gives each worker the sequence of `execute`: the cube's constructor as
soon as its JSON is there, then model and tables, whose loads are two arguments
of one call and happen in either order (`calls`), then `InitModel`, `InitColumns`
and `InitRowKey`, each of which may end the process ("aborted").

Left out: parsing of JSON, names and data types that nothing reads,
`normalize_column_names`, which is never called.

### The cuboid scheduler (`Cuboid`, `CuboidScheduler`, `CuboidLayers`)

A mask is the set of its bits. `IdLess` is the order of the numbers (which
`std::set` iterates in), `CuboidSelectLess` the comparator of the code. An
aggregation group is its two masks; normal dimensions are single bits, since
joints and hierarchies are not supported yet. The tree is built in phases:
`StartAtTheLowest`, `CollectLayer` (one round of the first loop), `StartScan`,
`Scan` (one round of the second), `FinishTree`. The deque is an ordered set (what
it was filled with) and a sequence (what was pushed after). `ParentOnPromise` and
`ValidAncestor`, loops and recursion in the code, are recursive functions with the
number of steps as argument: `parent_forward`, and the number of columns, which
bounds any chain of growing cuboids.

`FirstLayer` and `NextLayer` are `get_cuboids_by_layer`. `FindBestMatchCuboid` is
`find_best_match_cuboid`, with `{}` where the code throws. `ProperGroups` are the
groups that a cube should have: a group has dimensions, and its mandatory ones are
among them.

### The tree scheduler (`TreeCuboids`)

The list is a set, since `create_from_cuboids` sorts it and `add_cuboid` passes
over what is there already. `nodes` gives each tree node its parent and level,
`index` is the domain of `index_`. `AddCuboid` is one round of the loop,
`FindBestParent` the recursion of `do_find_best_parent` as a recursive function
over the nodes, empty for the null pointer. `GetCuboidsByLayer` fills
`cuboids_by_layer_` when it is empty; phase "aborted" is a failed `CHECK`, which is
what happens to a scheduler that was never initialised. `MaxInits` bounds the
calls of `init_cuboid_tree`.

`CubeInstance` has the variables of both schedulers, of which `tree_scheduler`
chooses the one that moves. `init_cuboid_scheduler` of the scheduler by groups does
nothing, since its constructor has built the tree.

### Cubing (`RowKey`, `CubingByLayer`)

A key is a cuboid and the values of its columns. `BuildKey` keeps the columns that
`build_key_internal` looks at and leaves the rest `Blank` (zero bytes). Which it
looks at is computed as in the code, from `NumberOfLeadingZeros` of a 64-bit
number given as the set of its bits, through a signed 32-bit half.

`Push` is one record of the loop over the source (table rows at level 0, the
records of the level before afterwards), `Flush` is `out()`, `Receive` and
`AllHeard` are what `list_execute` does with its in-channel before it visits the
objects, `Save` is the visit and `save_to_hdfs`, after which the records are the
next level's source. Records are pushed in any order and parts arrive in any
order. The initial states are all the ways reading may have distributed the rows.

A record's measures are represented by how often each row went into them. That
stands for aggregators that add up (SUM, COUNT over integers): their value is
determined by it. What the other aggregators do is in `FlatTable`.

The tree is a constant here; `TreeAssumption` is what the run `schedulers` shows of
it.

Left out: the bytes of values, the text of the output, the paths (the level is
kept), Husky's combining between threads of one process before sending (it merges
parts and makes threads wait, both of which the model's steps cover).

### Encodings, measures and records (`Encodings`, `FlatTable`, `CuboidRecords`)

`Encodings` has the code's arithmetic with a byte of `Radix` values, a long of
`LongLength` bytes and an int of `IntLength`: `WriteLong` takes the low bytes,
`ReadLong` gives every number that the garbage in its uninitialised variable can
make, `Signed` is what the conversions between signed and unsigned do. A date is
its day number; `EpochTimes` are the seconds `mktime` may return for it, with and
without daylight saving time, as nothing sets `tm_isdst`. For a value that is no
date, `strptime` leaves the `tm` as it was, which is not set, so that any of
`UnsetTimes` may come out: the row gets a date, and the job goes on.

`FlatTable` takes a row to the strings of its measures: `PrintRow`, `Cut` (which
passes over empty fields), `InputToMeasure`, `StringValue`; and `NewAggregator`,
`Aggregate` are the aggregators. The assumptions on measures, tables and `Spanning` are
what `FunctionDesc::init`, an ORC column and the schedulers leave. A string is the
sequence of what is between its colons, a decimal a number of units of which
`Precision` make 0.000001. `Aggregate` gives the set of the strings that two may
become, since a double is modelled by its error: while the numbers are below
`ExactBelow` units the sum is exact to within half a unit (2^51 units in the code, as
a double has 53 bits), and past that it may be off by more, the larger the more
(`DoubleSums`). A `long long` wraps; C++ leaves its overflow undefined, but the compiler
knows nothing of numbers that are read from strings, and adds.

`CuboidRecords` runs one worker over a table: `PushRow` is `build_base_cuboid` for
a row, `Combine` one call of the combiner for any two records with the same key,
`Flatmap` `build_nd_cuboid` for a record, `EndLevel` the barrier. `split_buffers` is
the splitter's state, which stays from record to record; `BuildKey` copies from it
by `BufferIndex`. A row key column of integers that holds no number ends the process
(`stoll` throws); so does, in the model, a row that is too short, which the code reads
past its end.

## 3. The runs

| Run | Question | Result |
|---|---|---|
| `orc_loads` | three workers, two tables, three files, batches of two rows, no file that ends with a batch, no failures: nobody leaves early, the counts until the last worker is told, a refinement of `RowDistribution` | holds |
| `orc_faults` | all four failures, an empty file, a file that ends with a batch, stripes that cut batches: no row twice, everybody ends; the inductive invariant `IndInv` | holds |
| `orc_boundary` | `Complete` with two files that end with a batch | violated |
| `parquet_hdfs` | two workers, two HDFS directories, three files, five row groups: one reader per row, no row group lost, the counts, a refinement of `RowDistribution` | holds |
| `parquet_faults` | all four failures, a local file, a local directory and an HDFS directory in one program: the inductive invariant `IndInv` (the maps stay consistent), loads keep apart, everybody ends, has crashed, or goes round a buffer that ends in a piece of a line (`EndsUnlessTorn`) | holds |
| `parquet_buffer` | what a worker reads is the row group it asked for | violated |
| `read_errors` | a read that failed throws | violated |
| `setup` | two workers, one with failing listings, opens and reads, six sets of files: what is parsed, whether the workers agree, whether masks mean the columns named | holds |
| `schedulers` | every vector of up to two groups over four columns, and every list of up to four cuboids, and every list over three columns, with the base cuboid: a tree, its layers, best match for requests that all groups cover | holds |
| `cubing` | three workers, four rows, three columns of which one is mandatory, three layers: the inductive invariant `IndInv`, levels in step, a refinement of `CubeResult`, the whole cube in the end | holds |
| `cubing_columns` | keys keep their columns, for a row key of two columns | violated |
| `records` | seven tables, a date and two integers as row key, a count, two sums and a maximum, three layers, any order of combining: keys, groups, measures | holds |

The violated runs are findings, each against a comment, an assertion or a doc
of the repository (`PROJECT.json`, "findings"):

1. `orc_assigner.cpp:171` compares `file.offset > file.num_of_rows`: after the last
   batch of a file with a multiple of the batch size (or of no rows) the file stays,
   and the next worker is handed an empty batch and stops loading. When that happens
   to all workers, the files listed before are never read. `orc_loads` therefore
   uses files that do not end with a batch; `LeavesAtTheEnd`, `FinishCounts` and
   the refinement hold for those.
2. `read_by_row` appends to a buffer that nothing clears, so the second row group a
   worker fetches comes with the rows of the first before it.
3. `number_of_leading_zeros` is two too large for an odd highest bit. For such a
   parent the two lowest columns of the row key are missing from all its children's
   keys. `cubing` and `records` use three columns, with the highest one mandatory:
   its index, 2, is even, so that no key is affected.
4. The -1 of a failed `hdfsRead` is added up like a number of bytes; the loop ends
   only when nothing remains, so the tests behind it, which are to throw, never do.

The models show more behaviour of this kind, which no run is spent on:

* The comment in `ORCBlockAssigner::answer` (`orc_assigner.cpp:147-149`) says that a
  url is not in `finish_dict_` "either when the begining of the file or all the workers
  has finished reading this file or directory". The code never erases it, so a program
  that loads a table twice gets nothing the second time. `FinishCounts` speaks of the
  count until the last worker is told, and leaves open what is there afterwards. The
  Parquet assigner erases the url, but counts a worker that is two loads ahead twice.
  The programs of the runs name each url once.
* A group that does not cover a request makes the candidate 0 the least one. Unless the
  request is itself a cuboid of the cube, `find_best_match_cuboid` then throws, though
  another group or the base cuboid covers it, against "Returns a valid cuboid that best
  matches the request cuboid" (`cuboid_scheduler.hpp:43`, `cuboid_scheduler_base.hpp:44`).
  `BestMatchIsBest` is about requests that all groups cover.
* Where reading a Parquet row group fails in the middle of a row, the splitter's buffer
  ends in a piece of a line, against "buffer_ got from the PARQUET_splitter must be '\n'
  seperated lines" (`parquet_inputformat.cpp:51`), and `next` goes round its lines for
  ever. `EndsUnlessTorn` says that nothing else keeps a worker from its end.
* `get_on_tree_parents` returns at the first group whose full mask the child is, so
  cuboids that only later groups reach from it are not built (`OnlyOnTree` says that
  what is built is asked for, and that a group's mandatory dimensions are a cuboid; not
  that all of a group's tree is built).
* A mandatory dimension outside `includes`, which nothing refuses, makes
  `CHECK_EQ(total_num, size)` abort; `ProperGroups` excludes it.
* The browse of a local Parquet directory enters no file.
* `TreeCuboidScheduler` dereferences null for a request its root does not cover, when
  the list came without the base cuboid; and a second `init_cuboid_tree` leaves the
  layers of the first.
* An empty file of metadata ends its load, and the files behind it are parsed by the
  next load; a second empty file among these ends that load in turn, whose own
  files are then parsed by the one after it. `ParsesItsFiles` says that nothing but an
  empty file, or one whose reading failed, does this (`LeftOver`).
* A column named without a table that is in two tables is found in the one whose
  address is smaller, so two workers may disagree. So they may where two tables have
  one id, of which the first that is read counts, or where an empty file leaves some
  to a later load. `WorkersAgree` says that nothing else makes them (`Unambiguous`,
  `OneOfEach`).
* MAX and MIN keep the first value that arrives; `MaxIsOfARow` is what is left of
  them.
* A value over an integer column's range has the bytes of another, one more than
  the largest those of NULL; `KeyMeansRows` and `GroupsAreWhole` say that the rows
  beside it are not affected.
* A NULL in a date column of the row key is encoded as some date, the one that an unset
  `tm` happens to hold, and the row joins that date's group. The properties speak of the
  rows beside it.
* Sums of decimals are sums of doubles: past 2^51 millionths, about 2*10^9, an addition
  may be off by more than half of the sixth digit, and the order tells. The code has a
  TODO about it (`sum_aggregators.hpp:30`). `SumsWithinRounding` is about sums that stay
  below (`SmallForDoubles`).
* Where daylight saving time changes the day in UTC, workers may encode a date
  differently; `ZoneAssumption` excludes these zones.
* The last code of a date is written as the bytes of NULL; so, as with integers, its
  day does not count among the values that have bytes of their own (`HasBytes`). The
  proof found this; no date of the instance comes that far.

Bounds, and why they are enough. Two urls and three files give a worker in the
second table while another is in the first, files of one block and of several,
and a url with one file; batches of two rows make offsets differ from row
numbers. Three workers add to the order of two questions the case that two are
in different loads while the third has an answer in hand; the runs with failures
and those of Parquet have two workers, which keeps them within minutes. In Parquet
two directories of two files and one give a worker in the next url while another
is in this one, and files of two row groups an offset between the first and the
last.

In `setup` the file sets are the cases that differ in the code: one cube, model and
two tables; a model with the same lookup twice; an empty file beside the cube; a
table in mixed case; no table; two empty files beside the cube, the second of which
ends the next load. A file of two bytes is enough for a read in two
parts, one that fails between them, and a buffer that is too small. Only one
worker's calls fail: what two workers share is only the files.

Four columns with two groups give every overlap of two groups (nested, crossing,
equal, disjoint) with every choice of mandatory columns; `parent_forward` is 0 (the
default is 3): a missing parent is then padded in at once, so that `NoPadding` says
the most: the first parent looked up is always among the cuboids, and no larger
value can make a difference. Lists of up to four cuboids over four columns, and
all lists over three, have trees of depth three and nodes with up to three possible
parents. `MaxInits` is 1: what a second call leaves is described above.

In cubing four rows over three columns share groups of size one to four in the
cuboids of the tree, two of them share a key already at level 0, and three layers
give messages of two levels at the same time.

In `records` `ExactBelow` is 20 units, so that the tables have sums on either side of
it, and an unset `tm` is one of three times: the -1 of a `mktime` that fails, a day that
other rows have, and one that none has. A byte has four values and a long five bytes: a sum wraps within the
tables' numbers, an integer of one byte holds -1 .. 1, and a date, as in the code,
has one byte less than an int. The first table sums and rounds in
every order, the second has values at and over the bounds and decimals too large for
doubles, the third an empty field, the fourth a NULL field, the fifth a NULL date
beside two rows with dates, the sixth a NULL integer in the key, the seventh a NULL row.

The jobs of ORC, Parquet, the setup, the schedulers and cubing stop by themselves,
so deadlock is not checked there and ending is a property of its own. In `records`
every step but `Terminated` pushes, combines or uses up something, so that no
behaviour goes on for ever, and the deadlock check says that none stops before
`Terminated`.

Fairness. `OrcInput!FairSpec` gives weak fairness to the setup handler, to each
worker's steps and to the master's handler for each worker: threads are
scheduled by the operating system, and the master's loop takes every request
from its socket in turn. `ParquetInput!FairSpec` says the same of its workers
and master. `CubeSetup!FairSpec` is weak fairness of each worker, which is a thread;
a read gives at least a byte while there are any, which is what `hdfsRead`
promises, but it may fail any number of times: a failure before the first byte ends
the process, and one after it is followed by a read that starts at a later place in
the file, so no worker reads for ever. `CubeInstance!FairCubeSpec` is weak fairness
of a sequential program. `CubingByLayer!FairSpec` gives weak fairness to each
worker, receiving included: what is sent arrives. None of the safety properties
depends on them.

Each property of a passing run has a mutant, an operator defined before the one it
would replace (`HandOut_StaysPut` for `HandOut`, and so on), with which the
property fails: a plausible mistake in the code that the property would find.

## 4. The proofs

The runs check small instances; the theorems below hold for all values of the
constants: any number of workers, files, rows and columns, any programs, trees and
failures. What they assume of the constants are the named ASSUMEs of the modules,
which TLC evaluates in every run, and where a theorem has hypotheses of its own, the
code needs them, as is said with each. `PROJECT.json` lists the theorems.

### ORC input (`OrcInputProofs`)

* `Invariance`, `TypeCorrect`, `NoRowTwice`: no row is given to `read_line` twice,
  whatever fails.
* `FinishCountsTheTold`, `NobodyLeavesRows`, under `ReadsOnce`: until the last worker is
  told, the counts are those of the workers told; nobody leaves a table with rows left.
* `ImplementsRowDistribution`, `EveryRowIsRead`, under `ReadsEveryFile`: the refinement,
  and that every row is read when all workers are done.

`AtMostOnce` is not inductive: a step that gives a row to the table relies on
nobody else having it on the way. `IndInv` follows a row from the master's list to
the tables. A row is `Free` while its url has not been browsed, or its file is
listed with an offset not past it. A worker `Holds` a row in three places: in the
answer it received (`offset .. offset + kOrcRowBatchSize - 1` of the file), in its
buffer, or in its table. `HeldIsNotFree` and `OneHolder` say that a held row is not
free and is held in one place by one worker, counted once; `ListsItsFiles`, that
the master lists an initial part of each directory, is what makes two urls, or two
entries of a vector, never name the same row. The steps reduce to one lemma,
`Ownership`: a step that frees no row, and lets a worker hold only what it held
before or what was free and no longer is, keeps both.

`ReadsOnce` is a program that names each url once, of files that do not end with a
batch (finding 1), with a connection and without failing reads; listing and opening
may fail. `ReadsEveryFile` adds that listing does not fail, that every file is in a
table of the program, and that stripes end where batches end: `next` reads one batch of
the external reader and no rest of it, so a stripe's end within a batch loses rows.
Workers may crash in opening a file: the job then does not end, but takes no row twice.

### Parquet input (`ParquetInputProofs`)

* `AnswersHandOutOnce`: each answer hands out a row group that is left, leaves all others
  left, drops no file before its end, says that nothing is left only when it is so, and
  counts the one worker it tells.
* `Invariance`, `TypeCorrect`, `NoRowGroupIsLost` for every program, whatever fails.
* `RowsOfTheUrl` (`LoadsKeepApart`), for programs with one HDFS url.
* `RowsHaveOneReader` (`OneReader`), under `NamesOnce`.
* `UrlsAreForgotten` (`CountsWorkers`), under `NamesOnce` and `AllLoadsAnswered`.
* `ImplementsDistribution`, under `ReadsEveryFile`: the refinement of `RowDistribution`.

The three maps are one invariant (`DictsOK`, `CountedAreOver`): a file is counted only
when all its row groups are out, which is why it may be dropped. The argument for
`OneReader` is that a url is entered by the first worker that asks for it and
forgotten when all workers have been told (`CountsAtMost`), so never entered again
while somebody may still ask (`FreshIsUnread`). It needs `NamesOnce`: a program names
each url once, no url is the name of another's file, and local and HDFS urls are not
mixed. Without it, the maps confuse the two: in the program of `parquet_faults` a local
file, a directory that holds it and an HDFS directory share counts, and a row gets two
readers. `AllLoadsAnswered` excludes that a worker leaves a load without an answer of the
assigner, having no connection or failing to read.

The refinement also needs that no row is lost on its way. `ReadsEveryFile` adds to these
two that no browse fails and that the browses of the program's urls open every file, which
leaves out local directories (see the divergences in section 3). Its invariant `RefInv`
says that once a url has been browsed, each row of its files is left or somebody has it
(`NoneMissing`), that nothing is left of a url that a worker was told is over
(`ToldIsReadUp`), that a worker asks when its lines are used up (`UsedUp`), and that the
lines it took were given to the load (`TakenIsGot`), so that the buffer which a load's end
throws away holds no row that was not given. Who crashes, in opening a file, takes the
rows of its row group along, but the job then never ends, and nothing is promised of its
end. The mapping counts a row that a worker repeats to itself (`parquet_buffer`) once.

### Metadata and setup (`CubeSetupProofs`)

* `LoadsInvariance`, `LoadsParseTheirFiles` (`ParsesItsFiles`), `LoadsMissNothing`
  (`LoadsAllFiles`): what the three loads parse.
* `SetupInvariance`: cube and model are made of these files, and what the CHECKs of the
  `init` members ask holds behind them.
* `FlatTableIsRight`, `MasksAreRight`, `WorkersGetTheSame`: the columns and masks.

Nothing is assumed but the named ASSUMEs; the conditions under which workers agree are
in the property itself. `LoadInv` is an invariant of one worker: a directory that is
still to be listed has no file in the map or the chunks; a file of another directory is
there only when an empty or failed one left it (`LeftBehind`); the buffer holds the
first `pos` bytes of the open file unless its reading failed; a load that has returned
has parsed what its directory holds, unless something ended it early. `WorkersAgree`
then needs that what a worker made of the files does not depend on the order in which
it read them, in which its tables lie in memory, or in which it made its two calls:
`ModelsAlike`, `ColumnAgrees` and `ResultsAgree` carry that through tables, columns and
masks. `MasksAreRight` holds for a row key with a column twice, too.

### The schedulers (`TreeCuboidsProofs`, `CubeInstanceProofs`)

* `TreeInvariance`, `NothingIsPadded`, `ParentsCover`, `LayersInvariance`, `TypesCorrect`,
  for any groups and any `parent_forward`.
* `CuboidsAreOnTree` (`OnlyOnTree`), `EachHasOneParent`, `LayersHoldEveryCuboid`,
  `BestMatchIsTheBest`, for `ProperGroups`.
* `ListedInvariance` for any lists; `ParentsAreTheLeast`, `LayersAddUpToTheTree` where
  each list has the base cuboid.
* `LayersAreTheWholeTree`, of both, under these hypotheses and one initialisation.

`build_tree_bottom_up` collects from the bottom up and scans from the top down.
`TreeInv` says that the collecting is closed: the parent of a collected cuboid is
collected or in the layer that is looked at (`ParentsCollected`). So the scan always
finds the first parent it looks for and pads nothing, for every `parent_forward`. It
lists what it scans once and under its parent only. That the layers hold all cuboids,
the `CHECK_EQ` of the code, is then a matter of counting: a walk over the layers that
meets each cuboid once has met as many as there are. It needs `ProperGroups`, since a
mandatory dimension outside `includes` gives a cuboid no parent in its group. With
them the theorem about best match also shows that `do_find_best_match_cuboid1` is never
reached: the candidate of a group is itself on a tree.

The list of the tree scheduler is sorted, and `ListInv` says what that gives: all that
covers a cuboid, and is below the node that was added last, is in the tree already, and
a node hangs below the least node that covers it. Cuboids added later cannot be
better. The base cuboid has to be listed, as the code dereferences the null pointer
that `find_best_parent` returns otherwise. `cuboids_by_layer_` is filled once and kept,
so the layers of a second initialisation are those of the first (`MaxInits` at most 1).
`TreeCuboidsProofs` is used in `CubeInstanceProofs` by the instance `Listed`, with which
each fact about the tree scheduler is cited in the variables of the cube.

### Cubing (`CubingProofs`)

* `InStep` (`LevelsInStep`) and `TypeCorrect`, for any tree and any keys: a worker
  builds a level only when all have flushed the one before.
* `Invariance`, and `BuildsTheCube` (`BuildsCube`): under `KeysKeepColumns` what is
  written is the cube's groups, whole and each once.

There is no barrier, so the invariant has to say where a row of a group is at any
time: in a source not yet pushed, in a sender's buffer, on the way, or received; once
for each cuboid, for that worker alone which the key is hashed to. `KeysKeepColumns`,
that a key has the columns of its cuboid, is what finding 3 shows the code to miss when
the highest bit is odd; `LevelsInStep` does not need it. `TreeAssumption`, of the
tree that cubing is given, is what the theorems about the scheduler say of its tree:
each layer is the children of the one above (`LayersInvariance`), each cuboid has one
parent (`EachHasOneParent`) that covers it (`ParentsCover`), and all but the base
cuboid are on a group's tree (`CuboidsAreOnTree`), so none is empty.

### Records (`RecordsProofs`)

* `ParseKey`: a key that starts with what `fill_header` wrote is read back as its
  cuboid, for any number of columns whose ids a long holds.
* `RowsCountOnce` (`CountsAndSums`), `DecimalsStayClose` (`SumsWithinRounding`) and
  `MaximumIsARows` (`MaxIsOfARow`), for `PlainTypes`; the second for sums that stay small
  enough for doubles (`SmallForDoubles`).
* `KeysMeanRows` (`KeyMeansRows`) and `GroupsStayWhole` (`GroupsAreWhole`), under
  `KeysKeepColumns`: a key has the values of its record's rows in the places of its
  columns, and when a level is built each row is in one record of each cuboid, with all
  rows of the same values and no others.
* `ColumnsLookedAt` and `WhenKeysKeepColumns`: the loop of `build_key_internal` looks at
  all columns when the highest bit is even, and at all but the last two when it is odd.

The records of a level are combined two at a time, in any order. That a count is the
number of rows needs that none of the two has a row of the other, and that is
`RecordsInv`: no row is in two records of the same cuboid (`Apart`), neither in the
channel nor among those still to be looked at, and none has been pushed for a child of a
record that is still to be looked at (`NotTwice`). The header is what keeps this: only
records with the same key are combined, so they are of the same cuboid, and
a cuboid is computed from one other only (`SpanningAssumption`, which is `OneParent` of
the scheduler). The bytes behind the header do not matter, so the theorems hold for any
values, also for those that have no bytes of their own, and for the keys finding 3 is
about. `ParseKey` rests on the arithmetic of `write_long` and `read_long`: `ReadWritten`
says what is read of what was written, with the garbage, and `IdNumberFacts` that ids
below a power of two are all different numbers.

For `DecimalsStayClose` a double is given as the whole number of units next to it, and
`ExactBelow` is the number below which that is to be had. The bound of the property is
kept through each combination: as long as the rows of a record, with what printing may
add to each, stay below `ExactBelow`, the sum of two strings has no error but that of
printing, which is half of the sixth digit.

`PlainTypes` says that only decimal types are written with something in parentheses. A
type such as `bigint(19)` is in no family, as only decimal's are taken off, and gets no
aggregator. `TableAssumption` says that the numbers of an integer sum's column fit in a
long long, as ORC's integer columns do.

`KeyMeansRows` is not inductive, as it only speaks of values that have bytes of their
own, and a record's next key is made of bytes. `KeysInv` is: whatever the values are,
the slice of a column in a record's key is one of the encodings of what the reader made
of each of its rows, and the splitter has a buffer for every column. It is shown to stay
from lemmas about where the columns lie: the encoder lays them out one after the other,
the highest first (`LaidNext`, `KeyLaid`), the splitter finds them there (`SplitFacts`),
and the builder takes each from the parent's buffer and puts it in the child's place
(`TakenBytes`, `ChildKeyKeeps`). The last needs `KeysKeepColumns`, the hypothesis
`CubingProofs` has too. `WhenKeysKeepColumns` says exactly when it holds: each cuboid is
below the one it is computed from and, if the highest bit of that one is odd, has neither
of the last two columns. That is finding 3 for every tree of cuboids.

From `KeysInv` to the property it takes `OwnBytes`: a value that fits is always written
as the same bytes, they are not those of NULL, they are read back as the value, and no
other value that fits has them. For an integer that is arithmetic (`IntegerBytes`); for a
date (`DateBytes`) it also needs that local midnight is within a day of that of UTC and
daylight saving time does not change the day, which is `ZoneAssumption`. `DateCodes` says
what a date's code is: the day, or the day before where midnight comes before that of UTC.

`GroupsAreWhole` is about rows that are missing as well. `PlacesInv` says where they are:
while the base cuboid is built, every row taken so far is in a record; on a later level,
for every cuboid of the level a row is in one of its records or in one that is still
to be looked at and whose cuboid it is computed from. With nothing left to look at
(`BuiltHasRows`) all rows are there; with `Apart` each is in one record; and two records
whose rows have the same values have the same key (`SameKeys`), so in a level that is
built they are one.

### What is only model-checked

* Liveness, with fairness and ENABLED, which are beyond the prover: `Terminates`,
  `EndsUnlessTorn`, `GetsReady`, `TreeIsBuilt`, `CubeIsBuilt`, and the fairness part of
  `DistributesRows`; the theorems prove its safety part, for ORC and for Parquet.
* The violated runs, which are counterexamples, and so `HdfsStream`.

The induction theorems of the library take an operator as a parameter, which the
provers cannot instantiate. Where a proof needs induction it goes over sets instead:
`LeastNumber` and `InductionOnSets` of `RecursionTheorems` take the set of the
numbers at which a statement fails, or holds, and recursive functions and folds are
unfolded from their definition there.

Every invariant that a passing run checks is stated by a theorem.

## 5. Not modelled

* The line input format behind the text table reader is Husky's own; neither it nor
  its master's side is in this repository. What the reader makes of a line is in
  `FlatTable`. The table reader factory chooses by a string.
* The bytes of the output: a record is modelled up to its strings. The writer is
  Husky's, as are the channels, modelled by what the code uses of them
  (`CubingByLayer`).
* `validate()` of the measures, `normalize_column_names`, `bytes_to_long`,
  `CuboidByteCombiner`, and the encoder's overloads that nothing calls.
* Hierarchies and joint dimensions, of which the code has only the comments.
* The word-count examples, the sketch `src/cubingByLayer.cpp`, build files and
  scripts. The tests call operations that are modelled.
