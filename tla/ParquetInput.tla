---------------------------- MODULE ParquetInput ----------------------------
(***************************************************************************)
(* Reading Parquet files: the master of ParquetAssigner and the workers'   *)
(* PARQUETInputFormat and PARQUETFileSplitter.  Every worker runs the same *)
(* program, a sequence of husky::load calls with an input format each;     *)
(* nothing makes the workers wait for each other.  next returns a line at  *)
(* a time, and asks the master for a row group when the lines are used up. *)
(* The splitter prints a row group behind what it printed before.          *)
(***************************************************************************)
EXTENDS ParquetAssigner, FiniteSets

CONSTANTS
    Worker,         \* the worker threads
    Program         \* the urls the workers load, in order

ASSUME WorkerAssumption ==
    /\ IsFiniteSet(Worker)
    /\ num_workers_alive = Cardinality(Worker)

ASSUME ProgramAssumption == Program \in Seq(Url) /\ Program # <<>>

VARIABLES
    pc,         \* "next", "waiting", "answered", "done" or "crashed"
    load,       \* index in Program of the load the worker is in
    reply,      \* the master's last answer to the worker
    cur_fn,     \* cur_fn_: the file the splitter's reader is open on
    buffer,     \* the splitter's buffer_: its lines with a newline
    torn,       \* whether a piece of a line, without a newline, is behind them
    taken,      \* how many of the lines next has returned
    got         \* the rows each load was given

workerVars == <<pc, load, reply, cur_fn, buffer, torn, taken, got>>
vars == <<masterVars, workerVars>>

\* A row is a file, a row group in it, and its number there.
RowsOfGroup(path, g) == {<<path, g, i>> : i \in 1 .. RowGroups[path][g + 1]}
RowsOfFile(path) == UNION {RowsOfGroup(path, g - 1) : g \in DOMAIN RowGroups[path]}
Row == UNION {RowsOfFile(path) : path \in Path}

\* The empty line that read_by_row prints when no column has a next value.
EmptyLine == <<>>

Loads == DOMAIN Program

Init ==
    /\ MasterInit
    /\ pc = [w \in Worker |-> "next"]
    /\ load = [w \in Worker |-> 1]
    /\ reply = [w \in Worker |-> NoBlock]
    /\ cur_fn = [w \in Worker |-> ""]
    /\ buffer = [w \in Worker |-> <<>>]
    /\ torn = [w \in Worker |-> FALSE]
    /\ taken = [w \in Worker |-> 0]
    /\ got = [w \in Worker |-> [k \in Loads |-> {}]]

-----------------------------------------------------------------------------
\* next returns a line of the buffer; an empty one is no row.
NextLine(w) ==
    /\ pc[w] = "next"
    /\ taken[w] < Len(buffer[w])
    /\ LET line == buffer[w][taken[w] + 1]
       IN  got' = IF line = EmptyLine THEN got
                  ELSE [got EXCEPT ![w][load[w]] = @ \cup {line}]
    /\ taken' = [taken EXCEPT ![w] = @ + 1]
    /\ UNCHANGED <<masterVars, pc, load, reply, cur_fn, buffer, torn>>

\* next finds no newline behind the last line: it returns the piece of a line
\* there, r is npos and l, r + 1, the start of the buffer.  As r will never be
\* the buffer's last place, next goes over these lines for ever.
NextPiece(w) ==
    /\ pc[w] = "next"
    /\ taken[w] = Len(buffer[w])
    /\ torn[w]
    /\ taken' = [taken EXCEPT ![w] = 0]
    /\ UNCHANGED <<masterVars, pc, load, reply, cur_fn, buffer, torn, got>>

\* next finds the buffer used up, and fetch_block sends the question.
AskMaster(w) ==
    /\ pc[w] = "next"
    /\ taken[w] = Len(buffer[w])
    /\ ~torn[w]
    /\ pc' = [pc EXCEPT ![w] = "waiting"]
    /\ UNCHANGED <<masterVars, load, reply, cur_fn, buffer, torn, taken, got>>

\* A mutant of Answers: no answer when nothing is left.
Answers_SilentAtTheEnd(url) ==
    {a \in IF IsLocal(url) THEN LocalAnswers(url) ELSE HdfsAnswers(url) :
        a.ret # NoBlock}

\* The answers to a question for url that the assigner can look up.
Answers(url) == IF IsLocal(url) THEN LocalAnswers(url) ELSE HdfsAnswers(url)

Answered(w, ret) ==
    /\ pc' = [pc EXCEPT ![w] = "answered"]
    /\ reply' = [reply EXCEPT ![w] = ret]
    /\ UNCHANGED <<load, cur_fn, buffer, torn, taken, got>>

\* master_main_handler.  Without a connection, or for a protocol it does not
\* know, the answer is that nothing is left.
MasterMainHandler(w) ==
    LET url == Program[load[w]]
    IN  /\ pc[w] = "waiting"
        /\ IF Protocol[url] = "hdfs" THEN InitHdfs ELSE UNCHANGED fs
        /\ IF IsLocal(url) \/ (Protocol[url] = "hdfs" /\ fs' = "ok")
           THEN \E a \in Answers(url) : dicts' = a.dicts /\ Answered(w, a.ret)
           ELSE Answered(w, NoBlock) /\ UNCHANGED dicts

-----------------------------------------------------------------------------
\* A mutant of LoadEnds: the next load has the splitter of the last one.
LoadEnds_KeepsTheBuffer(w) ==
    /\ load' = [load EXCEPT ![w] = @ + 1]
    /\ pc' = [pc EXCEPT ![w] = IF load[w] = Len(Program) THEN "done" ELSE "next"]
    /\ taken' = [taken EXCEPT ![w] = Len(buffer[w])]
    /\ UNCHANGED <<masterVars, reply, cur_fn, buffer, torn, got>>

\* PARQUETFileSplitter::load, of a splitter that has just been made.
NewSplitter(w) ==
    /\ cur_fn' = [cur_fn EXCEPT ![w] = ""]
    /\ buffer' = [buffer EXCEPT ![w] = <<>>]
    /\ torn' = [torn EXCEPT ![w] = FALSE]

\* fetch_block returned nothing: next returns false and the load ends; the
\* next one has an input format of its own.
LoadEnds(w) ==
    /\ load' = [load EXCEPT ![w] = @ + 1]
    /\ pc' = [pc EXCEPT ![w] = IF load[w] = Len(Program) THEN "done" ELSE "next"]
    /\ NewSplitter(w)
    /\ taken' = [taken EXCEPT ![w] = 0]
    /\ UNCHANGED <<masterVars, reply, got>>

FetchNothing(w) ==
    /\ pc[w] = "answered"
    /\ reply[w] = NoBlock
    /\ LoadEnds(w)

\* Opening a file fails, or never succeeds when it lives elsewhere.
Elsewhere(w, path) ==
    IsLocal(path) # IsLocal(Program[load[w]])

\* read_by_row: the lines of a row group.  It prints a row column by column,
\* then a newline, so that an exception leaves the lines printed so far and,
\* where it comes in the middle of a row, a piece of one more.
RowGroupLines(path, g) ==
    [i \in 1 .. RowGroups[path][g + 1] |-> <<path, g, i>>] \o <<EmptyLine>>
ReadByRow(path, g) ==
    LET rows == RowGroups[path][g + 1]
        First(n, piece) == [lines |-> SubSeq(RowGroupLines(path, g), 1, n), torn |-> piece]
    IN  IF "read" \in Faults
        THEN {First(n, FALSE) : n \in 0 .. rows + 1} \cup {First(n, TRUE) : n \in 0 .. rows - 1}
        ELSE {First(rows + 1, FALSE)}

\* A mutant of Printed: the first line is overwritten.
Printed_Loses(w, lines) == buffer[w] \o Tail(lines)

\* buffer_ is appended to.
Printed(w, lines) == buffer[w] \o lines

FetchBlock(w) ==
    LET path == reply[w].filename
    IN  /\ pc[w] = "answered"
        /\ path # ""
        /\ path # cur_fn[w] => ~Elsewhere(w, path)
        /\ \E print \in ReadByRow(path, reply[w].offset) :
              IF Printed(w, print.lines) = <<>> /\ ~print.torn
              THEN LoadEnds(w)
              ELSE /\ pc' = [pc EXCEPT ![w] = "next"]
                   /\ cur_fn' = [cur_fn EXCEPT ![w] = path]
                   /\ buffer' = [buffer EXCEPT ![w] = Printed(w, print.lines)]
                   /\ torn' = [torn EXCEPT ![w] = print.torn]
                   /\ taken' = [taken EXCEPT ![w] = 0]
                   /\ UNCHANGED <<masterVars, load, reply, got>>

\* An exception while a file is opened ends the process the worker runs in.
OpenFails(w) ==
    LET path == reply[w].filename
    IN  /\ pc[w] = "answered"
        /\ path \notin {"", cur_fn[w]}
        /\ "open" \in Faults \/ Elsewhere(w, path)
        /\ pc' = [pc EXCEPT ![w] = "crashed"]
        /\ UNCHANGED <<masterVars, load, reply, cur_fn, buffer, torn, taken, got>>

WorkerStep(w) ==
    \/ NextLine(w) \/ NextPiece(w) \/ AskMaster(w)
    \/ FetchNothing(w) \/ FetchBlock(w) \/ OpenFails(w)

Next == \E w \in Worker : WorkerStep(w) \/ MasterMainHandler(w)

Spec == Init /\ [][Next]_vars

\* Threads are scheduled and the master serves every question it receives.
FairSpec ==
    /\ Spec
    /\ \A w \in Worker : WF_vars(WorkerStep(w)) /\ WF_vars(MasterMainHandler(w))
-----------------------------------------------------------------------------
TypeOK ==
    /\ fs \in {"null", "ok"}
    /\ DictsOK(dicts)
    /\ pc \in [Worker -> {"next", "waiting", "answered", "done", "crashed"}]
    /\ load \in [Worker -> 1 .. Len(Program) + 1]
    /\ reply \in [Worker -> [filename : Path \cup {""}, offset : Nat]]
    /\ cur_fn \in [Worker -> Path \cup {""}]
    /\ buffer \in [Worker -> Seq(Row \cup {EmptyLine})]
    /\ torn \in [Worker -> BOOLEAN]
    /\ taken \in [Worker -> Nat] /\ \A w \in Worker : taken[w] <= Len(buffer[w])
    /\ got \in [Worker -> [Loads -> SUBSET Row]]

\* A worker was answered with the row's group, has it in its buffer, or gave
\* it to a load.
Has(w, x) ==
    \/ pc[w] = "answered" /\ reply[w] = [filename |-> x[1], offset |-> x[2]]
    \/ \E i \in DOMAIN buffer[w] : buffer[w][i] = x
    \/ \E k \in Loads : x \in got[w][k]

\* No two workers have the same row, on its way or delivered (the splitter of
\* one worker repeats rows, see BufferIsTheBlock).
OneReader ==
    \A x \in Row : \A v, w \in Worker : Has(v, x) /\ Has(w, x) => v = w

RowsOf(url) == (UNION {RowsOfFile(p) : p \in Range(Files[url])})
                   \cup (IF Kind[url] = "file" THEN RowsOfFile(url) ELSE {})

\* A load is given rows of its own url only.
LoadsKeepApart ==
    \A w \in Worker : \A k \in Loads : got[w][k] \subseteq RowsOf(Program[k])

\* The workers the master told that nothing is left for load k.
Told(k) ==
    {w \in Worker : \/ load[w] > k
                    \/ load[w] = k /\ pc[w] = "answered" /\ reply[w] = NoBlock}

\* In a program that names each url once, the count of a url is the number of
\* workers told ("the number of workers who have finished reading the files in
\* the given url"), and the last one told removes it.
CountsWorkers ==
    \A k \in Loads :
        IF Program[k] \in DOMAIN dicts.finish_dict
        THEN dicts.finish_dict[Program[k]] = Cardinality(Told(k)) /\ Told(k) # Worker
        ELSE Told(k) \in {{}, Worker}

\* A file is dropped from the maps only when its last row group is handed out.
NoGroupLost ==
    [][\A p \in DOMAIN dicts.file_size \ DOMAIN dicts'.file_size :
          dicts.file_offset[p] = dicts.file_size[p]]_vars

\* Every worker ends its program, or crashed.
Terminates == <>[](\A w \in Worker : pc[w] \in {"done", "crashed"})

\* Where reading may fail, a worker that neither ends its program nor crashes is
\* one whose buffer ends in a piece of a line.  next asks for a buffer of "'\n'
\* seperated lines" (parquet_inputformat.cpp), which read_by_row does not leave
\* when it fails in the middle of a row, and never comes to its end.
EndsUnlessTorn == <>[](\A w \in Worker : pc[w] \in {"done", "crashed"} \/ torn[w])

\* Which worker takes a row is as RowDistribution promises; how often it
\* repeats the row to itself is not counted.
Distribution == INSTANCE RowDistribution WITH
    got  <- [w \in Worker |-> [x \in Row |-> IF \E k \in Loads : x \in got[w][k] THEN 1 ELSE 0]],
    done <- {w \in Worker : pc[w] = "done"}
DistributesRows == Distribution!FairSpec
-----------------------------------------------------------------------------
(***************************************************************************)
(* Why no row group is lost.                                               *)
(***************************************************************************)

\* A worker whose program has not ended is in one of its loads.
LoadInProgram == \A w \in Worker : pc[w] # "done" => load[w] \in Loads

\* A worker is only ever sent to a row group that the file has.
GroupsExist ==
    \A w \in Worker :
        reply[w] # NoBlock =>
            /\ reply[w].filename \in Path
            /\ reply[w].offset < Len(RowGroups[reply[w].filename])

IndInv == TypeOK /\ LoadInProgram /\ GroupsExist /\ CountedAreOver(dicts)
-----------------------------------------------------------------------------
(***************************************************************************)
(* Why a row has one reader: files are entered once, when the first worker *)
(* asks for their url, because the url is forgotten only when all workers  *)
(* were told.  The maps are kept by name, so this needs programs in which  *)
(* a name stands for one thing, once.                                      *)
(***************************************************************************)
NamesOnce ==
    \A j, k \in Loads :
        /\ Program[j] = Program[k] => j = k
        /\ Program[k] \notin Range(Files[Program[j]])
        /\ IsLocal(Program[j]) = IsLocal(Program[k])

\* A worker ends a load only when the assigner told it that nothing is left.
AllLoadsAnswered ==
    /\ Faults \cap {"connect", "read"} = {}
    /\ \A k \in Loads : IsLocal(Program[k]) \/ Protocol[Program[k]] = "hdfs"

\* The master knows the files of the program's urls, and no others.
OnlyFiles ==
    \A p \in DOMAIN dicts.file_size : \E k \in Loads : p \in Opens(Program[k])

\* A url is not counted for more workers than were told.
CountsAtMost ==
    \A k \in Loads : Get(dicts.finish_dict, Program[k], 0) <= Cardinality(Told(k))

\* Nobody has asked for the url of load k, or got an answer from the master.
Fresh(k) == Program[k] \notin DOMAIN dicts.finish_dict /\ Told(k) # Worker

FreshIsUnread ==
    \A k \in Loads : Fresh(k) =>
        \A p \in Opens(Program[k]) :
            /\ p \notin DOMAIN dicts.file_size
            /\ \A w \in Worker : \A x \in RowsOfFile(p) : ~Has(w, x)

HeldIsNotLeft ==
    \A w \in Worker : \A x \in Row : Has(w, x) => ~Left(dicts, x[1], x[2])

Ownership ==
    OnlyFiles /\ CountsAtMost /\ FreshIsUnread /\ HeldIsNotLeft /\ OneReader
-----------------------------------------------------------------------------
(***************************************************************************)
(* Why loads keep apart: the master hands out files of any HDFS url, so    *)
(* that a program may have one only.                                       *)
(***************************************************************************)
OneHdfsUrl ==
    \A j, k \in Loads :
        ~IsLocal(Program[j]) /\ ~IsLocal(Program[k]) => Program[j] = Program[k]

\* What a worker was sent to, and can open, is of the url it reads.
SentToOwnFiles ==
    \A w \in Worker :
        pc[w] = "answered" /\ reply[w] # NoBlock /\ ~Elsewhere(w, reply[w].filename) =>
            RowsOfFile(reply[w].filename) \subseteq RowsOf(Program[load[w]])

\* And so is what it has printed.
PrintsOwnRows ==
    \A w \in Worker : pc[w] # "done" =>
        /\ cur_fn[w] # "" => ~Elsewhere(w, cur_fn[w])
        /\ \A i \in DOMAIN buffer[w] :
              buffer[w][i] # EmptyLine => buffer[w][i] \in RowsOf(Program[load[w]])

Apart == OnlyFiles /\ SentToOwnFiles /\ PrintsOwnRows /\ LoadsKeepApart
-----------------------------------------------------------------------------
\* The buffer a worker reads from is the block it asked for ("ask master for a
\* new block", parquet_file_splitter.hpp; "fetch a new block",
\* parquet_inputformat.cpp).
BufferIsTheBlock ==
    \A w \in Worker : pc[w] = "next" =>
        \A i \in DOMAIN buffer[w] :
            buffer[w][i] # EmptyLine =>
                buffer[w][i] \in RowsOfGroup(reply[w].filename, reply[w].offset)
=============================================================================
